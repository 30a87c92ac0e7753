--------------------------- MODULE HddPoolProofs ---------------------------
(***************************************************************************)
(* Proofs about HddPool: the ids of miners, the running sums of space, the *)
(* copies of a miner's row, and the deposits that cover them, for every    *)
(* set of pools, miners and owners.  Then about MinerRewards, which        *)
(* extends it: the score tables and the rewards drawn from them, for every *)
(* batch size and every sequence of changes between two batches.           *)
(***************************************************************************)
EXTENDS MinerRewards, HddDepositProofs

-----------------------------------------------------------------------------
(* The compact table of ids.  IdsPartition says that the free ids can be     *)
(* walked through; the invariant has the walk itself, which visits no id     *)
(* twice: an insertion drops its first id, a deletion puts one in front.     *)

IdRow == [minerid : Miners \cup {NoRow}, next_id : Nat]

FreeOf(table) == {i \in DOMAIN table : table[i].minerid = NoRow}

FreeWalk(table, next, n, walk) ==
    /\ walk[1] = next /\ walk[n + 1] = Len(table) + 1
    /\ \A k \in 1..n : walk[k] \in FreeOf(table) /\ walk[k + 1] = table[walk[k]].next_id
    /\ \A i \in FreeOf(table) : \E k \in 1..n : walk[k] = i
    /\ \A j, k \in 1..n : walk[j] = walk[k] => j = k

WalkExists(table, next) == \E n \in Nat : \E walk \in [1..n + 1 -> Nat] : FreeWalk(table, next, n, walk)

InTable == {m \in Miners : miner[m] # NoRow}

IdsInv ==
    /\ ids.table \in Seq(IdRow) /\ ids.next \in Nat /\ ids.miners \in Nat
    /\ ids = [next |-> ids.next, miners |-> ids.miners, table |-> ids.table]
    /\ WalkExists(ids.table, ids.next)
    /\ \A i \in DOMAIN ids.table : ids.table[i].minerid # NoRow =>
         miner[ids.table[i].minerid] # NoRow /\ miner[ids.table[i].minerid].id = i
    /\ \A m \in InTable : miner[m].id \in DOMAIN ids.table /\ ids.table[miner[m].id].minerid = m
    /\ ids.miners = Cardinality(InTable)

\* The head of the list is a free id or the one past the table, and then no id is free.
LEMMA WalkHead ==
    ASSUME NEW table \in Seq(IdRow), NEW next, WalkExists(table, next)
    PROVE  \/ next = Len(table) + 1 /\ FreeOf(table) = {}
           \/ next # Len(table) + 1 /\ next \in FreeOf(table)
<1>0. PICK n \in Nat : \E walk \in [1..n + 1 -> Nat] : FreeWalk(table, next, n, walk)
  BY DEF WalkExists
<1>1. PICK walk \in [1..n + 1 -> Nat] : FreeWalk(table, next, n, walk)
  BY <1>0
<1>2. CASE n = 0
  BY <1>1, <1>2 DEF FreeWalk
<1>3. CASE n # 0
  <2>1. 1 \in 1..n
    BY <1>3
  <2>2. next \in FreeOf(table)
    BY <1>1, <2>1 DEF FreeWalk
  <2>3. next # Len(table) + 1
    BY <2>2 DEF FreeOf
  <2> QED
    BY <2>2, <2>3
<1> QED
  BY <1>2, <1>3

\* A new row at the end of a table without free ids.
LEMMA WalkAppend ==
    ASSUME NEW table \in Seq(IdRow), NEW row \in IdRow, row.minerid # NoRow, FreeOf(table) = {}
    PROVE  WalkExists(Append(table, row), Len(table) + 2)
<1> DEFINE long == Append(table, row)
           walk == [k \in 1..0 + 1 |-> Len(table) + 2]
<1>1. /\ long \in Seq(IdRow) /\ Len(long) = Len(table) + 1
      /\ \A i \in 1..Len(table) : long[i] = table[i]
      /\ long[Len(table) + 1] = row
  OBVIOUS
<1>2. FreeOf(long) = {}
  BY <1>1 DEF FreeOf
<1>3. walk \in [1..0 + 1 -> Nat] /\ walk[1] = Len(table) + 2 /\ walk[0 + 1] = Len(table) + 2
  OBVIOUS
<1> HIDE DEF long, walk
<1>4. FreeWalk(long, Len(table) + 2, 0, walk)
  BY <1>1, <1>2, <1>3 DEF FreeWalk
<1>5. 0 \in Nat
  OBVIOUS
<1>6. WalkExists(long, Len(table) + 2)
  BY <1>3, <1>4, <1>5 DEF WalkExists
<1> QED
  BY <1>6 DEF long

\* The first free id is handed out.
LEMMA WalkTake ==
    ASSUME NEW table \in Seq(IdRow), NEW next \in FreeOf(table), WalkExists(table, next),
           NEW row \in IdRow, row.minerid # NoRow
    PROVE  WalkExists([table EXCEPT ![next] = row], table[next].next_id)
<1> DEFINE new == [table EXCEPT ![next] = row]
<1>0. PICK n \in Nat : \E walk \in [1..n + 1 -> Nat] : FreeWalk(table, next, n, walk)
  BY DEF WalkExists
<1>1. PICK walk \in [1..n + 1 -> Nat] : FreeWalk(table, next, n, walk)
  BY <1>0
<1>2. /\ DOMAIN new = DOMAIN table /\ Len(new) = Len(table) /\ next \in DOMAIN table
      /\ new[next] = row /\ \A i \in DOMAIN table : i # next => new[i] = table[i]
  BY DEF FreeOf
<1>3. FreeOf(new) = FreeOf(table) \ {next}
  BY <1>2 DEF FreeOf
<1>4. n # 0 /\ n - 1 \in Nat /\ (n - 1) + 1 = n
  <2>1. n # 0
    BY <1>1 DEF FreeWalk
  <2> QED
    BY <2>1
<1>5. PICK l \in Nat : l = n - 1
  BY <1>4
<1> DEFINE rest == [k \in 1..l + 1 |-> walk[k + 1]]
<1>6. rest \in [1..l + 1 -> Nat] /\ \A k \in 1..l + 1 : rest[k] = walk[k + 1]
  BY <1>1, <1>4, <1>5
<1> HIDE DEF new, rest
<1>7. FreeWalk(new, table[next].next_id, l, rest)
  <2>1. rest[1] = table[next].next_id /\ rest[l + 1] = Len(new) + 1
    BY <1>1, <1>2, <1>4, <1>5, <1>6 DEF FreeWalk
  <2>2. ASSUME NEW k \in 1..l
        PROVE  rest[k] \in FreeOf(new) /\ rest[k + 1] = new[rest[k]].next_id
    <3>1. k + 1 \in 1..n /\ 1 \in 1..n /\ k + 1 # 1 /\ k \in 1..l + 1 /\ k + 1 \in 1..l + 1
      BY <1>4, <1>5
    <3>2. walk[k + 1] \in FreeOf(table) /\ walk[k + 1] # walk[1] /\ walk[1] = next
      BY <1>1, <3>1 DEF FreeWalk
    <3>3. walk[(k + 1) + 1] = table[walk[k + 1]].next_id
      BY <1>1, <3>1 DEF FreeWalk
    <3>4. rest[k] = walk[k + 1] /\ rest[k + 1] = walk[(k + 1) + 1]
      BY <1>6, <3>1
    <3>5. walk[k + 1] \in DOMAIN table
      BY <3>2 DEF FreeOf
    <3> QED
      BY <1>2, <1>3, <3>2, <3>3, <3>4, <3>5
  <2>3. ASSUME NEW i \in FreeOf(new)
        PROVE  \E k \in 1..l : rest[k] = i
    <3>1. PICK k \in 1..n : walk[k] = i
      BY <1>1, <1>3 DEF FreeWalk
    <3>2. k # 1
      BY <1>1, <1>3, <3>1 DEF FreeWalk
    <3>3. k - 1 \in 1..l /\ k - 1 \in 1..l + 1 /\ (k - 1) + 1 = k
      BY <1>5, <3>2
    <3>4. rest[k - 1] = i
      BY <1>6, <3>1, <3>3
    <3> QED
      BY <3>3, <3>4
  <2>4. ASSUME NEW j \in 1..l, NEW k \in 1..l, rest[j] = rest[k]
        PROVE  j = k
    <3>1. j + 1 \in 1..n /\ k + 1 \in 1..n /\ j \in 1..l + 1 /\ k \in 1..l + 1
      BY <1>4, <1>5
    <3>2. walk[j + 1] = walk[k + 1]
      BY <1>6, <2>4, <3>1
    <3>3. j + 1 = k + 1
      BY <1>1, <3>1, <3>2 DEF FreeWalk
    <3> QED
      BY <3>3
  <2> QED
    BY <2>1, <2>2, <2>3, <2>4 DEF FreeWalk
<1>8. WalkExists(new, table[next].next_id)
  BY <1>6, <1>7 DEF WalkExists
<1> QED
  BY <1>8 DEF new

\* An id is given back.
LEMMA WalkGive ==
    ASSUME NEW table \in Seq(IdRow), NEW next \in Nat, WalkExists(table, next),
           NEW id \in DOMAIN table, table[id].minerid # NoRow,
           NEW row \in IdRow, row.minerid = NoRow, row.next_id = next
    PROVE  WalkExists([table EXCEPT ![id] = row], id)
<1> DEFINE new == [table EXCEPT ![id] = row]
<1>0. PICK n \in Nat : \E walk \in [1..n + 1 -> Nat] : FreeWalk(table, next, n, walk)
  BY DEF WalkExists
<1>1. PICK walk \in [1..n + 1 -> Nat] : FreeWalk(table, next, n, walk)
  BY <1>0
<1>2. /\ DOMAIN new = DOMAIN table /\ Len(new) = Len(table) /\ id \in Nat
      /\ new[id] = row /\ \A i \in DOMAIN table : i # id => new[i] = table[i]
  OBVIOUS
<1>3. FreeOf(new) = FreeOf(table) \cup {id} /\ id \notin FreeOf(table) /\ FreeOf(table) \subseteq DOMAIN table
  BY <1>2 DEF FreeOf
<1>4. PICK l \in Nat : l = n + 1
  OBVIOUS
<1> DEFINE all == [k \in 1..l + 1 |-> IF k = 1 THEN id ELSE walk[k - 1]]
<1>5. /\ all \in [1..l + 1 -> Nat] /\ all[1] = id
      /\ \A k \in 2..l + 1 : all[k] = walk[k - 1]
  <2>1. \A k \in 1..l + 1 : k # 1 => k - 1 \in 1..n + 1
    BY <1>4
  <2>2. 1 \in 1..l + 1 /\ \A k \in 2..l + 1 : k \in 1..l + 1 /\ k # 1
    BY <1>4
  <2> QED
    BY <1>2, <2>1, <2>2
<1> HIDE DEF new, all
<1>6. FreeWalk(new, id, l, all)
  <2>1. all[l + 1] = Len(new) + 1
    <3>1. l + 1 \in 2..l + 1 /\ (l + 1) - 1 = n + 1
      BY <1>4
    <3> QED
      BY <1>1, <1>2, <1>5, <3>1 DEF FreeWalk
  <2>2. ASSUME NEW k \in 1..l
        PROVE  all[k] \in FreeOf(new) /\ all[k + 1] = new[all[k]].next_id
    <3>1. CASE k = 1
      <4>1. 2 \in 2..l + 1 /\ 2 - 1 = 1 /\ k + 1 = 2
        BY <1>4, <3>1
      <4>2. all[2] = next
        BY <1>1, <1>5, <4>1 DEF FreeWalk
      <4> QED
        BY <1>2, <1>3, <1>5, <3>1, <4>1, <4>2
    <3>2. CASE k # 1
      <4>1. PICK j \in 1..n : j = k - 1
        BY <1>4, <3>2
      <4>2. k \in 2..l + 1 /\ k + 1 \in 2..l + 1 /\ (k + 1) - 1 = j + 1
        BY <1>4, <3>2, <4>1
      <4>3. all[k] = walk[j] /\ all[k + 1] = walk[j + 1]
        BY <1>5, <4>1, <4>2
      <4>4. walk[j] \in FreeOf(table) /\ walk[j + 1] = table[walk[j]].next_id
        BY <1>1 DEF FreeWalk
      <4> QED
        BY <1>2, <1>3, <4>3, <4>4
    <3> QED
      BY <3>1, <3>2
  <2>3. ASSUME NEW i \in FreeOf(new)
        PROVE  \E k \in 1..l : all[k] = i
    <3>1. CASE i = id
      <4>1. 1 \in 1..l
        BY <1>4
      <4> QED
        BY <1>5, <3>1, <4>1
    <3>2. CASE i # id
      <4>1. PICK j \in 1..n : walk[j] = i
        BY <1>1, <1>3, <3>2 DEF FreeWalk
      <4>2. PICK k \in 2..l : k = j + 1
        BY <1>4
      <4>3. k \in 1..l /\ k \in 2..l + 1 /\ k - 1 = j
        BY <4>2
      <4> QED
        BY <1>5, <4>1, <4>3
    <3> QED
      BY <3>1, <3>2
  <2>4. ASSUME NEW j \in 1..l, NEW k \in 1..l, all[j] = all[k]
        PROVE  j = k
    <3>1. \A x \in 1..l : x # 1 => x \in 2..l + 1 /\ x - 1 \in 1..n
      BY <1>4
    <3>2. \A x \in 1..l : x # 1 => all[x] = walk[x - 1] /\ walk[x - 1] \in FreeOf(table)
      BY <1>1, <1>5, <3>1 DEF FreeWalk
    <3>3. j = 1 <=> k = 1
      BY <1>3, <1>5, <2>4, <3>2
    <3>4. CASE j # 1
      <4>1. walk[j - 1] = walk[k - 1] /\ j - 1 \in 1..n /\ k - 1 \in 1..n
        BY <2>4, <3>1, <3>2, <3>3, <3>4
      <4>2. j - 1 = k - 1
        BY <1>1, <4>1 DEF FreeWalk
      <4> QED
        BY <4>2
    <3> QED
      BY <3>3, <3>4
  <2> QED
    BY <1>5, <2>1, <2>2, <2>3, <2>4 DEF FreeWalk
<1>7. WalkExists(new, id)
  BY <1>5, <1>6 DEF WalkExists
<1> QED
  BY <1>7 DEF new

\* Steps that leave the ids and the miners in the table as they are.
LEMMA IdsSame ==
    ASSUME IdsInv, ids' = ids,
           \A m \in Miners : /\ miner'[m] = NoRow <=> miner[m] = NoRow
                             /\ miner[m] # NoRow => miner'[m].id = miner[m].id
    PROVE  IdsInv'
<1>1. InTable' = InTable
  BY DEF InTable
<1>2. /\ ids.table \in Seq(IdRow) /\ ids.next \in Nat /\ ids.miners \in Nat
      /\ ids = [next |-> ids.next, miners |-> ids.miners, table |-> ids.table]
      /\ WalkExists(ids.table, ids.next) /\ ids.miners = Cardinality(InTable)
  BY DEF IdsInv
<1>3. \A i \in DOMAIN ids.table : ids.table[i].minerid \in Miners \cup {NoRow}
  <2>1. \A i \in DOMAIN ids.table : ids.table[i] \in IdRow
    BY <1>2
  <2> QED
    BY <2>1 DEF IdRow
<1>4. \A i \in DOMAIN ids.table : ids.table[i].minerid # NoRow =>
        miner'[ids.table[i].minerid] # NoRow /\ miner'[ids.table[i].minerid].id = i
  BY <1>3 DEF IdsInv
<1>5. \A m \in InTable : miner'[m].id \in DOMAIN ids.table /\ ids.table[miner'[m].id].minerid = m
  BY DEF IdsInv, InTable
<1> QED
  BY <1>1, <1>2, <1>4, <1>5 DEF IdsInv

\* What the invariant says of the rows of the table.
LEMMA IdRows ==
    ASSUME IdsInv
    PROVE  /\ ids.table \in Seq(IdRow) /\ ids.next \in Nat /\ ids.miners \in Nat
           /\ WalkExists(ids.table, ids.next) /\ ids.miners = Cardinality(InTable)
           /\ \A i \in DOMAIN ids.table : /\ ids.table[i] \in IdRow /\ ids.table[i].next_id \in Nat
                                          /\ ids.table[i].minerid \in Miners \cup {NoRow}
           /\ IsFiniteSet(InTable) /\ InTable \subseteq Miners
           /\ NoRow \notin Miners
<1>1. /\ ids.table \in Seq(IdRow) /\ ids.next \in Nat /\ ids.miners \in Nat
      /\ WalkExists(ids.table, ids.next) /\ ids.miners = Cardinality(InTable)
  BY DEF IdsInv
<1>2. \A i \in DOMAIN ids.table : ids.table[i] \in IdRow
  BY <1>1
<1>3. \A i \in DOMAIN ids.table : /\ ids.table[i].next_id \in Nat
                                  /\ ids.table[i].minerid \in Miners \cup {NoRow}
  BY <1>2 DEF IdRow
<1>4. InTable \subseteq Miners
  BY DEF InTable
<1>5. IsFiniteSet(InTable)
  BY <1>4, FS_Subset, DepositAssumption
<1> QED
  BY <1>1, <1>2, <1>3, <1>4, <1>5, NoRowAssumption

\* A miner gets an id: one that is free or the next new one.
LEMMA IdsInsert ==
    ASSUME IdsInv, NEW m \in Miners, miner[m] = NoRow, miner \in [Miners -> Miner \cup {NoRow}],
           NEW row, row # NoRow, row.id = ids.next,
           miner' = [miner EXCEPT ![m] = row], ids' = insert_miner2(m)
    PROVE  IdsInv'
<1> DEFINE new == [minerid |-> m, next_id |-> 0]
           table == ids.table
           next == ids.next
<1>1. /\ table \in Seq(IdRow) /\ next \in Nat /\ ids.miners \in Nat /\ WalkExists(table, next)
      /\ ids.miners = Cardinality(InTable) /\ IsFiniteSet(InTable) /\ InTable \subseteq Miners
      /\ NoRow \notin Miners
      /\ \A i \in DOMAIN table : table[i].minerid \in Miners \cup {NoRow} /\ table[i].next_id \in Nat
  BY IdRows
<1>2. new \in IdRow /\ new.minerid = m /\ m # NoRow
  BY <1>1 DEF IdRow
<1>3. /\ m \notin InTable /\ InTable' = InTable \cup {m}
      /\ \A x \in Miners : miner'[x] = IF x = m THEN row ELSE miner[x]
  BY DEF InTable
<1>4. /\ \A i \in DOMAIN table : table[i].minerid # NoRow =>
           /\ table[i].minerid \in InTable
           /\ miner[table[i].minerid].id = i
      /\ \A x \in InTable : miner[x].id \in DOMAIN table /\ table[miner[x].id].minerid = x
  BY <1>1 DEF IdsInv, InTable
<1>5. Cardinality(InTable') = ids.miners + 1
  <2> DEFINE S == InTable
  <2>1. IsFiniteSet(S) /\ m \notin S
    BY <1>1, <1>3
  <2> HIDE DEF S
  <2>2. Cardinality(S \cup {m}) = Cardinality(S) + 1
    BY <2>1, FS_AddElement
  <2> QED
    BY <1>1, <1>3, <2>2 DEF S
<1>6. ASSUME NEW t \in Seq(IdRow), NEW after \in Nat, WalkExists(t, after),
             ids' = [next |-> after, miners |-> ids.miners + 1, table |-> t],
             DOMAIN table \subseteq DOMAIN t, next \in DOMAIN t, t[next] = new,
             \A i \in DOMAIN t : i # next => i \in DOMAIN table /\ t[i] = table[i],
             next \in DOMAIN table => table[next].minerid = NoRow
      PROVE  IdsInv'
  <2>1. /\ ids'.table = t /\ ids'.next = after /\ ids'.miners = ids.miners + 1
        /\ ids' = [next |-> ids'.next, miners |-> ids'.miners, table |-> ids'.table]
        /\ ids'.miners \in Nat
    BY <1>1, <1>6
  <2>2. ASSUME NEW i \in DOMAIN t, t[i].minerid # NoRow
        PROVE  miner'[t[i].minerid] # NoRow /\ miner'[t[i].minerid].id = i
    <3>1. CASE i = next
      BY <1>2, <1>3, <1>6, <3>1
    <3>2. CASE i # next
      <4>1. i \in DOMAIN table /\ t[i] = table[i]
        BY <1>6, <3>2
      <4>2. table[i].minerid \in InTable /\ miner[table[i].minerid].id = i
        BY <1>4, <2>2, <4>1
      <4>3. miner'[table[i].minerid] = miner[table[i].minerid]
        BY <1>1, <1>3, <4>2
      <4> QED
        BY <4>1, <4>2, <4>3 DEF InTable
    <3> QED
      BY <3>1, <3>2
  <2>3. ASSUME NEW x \in InTable'
        PROVE  miner'[x].id \in DOMAIN t /\ t[miner'[x].id].minerid = x
    <3>1. CASE x = m
      BY <1>2, <1>3, <1>6, <3>1
    <3>2. CASE x # m
      <4>1. x \in InTable /\ miner'[x] = miner[x]
        BY <1>1, <1>3, <2>3, <3>2
      <4>2. miner[x].id \in DOMAIN table /\ table[miner[x].id].minerid = x
        BY <1>4, <4>1
      <4>3. miner[x].id # next
        BY <1>1, <1>6, <4>1, <4>2
      <4>4. t[miner[x].id] = table[miner[x].id]
        BY <1>6, <4>2, <4>3
      <4> QED
        BY <1>6, <4>1, <4>2, <4>4
    <3> QED
      BY <3>1, <3>2
  <2>4. WalkExists(ids'.table, ids'.next)
    BY <1>6, <2>1
  <2>5. ids'.miners = Cardinality(InTable')
    BY <1>5, <2>1
  <2> HIDE DEF new, table, next
  <2> QED
    BY <1>6, <2>1, <2>2, <2>3, <2>4, <2>5 DEF IdsInv
<1>7. CASE next = Len(table) + 1
  <2>1. FreeOf(table) = {}
    BY <1>1, <1>7, WalkHead DEF FreeOf
  <2> DEFINE t == Append(table, new)
  <2>2. ids' = [next |-> next + 1, miners |-> ids.miners + 1, table |-> t]
    BY <1>7 DEF insert_miner2
  <2> HIDE DEF new
  <2>3. /\ t \in Seq(IdRow) /\ DOMAIN table \subseteq DOMAIN t /\ next \in DOMAIN t /\ t[next] = new
        /\ \A i \in DOMAIN t : i # next => i \in DOMAIN table /\ t[i] = table[i]
        /\ next \notin DOMAIN table
    BY <1>1, <1>2, <1>7
  <2>4. next + 1 = Len(table) + 2 /\ next + 1 \in Nat
    BY <1>1, <1>7
  <2>5. WalkExists(t, Len(table) + 2)
    BY <1>1, <1>2, <2>1, WalkAppend
  <2> HIDE DEF t, table, next
  <2> QED
    BY <1>6, <2>2, <2>3, <2>4, <2>5
<1>8. CASE next # Len(table) + 1
  <2>1. next \in FreeOf(table) /\ next \in DOMAIN table /\ table[next].minerid = NoRow
    BY <1>1, <1>8, WalkHead DEF FreeOf
  <2> DEFINE t == [table EXCEPT ![next] = new]
  <2>2. ids' = [next |-> table[next].next_id, miners |-> ids.miners + 1, table |-> t]
    BY <1>8 DEF insert_miner2
  <2> HIDE DEF new
  <2>3. /\ t \in Seq(IdRow) /\ DOMAIN table = DOMAIN t /\ t[next] = new
        /\ \A i \in DOMAIN t : i # next => t[i] = table[i]
    BY <1>1, <1>2, <2>1
  <2>4. WalkExists(t, table[next].next_id)
    BY <1>1, <1>2, <2>1, WalkTake
  <2>5. table[next].next_id \in Nat
    BY <1>1, <2>1
  <2> HIDE DEF t, table, next
  <2> QED
    BY <1>6, <2>1, <2>2, <2>3, <2>4, <2>5
<1> QED
  BY <1>7, <1>8

\* A miner gives its id back.
LEMMA IdsDelete ==
    ASSUME IdsInv, NEW m \in Miners, miner[m] # NoRow, miner \in [Miners -> Miner \cup {NoRow}],
           miner' = [miner EXCEPT ![m] = NoRow], ids' = del_miner2(miner[m].id)
    PROVE  IdsInv'
<1> DEFINE table == ids.table
           id == miner[m].id
           new == [minerid |-> NoRow, next_id |-> ids.next]
           t == [table EXCEPT ![id] = new]
<1>1. /\ table \in Seq(IdRow) /\ ids.next \in Nat /\ ids.miners \in Nat /\ WalkExists(table, ids.next)
      /\ ids.miners = Cardinality(InTable) /\ IsFiniteSet(InTable) /\ InTable \subseteq Miners
      /\ NoRow \notin Miners
      /\ \A i \in DOMAIN table : table[i].minerid \in Miners \cup {NoRow}
  BY IdRows
<1>2. /\ \A i \in DOMAIN table : table[i].minerid # NoRow =>
           /\ table[i].minerid \in InTable
           /\ miner[table[i].minerid].id = i
      /\ \A x \in InTable : miner[x].id \in DOMAIN table /\ table[miner[x].id].minerid = x
  BY <1>1 DEF IdsInv, InTable
<1>3. /\ m \in InTable /\ InTable' = InTable \ {m}
      /\ \A x \in Miners : miner'[x] = IF x = m THEN NoRow ELSE miner[x]
  BY DEF InTable
<1>4. id \in DOMAIN table /\ id \in Nat /\ table[id].minerid = m /\ m # NoRow
  BY <1>1, <1>2, <1>3
<1>5. Cardinality(InTable') = ids.miners - 1 /\ ids.miners - 1 \in Nat
  <2>1. IsFiniteSet(InTable') /\ Cardinality(InTable') = Cardinality(InTable) - 1
    BY <1>1, <1>3, FS_RemoveElement
  <2>2. Cardinality(InTable') \in Nat
    BY <2>1, FS_CardinalityType
  <2> QED
    BY <1>1, <2>1, <2>2
<1>6. ids' = [next |-> id, miners |-> ids.miners - 1, table |-> t]
  BY DEF del_miner2
<1>7. new \in IdRow /\ new.minerid = NoRow /\ new.next_id = ids.next
  BY <1>1 DEF IdRow
<1> HIDE DEF new
<1>8. /\ t \in Seq(IdRow) /\ DOMAIN t = DOMAIN table /\ t[id] = new
      /\ \A i \in DOMAIN t : i # id => t[i] = table[i]
  BY <1>1, <1>4, <1>7
<1>9. WalkExists(t, id)
  BY <1>1, <1>4, <1>7, WalkGive
<1>10. /\ ids'.table = t /\ ids'.next = id /\ ids'.miners = ids.miners - 1
       /\ ids' = [next |-> ids'.next, miners |-> ids'.miners, table |-> ids'.table]
  BY <1>6
<1> HIDE DEF t, table, id
<1>11. ASSUME NEW i \in DOMAIN t, t[i].minerid # NoRow
       PROVE  miner'[t[i].minerid] # NoRow /\ miner'[t[i].minerid].id = i
  <2>1. i # id /\ i \in DOMAIN table /\ t[i] = table[i]
    BY <1>7, <1>8, <1>11
  <2>2. table[i].minerid \in InTable /\ miner[table[i].minerid].id = i
    BY <1>2, <1>11, <2>1
  <2>3. table[i].minerid # m
    BY <2>1, <2>2 DEF id
  <2> QED
    BY <1>1, <1>3, <2>1, <2>2, <2>3 DEF InTable
<1>12. ASSUME NEW x \in InTable'
       PROVE  miner'[x].id \in DOMAIN t /\ t[miner'[x].id].minerid = x
  <2>1. x \in InTable /\ x # m /\ miner'[x] = miner[x]
    BY <1>1, <1>3, <1>12
  <2>2. miner[x].id \in DOMAIN table /\ table[miner[x].id].minerid = x
    BY <1>2, <2>1
  <2>3. miner[x].id # id
    BY <1>4, <2>1, <2>2
  <2> QED
    BY <1>8, <2>1, <2>2, <2>3
<1> QED
  BY <1>4, <1>5, <1>8, <1>9, <1>10, <1>11, <1>12 DEF IdsInv

\* The walk and the counts are what IdsPartition asks for.
LEMMA IdsInvImplies == IdsInv => IdsPartition
<1> SUFFICES ASSUME IdsInv PROVE IdsPartition
  OBVIOUS
<1> DEFINE table == ids.table
           end == Len(table) + 1
<1>1. /\ table \in Seq(IdRow) /\ WalkExists(table, ids.next) /\ ids.miners = Cardinality(InTable)
      /\ \A i \in DOMAIN table : table[i].minerid \in Miners \cup {NoRow}
  BY IdRows
<1>2. FreeList = FreeOf(table)
  BY DEF FreeList, FreeOf
<1>3. PICK n \in Nat : \E walk \in [1..n + 1 -> Nat] : FreeWalk(table, ids.next, n, walk)
  BY <1>1 DEF WalkExists
<1>4. PICK walk \in [1..n + 1 -> Nat] : FreeWalk(table, ids.next, n, walk)
  BY <1>3
<1>5. Cardinality(FreeList) = n
  <2> DEFINE w == [k \in 1..n |-> walk[k]]
             free == FreeOf(table)
  <2>1. \A k \in 1..n : w[k] \in free
    BY <1>4 DEF FreeWalk
  <2>2. w \in Bijection(1..n, free)
    <3>1. w \in [1..n -> free]
      BY <2>1
    <3>2. \A j, k \in 1..n : w[j] = w[k] => j = k
      BY <1>4 DEF FreeWalk
    <3>3. \A i \in free : \E k \in 1..n : w[k] = i
      BY <1>4 DEF FreeWalk
    <3> HIDE DEF w, free
    <3> QED
      BY <3>1, <3>2, <3>3 DEF Bijection, Injection, Surjection, IsInjective
  <2> HIDE DEF w
  <2>3. ExistsBijection(1..n, free)
    BY <2>2 DEF ExistsBijection
  <2> HIDE DEF free
  <2>4. Cardinality(free) = n
    BY <2>3, FS_CountingElements
  <2> QED
    BY <1>2, <2>4 DEF free
<1>6. \A k \in 1..n + 1 : k \in 1..n \/ k = n + 1
  OBVIOUS
<1>7. walk \in [1..n + 1 -> FreeList \cup {end}]
  <2>1. \A k \in 1..n + 1 : walk[k] \in FreeList \cup {end}
    BY <1>2, <1>4, <1>6 DEF FreeWalk
  <2> QED
    BY <2>1
<1>8. Range(walk) = FreeList \cup {end}
  <2>1. Range(walk) = {walk[k] : k \in 1..n + 1}
    BY DEF Range
  <2>2. \A i \in FreeList \cup {end} : \E k \in 1..n + 1 : walk[k] = i
    <3>1. ASSUME NEW i \in FreeList
          PROVE  \E k \in 1..n + 1 : walk[k] = i
      <4>1. PICK k \in 1..n : walk[k] = i
        BY <1>2, <1>4 DEF FreeWalk
      <4>2. k \in 1..n + 1
        OBVIOUS
      <4> QED
        BY <4>1, <4>2
    <3>2. n + 1 \in 1..n + 1 /\ walk[n + 1] = end
      BY <1>4 DEF FreeWalk
    <3> QED
      BY <3>1, <3>2
  <2>3. \A k \in 1..n + 1 : walk[k] \in FreeList \cup {end}
    BY <1>7
  <2> QED
    BY <2>1, <2>2, <2>3
<1>9. /\ walk[1] = ids.next
      /\ \A k \in 1..n : walk[k] \in FreeList /\ walk[k + 1] = ids.table[walk[k]].next_id
  BY <1>2, <1>4 DEF FreeWalk
<1>10. \E w \in [1..Cardinality(FreeList) + 1 -> FreeList \cup {Len(ids.table) + 1}] :
         /\ w[1] = ids.next /\ Range(w) = FreeList \cup {Len(ids.table) + 1}
         /\ \A k \in 1..Cardinality(FreeList) :
              w[k] \in FreeList /\ w[k + 1] = ids.table[w[k]].next_id
  BY <1>5, <1>7, <1>8, <1>9
<1>11. /\ \A i \in DOMAIN ids.table \ FreeList :
            miner[ids.table[i].minerid] # NoRow /\ miner[ids.table[i].minerid].id = i
       /\ \A m \in Miners : miner[m] # NoRow => ids.table[miner[m].id].minerid = m
  BY DEF IdsInv, FreeList, InTable
<1>12. ids.miners = Cardinality({m \in Miners : miner[m] # NoRow})
  BY <1>1 DEF InTable
<1> HIDE DEF table, end
<1> QED
  BY <1>10, <1>11, <1>12 DEF IdsPartition

-----------------------------------------------------------------------------
(* The sums and copies of space.  An operation on a miner replaces its row i *)
(* of minerinfo, its rows a[o] of maccount and its row r of the table miner; *)
(* every sum changes by the difference of one term.                          *)

Tables ==
    /\ minerinfo \in [Miners -> MinerInfo \cup {NoRow}]
    /\ maccount \in [Owners -> [Miners -> MAccount \cup {NoRow}]]
    /\ miner \in [Miners -> Miner \cup {NoRow}]

\* A miner's rows agree, and it takes some space: otherwise its pool could be
\* deleted under it.
Agree(i, a, r) ==
    /\ \A o \in Owners : a[o] # NoRow <=> i # NoRow /\ i.owner = o
    /\ i # NoRow => i.max > 0 /\ i.max - i.left = a[i.owner].space
    /\ r # NoRow => /\ i # NoRow /\ r.owner = i.owner /\ r.pool = i.pool /\ r.max = i.max
                    /\ r.max - r.space = i.left /\ r.real <= r.max

RowsAgree == \A m \in Miners : Agree(minerinfo[m], [o \in Owners |-> maccount[o][m]], miner[m])

UsedOf(row) == row.max - row.left

PoolInv ==
    /\ Tables /\ RowsAgree
    /\ storepool \in [Pools -> Quota \cup {NoRow}] /\ owner_space \in [Owners -> Nat]
    /\ QuotaIsUsed /\ OwnerSpaceIsEarned /\ IdsInv

\* A sum over the miners of which one term changes.
LEMMA TermChanged ==
    ASSUME NEW f \in [Miners -> Nat], NEW g \in [Miners -> Nat], NEW m \in Miners,
           \A x \in Miners : x # m => g[x] = f[x]
    PROVE  /\ SumFunction(g) = SumFunction(f) + (g[m] - f[m])
           /\ SumFunction(f) \in Nat /\ f[m] <= SumFunction(f)
<1>1. SumFunction(f) = SumFunctionOnSet(f, Miners) /\ SumFunction(g) = SumFunctionOnSet(g, Miners)
  BY DEF SumFunction
<1>2. IntOn(f, Miners) /\ IntOn(g, Miners)
  BY DEF IntOn
<1>3. SumFunctionOnSet(g, Miners) = SumFunctionOnSet(f, Miners) + (g[m] - f[m])
  BY <1>2, SumUpdate, DepositAssumption
<1>4. SumFunctionOnSet(f, Miners) \in Nat /\ f[m] <= SumFunctionOnSet(f, Miners)
  BY SumAtLeast, DepositAssumption
<1> QED
  BY <1>1, <1>3, <1>4

\* The terms are numbers.
LEMMA TermsTyped ==
    /\ \A i \in MinerInfo \cup {NoRow} : size(i) \in Nat /\ \A p : taken(i, p) \in Nat
    /\ \A a \in MAccount \cup {NoRow} : earned(a) \in Nat
BY DEF size, taken, earned, MinerInfo, MAccount

Column(m) == [o \in Owners |-> maccount[o][m]]

\* PoolInv, part by part, for a reader of one miner's rows.
LEMMA MinerFacts ==
    ASSUME PoolInv, NEW m \in Miners
    PROVE  /\ minerinfo[m] \in MinerInfo \cup {NoRow} /\ miner[m] \in Miner \cup {NoRow}
           /\ Column(m) \in [Owners -> MAccount \cup {NoRow}]
           /\ Agree(minerinfo[m], Column(m), miner[m])
           /\ total_space \in Nat /\ size(minerinfo[m]) <= total_space
           /\ \A p \in Pools : storepool[p] # NoRow => taken(minerinfo[m], p) <= UsedOf(storepool[p])
           /\ \A o \in Owners \ {Eco} : earned(maccount[o][m]) <= owner_space[o]
<1>1. /\ minerinfo[m] \in MinerInfo \cup {NoRow} /\ miner[m] \in Miner \cup {NoRow}
      /\ \A o \in Owners, x \in Miners : maccount[o][x] \in MAccount \cup {NoRow}
      /\ \A x \in Miners : minerinfo[x] \in MinerInfo \cup {NoRow}
  BY DEF PoolInv, Tables
<1>2. Column(m) \in [Owners -> MAccount \cup {NoRow}]
  BY <1>1 DEF Column
<1>3. Agree(minerinfo[m], Column(m), miner[m])
  BY DEF PoolInv, RowsAgree, Column
<1>4. total_space \in Nat /\ size(minerinfo[m]) <= total_space
  <2> DEFINE f == [x \in Miners |-> size(minerinfo[x])]
  <2>1. f \in [Miners -> Nat] /\ f[m] = size(minerinfo[m])
    BY <1>1, TermsTyped
  <2>2. total_space = SumFunction(f)
    BY DEF PoolInv, QuotaIsUsed
  <2> HIDE DEF f
  <2> QED
    BY <2>1, <2>2, TermChanged
<1>5. ASSUME NEW p \in Pools, storepool[p] # NoRow
      PROVE  taken(minerinfo[m], p) <= UsedOf(storepool[p])
  <2> DEFINE f == [x \in Miners |-> taken(minerinfo[x], p)]
  <2>1. f \in [Miners -> Nat] /\ f[m] = taken(minerinfo[m], p)
    BY <1>1, TermsTyped
  <2>2. UsedOf(storepool[p]) = SumFunction(f)
    BY <1>5 DEF PoolInv, QuotaIsUsed, UsedOf
  <2> HIDE DEF f
  <2> QED
    BY <2>1, <2>2, TermChanged
<1>6. ASSUME NEW o \in Owners \ {Eco}
      PROVE  earned(maccount[o][m]) <= owner_space[o]
  <2> DEFINE f == [x \in Miners |-> earned(maccount[o][x])]
  <2>1. f \in [Miners -> Nat] /\ f[m] = earned(maccount[o][m])
    BY <1>1, TermsTyped
  <2>2. owner_space[o] = SumFunction(f)
    BY DEF PoolInv, OwnerSpaceIsEarned
  <2> HIDE DEF f
  <2> QED
    BY <2>1, <2>2, TermChanged
<1> QED
  BY <1>1, <1>2, <1>3, <1>4, <1>5, <1>6

\* An operation that replaces the rows of one miner, by rows that agree, and
\* changes every sum by the difference of its terms.
RowChange(m, i, a, r) ==
    /\ minerinfo' = [minerinfo EXCEPT ![m] = i]
    /\ maccount' = [o \in Owners |-> [maccount[o] EXCEPT ![m] = a[o]]]
    /\ miner' = [miner EXCEPT ![m] = r]

SumsChange(m, i, a) ==
    /\ storepool' \in [Pools -> Quota \cup {NoRow}]
    /\ \A p \in Pools :
         /\ storepool'[p] = NoRow <=> storepool[p] = NoRow
         /\ storepool[p] # NoRow =>
              UsedOf(storepool'[p]) = UsedOf(storepool[p]) + (taken(i, p) - taken(minerinfo[m], p))
    /\ i # NoRow => storepool[i.pool] # NoRow
    /\ total_space' = total_space + (size(i) - size(minerinfo[m]))
    /\ owner_space' \in [Owners -> Nat]
    /\ \A o \in Owners \ {Eco} :
         owner_space'[o] = owner_space[o] + (earned(a[o]) - earned(maccount[o][m]))

LEMMA RowStep ==
    ASSUME PoolInv, NEW m \in Miners, NEW i \in MinerInfo \cup {NoRow},
           NEW a \in [Owners -> MAccount \cup {NoRow}], NEW r \in Miner \cup {NoRow},
           Agree(i, a, r), RowChange(m, i, a, r), SumsChange(m, i, a), IdsInv'
    PROVE  PoolInv'
<1>1. /\ minerinfo \in [Miners -> MinerInfo \cup {NoRow}] /\ miner \in [Miners -> Miner \cup {NoRow}]
      /\ maccount \in [Owners -> [Miners -> MAccount \cup {NoRow}]]
      /\ RowsAgree /\ QuotaIsUsed /\ OwnerSpaceIsEarned
  BY DEF PoolInv, Tables
<1>2. /\ minerinfo' \in [Miners -> MinerInfo \cup {NoRow}] /\ miner' \in [Miners -> Miner \cup {NoRow}]
      /\ \A x \in Miners : /\ minerinfo'[x] = IF x = m THEN i ELSE minerinfo[x]
                           /\ miner'[x] = IF x = m THEN r ELSE miner[x]
  BY <1>1 DEF RowChange
<1>3. /\ maccount' \in [Owners -> [Miners -> MAccount \cup {NoRow}]]
      /\ \A o \in Owners, x \in Miners : maccount'[o][x] = IF x = m THEN a[o] ELSE maccount[o][x]
  BY <1>1 DEF RowChange
<1>4. RowsAgree'
  <2> SUFFICES ASSUME NEW x \in Miners
               PROVE  Agree(minerinfo'[x], [o \in Owners |-> maccount'[o][x]], miner'[x])
    BY DEF RowsAgree
  <2>1. CASE x = m
    <3>1. [o \in Owners |-> maccount'[o][x]] = a
      BY <1>3, <2>1
    <3> QED
      BY <1>2, <2>1, <3>1
  <2>2. CASE x # m
    <3>1. [o \in Owners |-> maccount'[o][x]] = [o \in Owners |-> maccount[o][x]]
      BY <1>3, <2>2
    <3> QED
      BY <1>1, <1>2, <2>2, <3>1 DEF RowsAgree
  <2> QED
    BY <2>1, <2>2
<1>5. QuotaIsUsed'
  <2>1. ASSUME NEW p \in Pools, storepool'[p] # NoRow
        PROVE  storepool'[p].max - storepool'[p].left
                 = SumFunction([x \in Miners |-> taken(minerinfo'[x], p)])
    <3> DEFINE f == [x \in Miners |-> taken(minerinfo[x], p)]
               g == [x \in Miners |-> taken(minerinfo'[x], p)]
    <3>1. f \in [Miners -> Nat] /\ g \in [Miners -> Nat]
      BY <1>1, <1>2, TermsTyped
    <3>2. /\ f[m] = taken(minerinfo[m], p) /\ g[m] = taken(i, p)
          /\ \A x \in Miners : x # m => g[x] = f[x]
      BY <1>2
    <3>3. UsedOf(storepool[p]) = SumFunction(f)
      BY <1>1, <2>1 DEF QuotaIsUsed, UsedOf, SumsChange
    <3>4. UsedOf(storepool'[p]) = UsedOf(storepool[p]) + (taken(i, p) - taken(minerinfo[m], p))
      BY <2>1 DEF SumsChange
    <3> HIDE DEF f, g
    <3>5. UsedOf(storepool'[p]) = SumFunction(g)
      BY <3>1, <3>2, <3>3, <3>4, TermChanged
    <3> QED
      BY <3>5 DEF UsedOf, g
  <2>2. ASSUME NEW x \in Miners, minerinfo'[x] # NoRow
        PROVE  storepool'[minerinfo'[x].pool] # NoRow
    <3>1. CASE x = m
      <4>1. minerinfo'[x] = i /\ i.pool \in Pools
        BY <1>2, <2>2, <3>1 DEF MinerInfo
      <4> QED
        BY <2>2, <4>1 DEF SumsChange
    <3>2. CASE x # m
      <4>1. minerinfo'[x] = minerinfo[x] /\ minerinfo[x].pool \in Pools
        BY <1>1, <1>2, <2>2, <3>2 DEF MinerInfo
      <4>2. storepool[minerinfo[x].pool] # NoRow
        BY <1>1, <2>2, <4>1 DEF QuotaIsUsed, Registered
      <4> QED
        BY <4>1, <4>2 DEF SumsChange
    <3> QED
      BY <3>1, <3>2
  <2>3. total_space' = SumFunction([x \in Miners |-> size(minerinfo'[x])])
    <3> DEFINE f == [x \in Miners |-> size(minerinfo[x])]
               g == [x \in Miners |-> size(minerinfo'[x])]
    <3>1. f \in [Miners -> Nat] /\ g \in [Miners -> Nat]
      BY <1>1, <1>2, TermsTyped
    <3>2. /\ f[m] = size(minerinfo[m]) /\ g[m] = size(i)
          /\ \A x \in Miners : x # m => g[x] = f[x]
      BY <1>2
    <3>3. total_space = SumFunction(f) /\ total_space' = total_space + (size(i) - size(minerinfo[m]))
      BY <1>1 DEF QuotaIsUsed, SumsChange
    <3> HIDE DEF f, g
    <3>4. total_space' = SumFunction(g)
      BY <3>1, <3>2, <3>3, TermChanged
    <3> QED
      BY <3>4 DEF g
  <2> QED
    BY <2>1, <2>2, <2>3 DEF QuotaIsUsed, Registered, taken, size
<1>6. OwnerSpaceIsEarned'
  <2> SUFFICES ASSUME NEW o \in Owners \ {Eco}
               PROVE  owner_space'[o] = SumFunction([x \in Miners |-> earned(maccount'[o][x])])
    BY DEF OwnerSpaceIsEarned, earned, Eco
  <2> DEFINE f == [x \in Miners |-> earned(maccount[o][x])]
             g == [x \in Miners |-> earned(maccount'[o][x])]
  <2>1. f \in [Miners -> Nat] /\ g \in [Miners -> Nat]
    BY <1>1, <1>3, TermsTyped
  <2>2. /\ f[m] = earned(maccount[o][m]) /\ g[m] = earned(a[o])
        /\ \A x \in Miners : x # m => g[x] = f[x]
    BY <1>3
  <2>3. /\ owner_space[o] = SumFunction(f)
        /\ owner_space'[o] = owner_space[o] + (earned(a[o]) - earned(maccount[o][m]))
    BY <1>1 DEF OwnerSpaceIsEarned, SumsChange
  <2> HIDE DEF f, g
  <2>4. owner_space'[o] = SumFunction(g)
    BY <2>1, <2>2, <2>3, TermChanged
  <2> QED
    BY <2>4 DEF g
<1> QED
  BY <1>2, <1>3, <1>4, <1>5, <1>6 DEF PoolInv, Tables, SumsChange

\* A row that is not changed is replaced by itself.
LEMMA SameRows ==
    ASSUME PoolInv, NEW m \in Miners
    PROVE  /\ minerinfo = [minerinfo EXCEPT ![m] = minerinfo[m]]
           /\ maccount = [o \in Owners |-> [maccount[o] EXCEPT ![m] = Column(m)[o]]]
           /\ miner = [miner EXCEPT ![m] = miner[m]]
           /\ \A o \in Owners : Column(m)[o] = maccount[o][m]
<1>1. /\ minerinfo \in [Miners -> MinerInfo \cup {NoRow}] /\ miner \in [Miners -> Miner \cup {NoRow}]
      /\ maccount \in [Owners -> [Miners -> MAccount \cup {NoRow}]]
  BY DEF PoolInv, Tables
<1>2. \A o \in Owners : Column(m)[o] = maccount[o][m]
  BY DEF Column
<1>3. \A o \in Owners : [maccount[o] EXCEPT ![m] = Column(m)[o]] = maccount[o]
  BY <1>1, <1>2
<1> QED
  BY <1>1, <1>2, <1>3

\* One row of maccount is set.
LEMMA ColumnSet ==
    ASSUME PoolInv, NEW m \in Miners, NEW o \in Owners, NEW row \in MAccount \cup {NoRow}
    PROVE  /\ [maccount EXCEPT ![o][m] = row]
                = [q \in Owners |-> [maccount[q] EXCEPT ![m] = [Column(m) EXCEPT ![o] = row][q]]]
           /\ [Column(m) EXCEPT ![o] = row] \in [Owners -> MAccount \cup {NoRow}]
           /\ \A q \in Owners : [Column(m) EXCEPT ![o] = row][q] = IF q = o THEN row ELSE maccount[q][m]
<1> DEFINE a == [Column(m) EXCEPT ![o] = row]
<1>1. maccount \in [Owners -> [Miners -> MAccount \cup {NoRow}]]
  BY DEF PoolInv, Tables
<1>2. Column(m) \in [Owners -> MAccount \cup {NoRow}] /\ \A q \in Owners : Column(m)[q] = maccount[q][m]
  BY <1>1 DEF Column
<1>3. /\ a \in [Owners -> MAccount \cup {NoRow}]
      /\ \A q \in Owners : a[q] = IF q = o THEN row ELSE maccount[q][m]
  BY <1>2
<1> HIDE DEF a
<1>4. [maccount EXCEPT ![o][m] = row] = [q \in Owners |-> [maccount[q] EXCEPT ![m] = a[q]]]
  <2>1. \A q \in Owners : [maccount EXCEPT ![o][m] = row][q] = [maccount[q] EXCEPT ![m] = a[q]]
    <3> SUFFICES ASSUME NEW q \in Owners
                 PROVE  [maccount EXCEPT ![o][m] = row][q] = [maccount[q] EXCEPT ![m] = a[q]]
      OBVIOUS
    <3>1. CASE q = o
      BY <1>1, <1>3, <3>1
    <3>2. CASE q # o
      <4>1. a[q] = maccount[q][m] /\ [maccount EXCEPT ![o][m] = row][q] = maccount[q]
        BY <1>1, <1>3, <3>2
      <4> QED
        BY <1>1, <4>1
    <3> QED
      BY <3>1, <3>2
  <2> QED
    BY <1>1, <2>1
<1> QED
  BY <1>3, <1>4 DEF a

\* An owner's production space, except the ecology fund's, goes up or down by
\* the difference of one term.
OwnerChanges(o, old, new) ==
    /\ owner_space' \in [Owners -> Nat]
    /\ \A q \in Owners \ {Eco} :
         /\ q # o => owner_space'[q] = owner_space[q]
         /\ q = o => owner_space'[q] = owner_space[q] + (new - old)

LEMMA OwnerGains ==
    ASSUME owner_space \in [Owners -> Nat], NEW o \in Owners, NEW delta \in Nat,
           NEW old \in Nat, NEW new \in Nat, new - old = delta,
           owner_space' = chg_owner_space(owner_space, o, delta, TRUE)
    PROVE  OwnerChanges(o, old, new)
<1>1. CASE o = Eco
  BY <1>1 DEF chg_owner_space, OwnerChanges
<1>2. CASE o # Eco
  <2> DEFINE up == owner_space[o] + delta
  <2>1. owner_space' = [owner_space EXCEPT ![o] = up]
    BY <1>2 DEF chg_owner_space
  <2>2. owner_space[o] \in Nat /\ up \in Nat /\ up = owner_space[o] + (new - old)
    OBVIOUS
  <2> HIDE DEF up
  <2> QED
    BY <2>1, <2>2 DEF OwnerChanges
<1> QED
  BY <1>1, <1>2

LEMMA OwnerLoses ==
    ASSUME owner_space \in [Owners -> Nat], NEW o \in Owners, NEW delta \in Nat,
           NEW old \in Nat, NEW new \in Nat, old - new = delta, o # Eco => delta <= owner_space[o],
           owner_space' = chg_owner_space(owner_space, o, delta, FALSE)
    PROVE  OwnerChanges(o, old, new)
<1>1. CASE o = Eco
  BY <1>1 DEF chg_owner_space, OwnerChanges
<1>2. CASE o # Eco
  <2> DEFINE down == IF owner_space[o] > delta THEN owner_space[o] - delta ELSE 0
  <2>1. owner_space' = [owner_space EXCEPT ![o] = down]
    BY <1>2 DEF chg_owner_space
  <2>2. owner_space[o] \in Nat /\ down \in Nat /\ down = owner_space[o] + (new - old)
    BY <1>2
  <2> HIDE DEF down
  <2> QED
    BY <2>1, <2>2 DEF OwnerChanges
<1> QED
  BY <1>1, <1>2

LEMMA OwnerStays ==
    ASSUME owner_space \in [Owners -> Nat], NEW o \in Owners,
           NEW old \in Nat, NEW new \in Nat, old = new, owner_space' = owner_space
    PROVE  OwnerChanges(o, old, new)
BY DEF OwnerChanges

\* The rows of a registered miner.
LEMMA RowFacts ==
    ASSUME PoolInv, NEW m \in Miners, minerinfo[m] # NoRow
    PROVE  /\ minerinfo[m] \in MinerInfo /\ minerinfo[m].owner \in Owners /\ minerinfo[m].pool \in Pools
           /\ minerinfo[m].max \in Nat /\ minerinfo[m].max > 0 /\ minerinfo[m].left \in Nat
           /\ account(m) = Column(m)[minerinfo[m].owner] /\ account(m) \in MAccount
           /\ account(m) # NoRow /\ account(m).space \in Nat /\ account(m).profit \in Nat
           /\ minerinfo[m].max - minerinfo[m].left = account(m).space
           /\ \A o \in Owners : o # minerinfo[m].owner => maccount[o][m] = NoRow
           /\ storepool[minerinfo[m].pool] \in Quota /\ storepool[minerinfo[m].pool] # NoRow
           /\ minerinfo[m].max <= UsedOf(storepool[minerinfo[m].pool])
           /\ minerinfo[m].max <= total_space /\ total_space \in Nat
           /\ minerinfo[m].owner # Eco => earned(account(m)) <= owner_space[minerinfo[m].owner]
           /\ miner[m] # NoRow =>
                /\ miner[m] \in Miner /\ miner[m].owner = minerinfo[m].owner
                /\ miner[m].pool = minerinfo[m].pool /\ miner[m].max = minerinfo[m].max
                /\ miner[m].space = account(m).space
                /\ miner[m].real <= miner[m].max
<1>1. /\ minerinfo[m] \in MinerInfo /\ Column(m) \in [Owners -> MAccount \cup {NoRow}]
      /\ Agree(minerinfo[m], Column(m), miner[m])
      /\ total_space \in Nat /\ size(minerinfo[m]) <= total_space
      /\ \A p \in Pools : storepool[p] # NoRow => taken(minerinfo[m], p) <= UsedOf(storepool[p])
      /\ \A o \in Owners \ {Eco} : earned(maccount[o][m]) <= owner_space[o]
      /\ miner[m] \in Miner \cup {NoRow} /\ \A o \in Owners : Column(m)[o] = maccount[o][m]
  BY MinerFacts, SameRows
<1>2. /\ minerinfo[m].owner \in Owners /\ minerinfo[m].pool \in Pools
      /\ minerinfo[m].max \in Nat /\ minerinfo[m].left \in Nat
  BY <1>1 DEF MinerInfo
<1>3. /\ account(m) = Column(m)[minerinfo[m].owner] /\ account(m) # NoRow
      /\ minerinfo[m].max > 0 /\ minerinfo[m].max - minerinfo[m].left = account(m).space
      /\ \A o \in Owners : o # minerinfo[m].owner => maccount[o][m] = NoRow
  BY <1>1, <1>2 DEF Agree, account
<1>4. account(m) \in MAccount /\ account(m).space \in Nat /\ account(m).profit \in Nat
  <2>1. account(m) \in MAccount
    BY <1>1, <1>2, <1>3
  <2> QED
    BY <2>1 DEF MAccount
<1>5. storepool[minerinfo[m].pool] \in Quota /\ storepool[minerinfo[m].pool] # NoRow
  BY <1>2 DEF PoolInv, QuotaIsUsed, Registered
<1>6. /\ minerinfo[m].max <= UsedOf(storepool[minerinfo[m].pool]) /\ minerinfo[m].max <= total_space
      /\ minerinfo[m].owner # Eco => earned(account(m)) <= owner_space[minerinfo[m].owner]
  BY <1>1, <1>2, <1>5 DEF taken, size, account
<1>7. miner[m] # NoRow =>
        /\ miner[m] \in Miner /\ miner[m].owner = minerinfo[m].owner
        /\ miner[m].pool = minerinfo[m].pool /\ miner[m].max = minerinfo[m].max
        /\ miner[m].space = account(m).space
        /\ miner[m].real <= miner[m].max
  BY <1>1, <1>2, <1>3, <1>4 DEF Agree, Miner
<1> QED
  BY <1>1, <1>2, <1>3, <1>4, <1>5, <1>6, <1>7

-----------------------------------------------------------------------------
(* Production space and profit: the miner stays in its pool and with its owner. *)

ProducedRow(m, space, status) ==
    IF miner[m] = NoRow THEN NoRow ELSE [miner[m] EXCEPT !.space = space, !.status = status]

LEMMA ProducedRowTyped ==
    ASSUME PoolInv, NEW m \in Miners, NEW space \in Nat, NEW status \in 0..2
    PROVE  LET r == ProducedRow(m, space, status) IN
           /\ r \in Miner \cup {NoRow} /\ (r = NoRow <=> miner[m] = NoRow)
           /\ miner[m] # NoRow => /\ r.space = space /\ r.id = miner[m].id /\ r.owner = miner[m].owner
                                  /\ r.pool = miner[m].pool /\ r.max = miner[m].max /\ r.real = miner[m].real
<1>1. CASE miner[m] = NoRow
  BY <1>1 DEF ProducedRow
<1>2. CASE miner[m] # NoRow
  <2>1. miner[m] \in Miner
    BY <1>2, MinerFacts
  <2>2. ProducedRow(m, space, status) \in Miner
    BY <1>2, <2>1 DEF ProducedRow, Miner
  <2> QED
    BY <1>2, <2>1, <2>2, NoRowAssumption DEF ProducedRow, Miner
<1> QED
  BY <1>1, <1>2

LEMMA ProfitStep ==
    ASSUME PoolInv, NEW m \in Miners, minerinfo[m] # NoRow,
           NEW left \in Nat, NEW row \in MAccount, minerinfo[m].max - left = row.space,
           NEW status \in 0..2,
           minerinfo' = [minerinfo EXCEPT ![m] = [minerinfo[m] EXCEPT !.left = left]],
           maccount' = [maccount EXCEPT ![minerinfo[m].owner][m] = row],
           miner' = [miner EXCEPT ![m] = ProducedRow(m, row.space, status)],
           OwnerChanges(minerinfo[m].owner, earned(account(m)), earned(row)),
           UNCHANGED <<storepool, ids, total_space>>
    PROVE  PoolInv'
<1> DEFINE i == [minerinfo[m] EXCEPT !.left = left]
           o == minerinfo[m].owner
           a == [Column(m) EXCEPT ![o] = row]
           r == ProducedRow(m, row.space, status)
<1>1. /\ minerinfo[m] \in MinerInfo /\ o \in Owners /\ minerinfo[m].pool \in Pools
      /\ minerinfo[m].max \in Nat /\ minerinfo[m].max > 0
      /\ account(m) = maccount[o][m] /\ storepool[minerinfo[m].pool] # NoRow
      /\ total_space \in Nat
      /\ \A q \in Owners : q # o => maccount[q][m] = NoRow
      /\ miner[m] # NoRow =>
           /\ miner[m].owner = o /\ miner[m].pool = minerinfo[m].pool
           /\ miner[m].max = minerinfo[m].max /\ miner[m].real <= miner[m].max
  BY RowFacts DEF account
<1>2. /\ i \in MinerInfo /\ i # NoRow /\ i.owner = o /\ i.pool = minerinfo[m].pool
      /\ i.max = minerinfo[m].max /\ i.left = left
  BY <1>1, NoRowAssumption DEF MinerInfo
<1>3. /\ row # NoRow /\ row.space \in Nat
      /\ a \in [Owners -> MAccount \cup {NoRow}]
      /\ \A q \in Owners : a[q] = IF q = o THEN row ELSE maccount[q][m]
      /\ maccount' = [q \in Owners |-> [maccount[q] EXCEPT ![m] = a[q]]]
  <2>1. row # NoRow /\ row.space \in Nat /\ row \in MAccount \cup {NoRow}
    BY NoRowAssumption DEF MAccount
  <2>2. /\ [maccount EXCEPT ![o][m] = row] = [q \in Owners |-> [maccount[q] EXCEPT ![m] = a[q]]]
        /\ a \in [Owners -> MAccount \cup {NoRow}]
        /\ \A q \in Owners : a[q] = IF q = o THEN row ELSE maccount[q][m]
    BY ONLY <1>1, <2>1, ColumnSet, PoolInv, m \in Miners
  <2> QED
    BY <2>1, <2>2
<1>4. /\ r \in Miner \cup {NoRow} /\ (r = NoRow <=> miner[m] = NoRow)
      /\ miner[m] # NoRow => /\ r.space = row.space /\ r.id = miner[m].id /\ r.owner = miner[m].owner
                             /\ r.pool = miner[m].pool /\ r.max = miner[m].max /\ r.real = miner[m].real
  BY <1>3, ProducedRowTyped
<1> HIDE DEF i, a, r
<1>5. Agree(i, a, r)
  <2>1. \A q \in Owners : a[q] # NoRow <=> i # NoRow /\ i.owner = q
    BY <1>1, <1>2, <1>3
  <2>2. i.max > 0 /\ i.max - i.left = a[i.owner].space
    BY <1>1, <1>2, <1>3
  <2>3. ASSUME r # NoRow
        PROVE  /\ r.owner = i.owner /\ r.pool = i.pool /\ r.max = i.max
               /\ r.max - r.space = i.left /\ r.real <= r.max
    BY <1>1, <1>2, <1>3, <1>4, <2>3
  <2> QED
    BY <1>2, <2>1, <2>2, <2>3 DEF Agree
<1>6. RowChange(m, i, a, r)
  BY <1>3 DEF RowChange, i, r
<1>7. SumsChange(m, i, a)
  <2>1. /\ size(i) = size(minerinfo[m]) /\ size(i) \in Nat
        /\ \A p : taken(i, p) = taken(minerinfo[m], p) /\ taken(i, p) \in Nat
    BY <1>1, <1>2 DEF size, taken
  <2>2. /\ storepool \in [Pools -> Quota \cup {NoRow}] /\ owner_space \in [Owners -> Nat]
        /\ owner_space' \in [Owners -> Nat]
    BY DEF PoolInv, OwnerChanges
  <2>3. \A p \in Pools : storepool[p] # NoRow => UsedOf(storepool[p]) \in Int
    BY <2>2 DEF UsedOf, Quota
  <2>4. \A q \in Owners \ {Eco} :
          owner_space'[q] = owner_space[q] + (earned(a[q]) - earned(maccount[q][m]))
    <3> SUFFICES ASSUME NEW q \in Owners \ {Eco}
                 PROVE  owner_space'[q] = owner_space[q] + (earned(a[q]) - earned(maccount[q][m]))
      OBVIOUS
    <3>1. CASE q = o
      BY <1>1, <1>3, <3>1 DEF OwnerChanges
    <3>2. CASE q # o
      <4>1. a[q] = NoRow /\ maccount[q][m] = NoRow /\ owner_space'[q] = owner_space[q]
        BY <1>1, <1>3, <3>2 DEF OwnerChanges
      <4> QED
        BY <2>2, <4>1 DEF earned
    <3> QED
      BY <3>1, <3>2
  <2>5. \A p \in Pools : storepool[p] # NoRow =>
          UsedOf(storepool[p]) = UsedOf(storepool[p]) + (taken(i, p) - taken(minerinfo[m], p))
    BY <2>1, <2>3
  <2>6. total_space = total_space + (size(i) - size(minerinfo[m]))
    BY <1>1, <2>1
  <2> QED
    BY <1>1, <1>2, <2>2, <2>4, <2>5, <2>6 DEF SumsChange, UsedOf
<1>8. IdsInv'
  <2>1. \A x \in Miners : miner'[x] = IF x = m THEN r ELSE miner[x]
    BY DEF PoolInv, Tables, r
  <2> QED
    BY <1>4, <2>1, IdsSame DEF PoolInv
<1> QED
  BY <1>2, <1>3, <1>4, <1>5, <1>6, <1>7, <1>8, RowStep

LEMMA AddmprofitKeeps ==
    ASSUME PoolInv, NEW m \in Miners, NEW space \in Nat, addmprofit(m, space)
    PROVE  PoolInv'
<1> DEFINE o == minerinfo[m].owner
           new == account(m).space + space
           left == minerinfo[m].left - space
           row == [space |-> new, profit |-> new]
           status == IF miner[m].status = 2 THEN 0 ELSE miner[m].status
           st == IF miner[m] = NoRow THEN 0 ELSE status
<1>1. /\ minerinfo[m] # NoRow /\ ~deactive(account(m)) /\ minerinfo[m].left >= space
      /\ minerinfo' = [minerinfo EXCEPT ![m] = [minerinfo[m] EXCEPT !.left = left]]
      /\ maccount' = [maccount EXCEPT ![o][m] = row]
      /\ owner_space' = chg_owner_space(owner_space, o, space, TRUE)
      /\ miner' = IF miner[m] = NoRow THEN miner
                  ELSE [miner EXCEPT ![m].space = @ + space, ![m].status = IF @ = 2 THEN 0 ELSE @]
      /\ UNCHANGED <<storepool, ids, total_space>>
  <2>1. /\ minerinfo' = [minerinfo EXCEPT ![m].left = @ - space] /\ minerinfo[m] # NoRow
    BY DEF addmprofit
  <2> QED
    BY <2>1 DEF addmprofit, PoolInv, Tables
<1>2. /\ o \in Owners /\ account(m).space \in Nat /\ account(m).profit \in Nat /\ account(m) # NoRow
      /\ minerinfo[m].left \in Nat /\ minerinfo[m].max \in Nat
      /\ minerinfo[m].max - minerinfo[m].left = account(m).space
      /\ miner[m] # NoRow => miner[m] \in Miner /\ miner[m].space = account(m).space
      /\ owner_space \in [Owners -> Nat] /\ miner \in [Miners -> Miner \cup {NoRow}]
  BY <1>1, RowFacts DEF PoolInv, Tables
<1>3. left \in Nat /\ row \in MAccount /\ minerinfo[m].max - left = row.space /\ row # NoRow
  BY <1>1, <1>2, NoRowAssumption DEF MAccount
<1>4. st \in 0..2
  BY <1>2 DEF Miner
<1>5. miner' = [miner EXCEPT ![m] = ProducedRow(m, row.space, st)]
  <2>1. CASE miner[m] = NoRow
    BY <1>1, <1>2, <2>1 DEF ProducedRow
  <2>2. CASE miner[m] # NoRow
    <3>1. /\ miner[m] \in Miner /\ st = status /\ row.space = miner[m].space + space
          /\ miner' = [miner EXCEPT ![m].space = @ + space, ![m].status = IF @ = 2 THEN 0 ELSE @]
      BY <1>1, <1>2, <2>2
    <3> DEFINE mm == [miner[m] EXCEPT !.space = row.space, !.status = st]
    <3>2. miner' = [miner EXCEPT ![m] = mm]
      <4>1. miner' = [miner EXCEPT ![m] = [miner[m] EXCEPT !.space = miner[m].space + space, !.status = status]]
        BY <1>2, <3>1
      <4> QED
        BY <3>1, <4>1
    <3> QED
      BY <2>2, <3>2 DEF ProducedRow
  <2> QED
    BY <2>1, <2>2
<1>6. OwnerChanges(o, earned(account(m)), earned(row))
  <2>1. earned(row) = new /\ earned(account(m)) = account(m).space
    BY <1>1, <1>2, <1>3 DEF earned, deactive
  <2>2. /\ earned(row) \in Nat /\ earned(account(m)) \in Nat
        /\ earned(row) - earned(account(m)) = space
    BY <1>2, <2>1
  <2>3. owner_space' = chg_owner_space(owner_space, o, space, TRUE)
    BY <1>1
  <2> HIDE DEF row
  <2> QED
    BY <1>2, <2>2, <2>3, OwnerGains
<1> HIDE DEF left, row, st
<1> QED
  BY <1>1, <1>3, <1>4, <1>5, <1>6, ProfitStep

LEMMA SubmprofitKeeps ==
    ASSUME PoolInv, NEW m \in Miners, NEW space \in Nat, submprofit(m, space)
    PROVE  PoolInv'
<1> DEFINE o == minerinfo[m].owner
           new == account(m).space - space
           left == minerinfo[m].left + space
           profit == IF deactive(account(m)) THEN 0 ELSE new
           row == [space |-> new, profit |-> profit]
           st == IF miner[m] = NoRow THEN 0 ELSE miner[m].status
<1>1. /\ minerinfo[m] # NoRow /\ minerinfo[m].left + space <= minerinfo[m].max
      /\ account(m).space >= space
      /\ minerinfo' = [minerinfo EXCEPT ![m] = [minerinfo[m] EXCEPT !.left = left]]
      /\ maccount' = [maccount EXCEPT ![o][m] = row]
      /\ owner_space' = IF deactive(account(m)) THEN owner_space
                        ELSE chg_owner_space(owner_space, o, space, FALSE)
      /\ miner' = IF miner[m] = NoRow THEN miner ELSE [miner EXCEPT ![m].space = @ - space]
      /\ UNCHANGED <<storepool, ids, total_space>>
  <2>1. minerinfo' = [minerinfo EXCEPT ![m].left = @ + space]
    BY DEF submprofit
  <2>2. maccount' = [maccount EXCEPT ![o][m] = row]
    BY DEF submprofit, account
  <2> QED
    BY <2>1, <2>2 DEF submprofit, PoolInv, Tables
<1>2. /\ o \in Owners /\ account(m).space \in Nat /\ account(m).profit \in Nat /\ account(m) # NoRow
      /\ minerinfo[m].left \in Nat /\ minerinfo[m].max \in Nat
      /\ minerinfo[m].max - minerinfo[m].left = account(m).space
      /\ miner[m] # NoRow => miner[m] \in Miner /\ miner[m].space = account(m).space
      /\ owner_space \in [Owners -> Nat] /\ miner \in [Miners -> Miner \cup {NoRow}]
      /\ o # Eco => earned(account(m)) <= owner_space[o]
  BY <1>1, RowFacts DEF PoolInv, Tables
<1>3. left \in Nat /\ row \in MAccount /\ minerinfo[m].max - left = row.space /\ row # NoRow
  <2>1. new \in Nat /\ profit \in Nat /\ left \in Nat
    BY <1>1, <1>2
  <2>2. row \in MAccount
    BY <2>1 DEF MAccount
  <2> QED
    BY <1>1, <1>2, <2>1, <2>2, NoRowAssumption
<1>4. st \in 0..2
  BY <1>2 DEF Miner
<1>5. miner' = [miner EXCEPT ![m] = ProducedRow(m, row.space, st)]
  <2>1. CASE miner[m] = NoRow
    BY <1>1, <1>2, <2>1 DEF ProducedRow
  <2>2. CASE miner[m] # NoRow
    <3>1. /\ miner[m] \in Miner /\ st = miner[m].status /\ row.space = miner[m].space - space
          /\ miner' = [miner EXCEPT ![m] = [miner[m] EXCEPT !.space = miner[m].space - space]]
      BY <1>1, <1>2, <2>2
    <3>2. [miner[m] EXCEPT !.space = miner[m].space - space]
            = [miner[m] EXCEPT !.space = row.space, !.status = st]
      BY <3>1 DEF Miner
    <3> QED
      BY <2>2, <3>1, <3>2 DEF ProducedRow
  <2> QED
    BY <2>1, <2>2
<1>6. OwnerChanges(o, earned(account(m)), earned(row))
  <2>1. CASE deactive(account(m))
    <3>1. earned(row) = 0 /\ earned(account(m)) = 0
      BY <1>2, <1>3, <2>1 DEF earned, deactive
    <3> HIDE DEF row
    <3> QED
      BY <1>1, <1>2, <2>1, <3>1, OwnerStays
  <2>2. CASE ~deactive(account(m))
    <3>1. earned(row) = new /\ earned(account(m)) = account(m).space
      BY <1>1, <1>2, <1>3, <2>2 DEF earned, deactive
    <3>2. /\ earned(row) \in Nat /\ earned(account(m)) \in Nat
          /\ earned(account(m)) - earned(row) = space /\ (o # Eco => space <= owner_space[o])
      BY <1>1, <1>2, <3>1
    <3>3. owner_space' = chg_owner_space(owner_space, o, space, FALSE)
      BY <1>1, <2>2
    <3> HIDE DEF row
    <3> QED
      BY <1>2, <3>2, <3>3, OwnerLoses
  <2> QED
    BY <2>1, <2>2
<1> HIDE DEF left, row, st
<1> QED
  BY <1>1, <1>3, <1>4, <1>5, <1>6, ProfitStep

\* Only the profit and the status change.
LEMMA StatusStep ==
    ASSUME PoolInv, NEW m \in Miners, minerinfo[m] # NoRow, NEW profit \in Nat, NEW status \in 0..2,
           maccount' = [maccount EXCEPT ![minerinfo[m].owner][m].profit = profit],
           miner' = IF miner[m] = NoRow THEN miner ELSE [miner EXCEPT ![m].status = status],
           NEW row, row = [space |-> account(m).space, profit |-> profit],
           OwnerChanges(minerinfo[m].owner, earned(account(m)), earned(row)),
           UNCHANGED <<storepool, minerinfo, ids, total_space>>
    PROVE  PoolInv'
<1> DEFINE o == minerinfo[m].owner
<1>1. /\ minerinfo[m] \in MinerInfo /\ o \in Owners
      /\ account(m) = maccount[o][m] /\ account(m) \in MAccount /\ account(m).space \in Nat
      /\ minerinfo[m].left \in Nat /\ minerinfo[m].max - minerinfo[m].left = account(m).space
      /\ miner[m] # NoRow => miner[m] \in Miner /\ miner[m].space = account(m).space
      /\ miner \in [Miners -> Miner \cup {NoRow}] /\ minerinfo \in [Miners -> MinerInfo \cup {NoRow}]
      /\ maccount \in [Owners -> [Miners -> MAccount \cup {NoRow}]]
  BY RowFacts DEF PoolInv, Tables, account
<1>2. row \in MAccount /\ row.space = account(m).space
  BY <1>1 DEF MAccount
<1>3. maccount' = [maccount EXCEPT ![o][m] = row]
  <2>1. [maccount[o][m] EXCEPT !.profit = profit] = row
    BY <1>1 DEF MAccount
  <2>2. maccount' = [maccount EXCEPT ![o][m] = [maccount[o][m] EXCEPT !.profit = profit]]
    BY <1>1
  <2> QED
    BY <2>1, <2>2
<1>4. minerinfo' = [minerinfo EXCEPT ![m] = [minerinfo[m] EXCEPT !.left = minerinfo[m].left]]
  <2>1. [minerinfo[m] EXCEPT !.left = minerinfo[m].left] = minerinfo[m]
    BY <1>1 DEF MinerInfo
  <2> QED
    BY <1>1, <2>1
<1>5. miner' = [miner EXCEPT ![m] = ProducedRow(m, row.space, status)]
  <2>1. CASE miner[m] = NoRow
    BY <1>1, <2>1 DEF ProducedRow
  <2>2. CASE miner[m] # NoRow
    <3>1. /\ miner[m] \in Miner /\ row.space = miner[m].space
          /\ miner' = [miner EXCEPT ![m] = [miner[m] EXCEPT !.status = status]]
      BY <1>1, <2>2
    <3>2. [miner[m] EXCEPT !.status = status]
            = [miner[m] EXCEPT !.space = row.space, !.status = status]
      BY <3>1 DEF Miner
    <3> QED
      BY <2>2, <3>1, <3>2 DEF ProducedRow
  <2> QED
    BY <2>1, <2>2
<1>6. OwnerChanges(o, earned(account(m)), earned(row))
  OBVIOUS
<1> QED
  BY ONLY <1>1, <1>2, <1>3, <1>4, <1>5, <1>6, ProfitStep, PoolInv, m \in Miners, minerinfo[m] # NoRow,
          status \in 0..2, UNCHANGED <<storepool, ids, total_space>>

LEMMA MdeactiveKeeps ==
    ASSUME PoolInv, NEW m \in Miners, mdeactive(m)
    PROVE  PoolInv'
<1> DEFINE o == minerinfo[m].owner
           row == [space |-> account(m).space, profit |-> 0]
<1>1. /\ minerinfo[m] # NoRow /\ ~deactive(account(m))
      /\ maccount' = [maccount EXCEPT ![o][m].profit = 0]
      /\ owner_space' = chg_owner_space(owner_space, o, account(m).space, FALSE)
      /\ miner' = IF miner[m] = NoRow THEN miner ELSE [miner EXCEPT ![m].status = 1]
      /\ UNCHANGED <<storepool, minerinfo, ids, total_space>>
  BY DEF mdeactive
<1>2. /\ o \in Owners /\ account(m).space \in Nat /\ account(m).profit \in Nat /\ account(m) # NoRow
      /\ owner_space \in [Owners -> Nat] /\ (o # Eco => earned(account(m)) <= owner_space[o])
  BY <1>1, RowFacts DEF PoolInv
<1>3. OwnerChanges(o, earned(account(m)), earned(row))
  <2>1. earned(row) = 0 /\ earned(account(m)) = account(m).space
    BY <1>1, <1>2 DEF earned, deactive
  <2>2. /\ earned(row) \in Nat /\ earned(account(m)) \in Nat
        /\ earned(account(m)) - earned(row) = account(m).space
        /\ o # Eco => account(m).space <= owner_space[o]
    BY <1>2, <2>1
  <2>3. owner_space' = chg_owner_space(owner_space, o, account(m).space, FALSE)
    BY <1>1
  <2> HIDE DEF row
  <2> QED
    BY <1>2, <2>2, <2>3, OwnerLoses
<1>4. row = [space |-> account(m).space, profit |-> 0] /\ 0 \in Nat /\ 1 \in 0..2
  OBVIOUS
<1> HIDE DEF row
<1> QED
  BY <1>1, <1>3, <1>4, StatusStep

LEMMA MactiveKeeps ==
    ASSUME PoolInv, NEW m \in Miners, mactive(m)
    PROVE  PoolInv'
<1> DEFINE o == minerinfo[m].owner
           space == account(m).space
           row == [space |-> space, profit |-> space]
<1>1. /\ minerinfo[m] # NoRow /\ account(m).profit = 0
      /\ maccount' = [maccount EXCEPT ![o][m].profit = space]
      /\ owner_space' = chg_owner_space(owner_space, o, space, TRUE)
      /\ miner' = IF miner[m] = NoRow THEN miner ELSE [miner EXCEPT ![m].status = 0]
      /\ UNCHANGED <<storepool, minerinfo, ids, total_space>>
  BY DEF mactive
<1>2. /\ o \in Owners /\ space \in Nat /\ account(m) # NoRow /\ owner_space \in [Owners -> Nat]
  BY <1>1, RowFacts DEF PoolInv
<1>3. OwnerChanges(o, earned(account(m)), earned(row))
  <2>1. row # NoRow
    <3>1. row \in MAccount
      BY <1>2 DEF MAccount
    <3> QED
      BY <3>1, NoRowAssumption
  <2>2. earned(row) = space /\ earned(account(m)) = 0
    BY <1>1, <1>2, <2>1 DEF earned
  <2>3. /\ earned(row) \in Nat /\ earned(account(m)) \in Nat
        /\ earned(row) - earned(account(m)) = space
    BY <1>2, <2>2
  <2>4. owner_space' = chg_owner_space(owner_space, o, space, TRUE)
    BY <1>1
  <2> HIDE DEF row, space
  <2> QED
    BY <1>2, <2>3, <2>4, OwnerGains
<1>4. row = [space |-> account(m).space, profit |-> space] /\ 0 \in 0..2
  OBVIOUS
<1> HIDE DEF row, space
<1> QED
  BY <1>1, <1>2, <1>3, <1>4, StatusStep

-----------------------------------------------------------------------------
(* Store pools. *)

\* One pool's row is replaced by one with the same use, or by none if no miner
\* is in the pool.
LEMMA QuotaStep ==
    ASSUME PoolInv, NEW p \in Pools, NEW row \in Quota \cup {NoRow},
           storepool' = [storepool EXCEPT ![p] = row],
           row # NoRow => UsedOf(row) = SumFunction([m \in Miners |-> taken(minerinfo[m], p)]),
           row = NoRow => \A m \in Registered : minerinfo[m].pool # p,
           UNCHANGED <<minerinfo, maccount, owner_space, miner, ids, total_space>>
    PROVE  PoolInv'
<1>1. storepool \in [Pools -> Quota \cup {NoRow}]
  BY DEF PoolInv
<1>2. /\ storepool' \in [Pools -> Quota \cup {NoRow}]
      /\ \A x \in Pools : storepool'[x] = IF x = p THEN row ELSE storepool[x]
  BY <1>1
<1>3. Tables' /\ RowsAgree' /\ owner_space' \in [Owners -> Nat] /\ OwnerSpaceIsEarned'
  BY SMTT(30) DEF PoolInv, Tables, RowsAgree, Agree, OwnerSpaceIsEarned, earned, Eco
<1>4. IdsInv'
  BY IdsSame DEF PoolInv
<1>5. QuotaIsUsed'
  <2>1. ASSUME NEW x \in Pools, storepool'[x] # NoRow
        PROVE  storepool'[x].max - storepool'[x].left
                 = SumFunction([m \in Miners |-> taken(minerinfo'[m], x)])
    <3>1. CASE x = p
      <4>1. storepool'[x] = row /\ row # NoRow
        BY <1>2, <2>1, <3>1
      <4> QED
        BY <3>1, <4>1 DEF UsedOf
    <3>2. CASE x # p
      BY <1>2, <2>1, <3>2 DEF PoolInv, QuotaIsUsed
    <3> QED
      BY <3>1, <3>2
  <2>2. ASSUME NEW m \in Miners, minerinfo[m] # NoRow
        PROVE  storepool'[minerinfo[m].pool] # NoRow
    <3>1. minerinfo[m].pool \in Pools /\ storepool[minerinfo[m].pool] # NoRow /\ m \in Registered
      BY <2>2, RowFacts DEF Registered
    <3> QED
      BY <1>2, <3>1
  <2>3. total_space = SumFunction([m \in Miners |-> size(minerinfo[m])])
    BY DEF PoolInv, QuotaIsUsed
  <2> QED
    BY <2>1, <2>2, <2>3 DEF QuotaIsUsed, Registered, taken, size
<1> QED
  BY <1>2, <1>3, <1>4, <1>5 DEF PoolInv

LEMMA RegstrpoolKeeps ==
    ASSUME PoolInv, NEW p \in Pools, NEW u \in Users, regstrpool(p, u)
    PROVE  PoolInv'
<1> DEFINE row == [max |-> MaxPoolSpace, left |-> MaxPoolSpace]
           f == [m \in Miners |-> taken(minerinfo[m], p)]
<1>1. row \in Quota /\ UsedOf(row) = 0 /\ row # NoRow
  <2>1. row \in Quota /\ UsedOf(row) = 0
    BY PoolAssumption DEF Quota, UsedOf
  <2> QED
    BY <2>1, NoRowAssumption
<1>2. \A m \in Miners : f[m] = 0
  BY RowFacts DEF regstrpool, taken
<1>3. SumFunction(f) = 0
  <2>1. SumFunction(f) = SumFunctionOnSet(f, Miners)
    BY DEF SumFunction
  <2> HIDE DEF f
  <2> QED
    BY <1>2, <2>1, SumZero, DepositAssumption
<1>4. UsedOf(row) = SumFunction([m \in Miners |-> taken(minerinfo[m], p)])
  BY <1>1, <1>3
<1>5. /\ storepool' = [storepool EXCEPT ![p] = row]
      /\ UNCHANGED <<minerinfo, maccount, owner_space, miner, ids, total_space>>
  BY DEF regstrpool
<1> HIDE DEF row
<1> QED
  BY <1>1, <1>4, <1>5, QuotaStep

\* A pool of which nothing is used has no miner: every miner takes some space.
LEMMA DelstrpoolKeeps ==
    ASSUME PoolInv, NEW p \in Pools, delstrpool(p)
    PROVE  PoolInv'
<1>1. /\ storepool[p] # NoRow /\ UsedOf(storepool[p]) = 0
      /\ storepool' = [storepool EXCEPT ![p] = NoRow]
      /\ UNCHANGED <<minerinfo, maccount, owner_space, miner, ids, total_space>>
  BY DEF delstrpool, UsedOf
<1>2. \A m \in Registered : minerinfo[m].pool # p
  <2> SUFFICES ASSUME NEW m \in Miners, minerinfo[m] # NoRow, minerinfo[m].pool = p
               PROVE  FALSE
    BY DEF Registered
  <2>1. minerinfo[m].max \in Nat /\ minerinfo[m].max > 0 /\ minerinfo[m].max <= UsedOf(storepool[p])
    BY RowFacts
  <2> QED
    BY <1>1, <2>1
<1> QED
  BY <1>1, <1>2, QuotaStep

LEMMA ChgpoolspaceKeeps ==
    ASSUME PoolInv, NEW p \in Pools, NEW max_space \in Nat, chgpoolspace(p, max_space)
    PROVE  PoolInv'
<1> DEFINE row == quota(storepool[p], max_space)
<1>1. /\ storepool[p] # NoRow /\ storepool[p].max - storepool[p].left <= max_space
      /\ storepool' = [storepool EXCEPT ![p] = row]
      /\ UNCHANGED <<minerinfo, maccount, owner_space, miner, ids, total_space>>
  BY DEF chgpoolspace, PoolInv
<1>2. storepool[p] \in Quota /\ storepool[p].max \in Nat /\ storepool[p].left \in Nat
  <2>1. storepool[p] \in Quota
    BY <1>1 DEF PoolInv
  <2> QED
    BY <2>1 DEF Quota
<1>3. row \in Quota /\ UsedOf(row) = UsedOf(storepool[p]) /\ row # NoRow
  <2>1. row \in Quota /\ UsedOf(row) = UsedOf(storepool[p])
    BY <1>1, <1>2 DEF quota, Quota, UsedOf
  <2> QED
    BY <2>1, NoRowAssumption
<1>4. UsedOf(row) = SumFunction([m \in Miners |-> taken(minerinfo[m], p)])
  BY <1>1, <1>3 DEF PoolInv, QuotaIsUsed, UsedOf
<1> HIDE DEF row
<1> QED
  BY <1>1, <1>3, <1>4, QuotaStep

-----------------------------------------------------------------------------
(* The row of the new model alone. *)

LEMMA MinerRowStep ==
    ASSUME PoolInv, NEW m \in Miners, NEW r \in Miner \cup {NoRow},
           Agree(minerinfo[m], Column(m), r), miner' = [miner EXCEPT ![m] = r], IdsInv',
           UNCHANGED <<storepool, minerinfo, maccount, owner_space, total_space>>
    PROVE  PoolInv'
<1> DEFINE i == minerinfo[m]
           a == Column(m)
<1>1. /\ i \in MinerInfo \cup {NoRow} /\ a \in [Owners -> MAccount \cup {NoRow}]
      /\ total_space \in Nat
  BY MinerFacts
<1>2. RowChange(m, i, a, r)
  <2>1. minerinfo' = [minerinfo EXCEPT ![m] = i]
    BY SameRows
  <2>2. maccount' = [o \in Owners |-> [maccount[o] EXCEPT ![m] = a[o]]]
    BY SameRows
  <2> QED
    BY <2>1, <2>2 DEF RowChange
<1>3. SumsChange(m, i, a)
  <2>1. /\ storepool \in [Pools -> Quota \cup {NoRow}] /\ owner_space \in [Owners -> Nat]
        /\ \A o \in Owners : a[o] = maccount[o][m]
    BY SameRows DEF PoolInv
  <2>2. \A o \in Owners : earned(a[o]) \in Nat
    BY <1>1, TermsTyped
  <2>3. size(i) \in Nat /\ \A p : taken(i, p) \in Nat
    BY <1>1, TermsTyped
  <2>4. \A p \in Pools : storepool[p] # NoRow =>
          UsedOf(storepool[p]) = UsedOf(storepool[p]) + (taken(i, p) - taken(minerinfo[m], p))
    <3>1. \A p \in Pools : storepool[p] # NoRow => UsedOf(storepool[p]) \in Int
      BY <2>1 DEF UsedOf, Quota
    <3> QED
      BY <2>3, <3>1
  <2>5. total_space = total_space + (size(i) - size(minerinfo[m]))
    BY <1>1, <2>3
  <2>6. \A o \in Owners \ {Eco} :
          owner_space[o] = owner_space[o] + (earned(a[o]) - earned(maccount[o][m]))
    BY <2>1, <2>2
  <2>7. i # NoRow => storepool[i.pool] # NoRow
    BY DEF PoolInv, QuotaIsUsed, Registered
  <2> QED
    BY <2>1, <2>4, <2>5, <2>6, <2>7 DEF SumsChange, UsedOf
<1> HIDE DEF i, a
<1>4. Agree(i, a, r)
  BY DEF i, a
<1> QED
  BY <1>1, <1>2, <1>3, <1>4, RowStep

\* A miner of the old model gets a row and an id.
LEMMA OldsyncKeeps ==
    ASSUME PoolInv, NEW m \in Miners, oldsync(m)
    PROVE  PoolInv'
<1> DEFINE i == minerinfo[m]
           space == IF i.max >= i.left THEN i.max - i.left ELSE 0
           status == IF deactive(account(m)) THEN 1 ELSE 0
           r == [owner |-> i.owner, pool |-> i.pool, max |-> i.max, space |-> space, real |-> 0,
                 level |-> DefaultLevel, status |-> status, id |-> ids.next]
<1>1. /\ miner[m] = NoRow /\ minerinfo[m] # NoRow /\ ids' = insert_miner2(m)
      /\ miner' = [miner EXCEPT ![m] = r]
      /\ UNCHANGED <<storepool, minerinfo, maccount, owner_space, total_space>>
  BY DEF oldsync
<1>2. /\ i.owner \in Owners /\ i.pool \in Pools /\ i.max \in Nat /\ i.left \in Nat
      /\ i.max - i.left = account(m).space /\ account(m).space \in Nat
      /\ IdsInv /\ ids.next \in Nat /\ miner \in [Miners -> Miner \cup {NoRow}]
      /\ Agree(minerinfo[m], Column(m), miner[m])
  BY <1>1, RowFacts, MinerFacts DEF PoolInv, Tables, IdsInv
<1>3. space \in Nat /\ i.max - space = i.left /\ status \in 0..2
  BY <1>2
<1>4. /\ r.owner = i.owner /\ r.pool = i.pool /\ r.max = i.max /\ r.space = space /\ r.real = 0
      /\ r.id = ids.next /\ r \in Miner
  <2> HIDE DEF i, space, status
  <2> QED
    BY <1>2, <1>3 DEF Miner
<1>5. r # NoRow
  BY <1>4, NoRowAssumption
<1> HIDE DEF r, space, status
<1>6. Agree(minerinfo[m], Column(m), r)
  BY <1>1, <1>2, <1>3, <1>4, <1>5 DEF Agree
<1>7. IdsInv'
  BY <1>1, <1>2, <1>4, <1>5, IdsInsert
<1> QED
  BY <1>1, <1>4, <1>6, <1>7, MinerRowStep

LEMMA MlevelKeeps ==
    ASSUME PoolInv, NEW m \in Miners, NEW level \in Levels, mlevel(m, level)
    PROVE  PoolInv'
<1> DEFINE r == [miner[m] EXCEPT !.level = level]
<1>1. /\ miner[m] # NoRow /\ miner' = [miner EXCEPT ![m] = r] /\ ids' = ids
      /\ UNCHANGED <<storepool, minerinfo, maccount, owner_space, total_space>>
  BY DEF mlevel, PoolInv, Tables
<1>2. miner[m] \in Miner /\ Agree(minerinfo[m], Column(m), miner[m])
  BY <1>1, MinerFacts
<1>3. /\ r \in Miner /\ r.owner = miner[m].owner /\ r.pool = miner[m].pool /\ r.max = miner[m].max
      /\ r.space = miner[m].space /\ r.real = miner[m].real /\ r.id = miner[m].id
  BY <1>2 DEF Miner
<1>4. r # NoRow
  BY <1>3, NoRowAssumption
<1> HIDE DEF r
<1>5. Agree(minerinfo[m], Column(m), r)
  BY <1>1, <1>2, <1>3 DEF Agree
<1>6. IdsInv'
  <2>1. \A x \in Miners : miner'[x] = IF x = m THEN r ELSE miner[x]
    BY <1>1 DEF PoolInv, Tables
  <2> QED
    BY <1>1, <1>3, <1>4, <2>1, IdsSame DEF PoolInv
<1> QED
  BY <1>1, <1>3, <1>5, <1>6, MinerRowStep

LEMMA MrspaceKeeps ==
    ASSUME PoolInv, NEW m \in Miners, NEW real_space \in Nat, mrspace(m, real_space)
    PROVE  PoolInv'
<1> DEFINE r == [miner[m] EXCEPT !.real = real_space]
<1>1. /\ miner[m] # NoRow /\ miner' = [miner EXCEPT ![m] = r] /\ ids' = ids
      /\ miner[m].max >= real_space
      /\ UNCHANGED <<storepool, minerinfo, maccount, owner_space, total_space>>
  BY DEF mrspace, PoolInv, Tables
<1>2. miner[m] \in Miner /\ Agree(minerinfo[m], Column(m), miner[m]) /\ miner[m].max \in Nat
  <2>1. miner[m] \in Miner /\ Agree(minerinfo[m], Column(m), miner[m])
    BY <1>1, MinerFacts
  <2> QED
    BY <2>1 DEF Miner
<1>3. /\ r \in Miner /\ r.owner = miner[m].owner /\ r.pool = miner[m].pool /\ r.max = miner[m].max
      /\ r.space = miner[m].space /\ r.real = real_space /\ r.id = miner[m].id
  BY <1>2 DEF Miner
<1>4. r # NoRow
  BY <1>3, NoRowAssumption
<1> HIDE DEF r
<1>5. Agree(minerinfo[m], Column(m), r)
  BY <1>1, <1>2, <1>3 DEF Agree
<1>6. IdsInv'
  <2>1. \A x \in Miners : miner'[x] = IF x = m THEN r ELSE miner[x]
    BY <1>1 DEF PoolInv, Tables
  <2> QED
    BY <1>1, <1>3, <1>4, <2>1, IdsSame DEF PoolInv
<1> QED
  BY <1>1, <1>3, <1>5, <1>6, MinerRowStep

-----------------------------------------------------------------------------
(* Registration, enlargement, moves and deletion. *)

\* What is left of one pool's quota is set.
LEMMA QuotaSet ==
    ASSUME PoolInv, NEW p \in Pools, storepool[p] # NoRow, NEW left \in Nat,
           storepool' = [storepool EXCEPT ![p] = [storepool[p] EXCEPT !.left = left]]
    PROVE  /\ storepool' \in [Pools -> Quota \cup {NoRow}]
           /\ storepool[p].max \in Nat /\ storepool[p].left \in Nat
           /\ storepool'[p] # NoRow /\ UsedOf(storepool'[p]) = storepool[p].max - left
           /\ \A q \in Pools : q # p => storepool'[q] = storepool[q]
           /\ \A q \in Pools : storepool[q] # NoRow => UsedOf(storepool[q]) \in Int
<1> DEFINE row == [storepool[p] EXCEPT !.left = left]
<1>1. storepool \in [Pools -> Quota \cup {NoRow}]
  BY DEF PoolInv
<1>2. /\ storepool[p].max \in Nat /\ storepool[p].left \in Nat
      /\ row \in Quota /\ UsedOf(row) = storepool[p].max - left
  <2>1. storepool[p] \in Quota
    BY <1>1
  <2> QED
    BY <2>1 DEF Quota, UsedOf
<1>3. row # NoRow
  BY <1>2, NoRowAssumption
<1>4. \A q \in Pools : storepool[q] # NoRow => UsedOf(storepool[q]) \in Int
  <2>1. \A q \in Pools : storepool[q] # NoRow => storepool[q] \in Quota
    BY <1>1
  <2> QED
    BY <2>1 DEF Quota, UsedOf
<1> HIDE DEF row
<1>5. storepool' = [storepool EXCEPT ![p] = row]
  BY DEF row
<1> QED
  BY <1>1, <1>2, <1>3, <1>4, <1>5

\* The fields of a pool's row.
LEMMA QuotaFields ==
    ASSUME PoolInv, NEW p \in Pools, storepool[p] # NoRow
    PROVE  storepool[p].max \in Nat /\ storepool[p].left \in Nat
<1>1. storepool[p] \in Quota
  BY DEF PoolInv
<1> QED
  BY <1>1 DEF Quota

LEMMA RegminerKeeps ==
    ASSUME PoolInv, NEW m \in Miners, NEW dep_acc, NEW p \in Pools, NEW owner \in Owners,
           NEW max_space \in Nat, NEW quant, regminer(m, dep_acc, p, owner, max_space, quant)
    PROVE  PoolInv'
<1> DEFINE i == [owner |-> owner, pool |-> p, max |-> max_space, left |-> max_space]
           row == [space |-> 0, profit |-> 0]
           a == [Column(m) EXCEPT ![owner] = row]
           r == [owner |-> owner, pool |-> p, max |-> max_space, space |-> 0,
                 real |-> 0, level |-> DefaultLevel, status |-> 2, id |-> ids.next]
           left == storepool[p].left - max_space
<1>1. /\ storepool[p] # NoRow /\ minerinfo[m] = NoRow /\ max_space >= MinMinerSpace
      /\ storepool[p].left >= max_space /\ maccount[owner][m] = NoRow /\ miner[m] = NoRow
      /\ storepool' = [storepool EXCEPT ![p] = [storepool[p] EXCEPT !.left = left]]
      /\ maccount' = [maccount EXCEPT ![owner][m] = row] /\ minerinfo' = [minerinfo EXCEPT ![m] = i]
      /\ total_space' = total_space + max_space /\ ids' = insert_miner2(m)
      /\ miner' = [miner EXCEPT ![m] = r] /\ owner_space' = owner_space
  BY PoolAssumption, DepositAssumption DEF regminer, fits, chg_total_space, PoolInv
<1>2. i \in MinerInfo /\ row \in MAccount /\ r \in Miner /\ max_space > 0 /\ IdsInv /\ ids.next \in Nat
      /\ i.owner = owner /\ i.pool = p /\ i.max = max_space /\ i.left = max_space /\ row.space = 0
      /\ row.profit = 0 /\ r.owner = owner /\ r.pool = p /\ r.max = max_space /\ r.space = 0 /\ r.real = 0
      /\ r.id = ids.next
  <2>1. IdsInv /\ ids.next \in Nat /\ max_space > 0
    BY <1>1, DepositAssumption, SMTT(30) DEF PoolInv, IdsInv
  <2>2. i \in MinerInfo /\ row \in MAccount
    BY DEF MinerInfo, MAccount
  <2>3. r \in Miner
    BY <2>1 DEF Miner
  <2> QED
    BY <2>1, <2>2, <2>3
<1>3. i # NoRow /\ row # NoRow /\ r # NoRow
  BY <1>2, NoRowAssumption
<1> HIDE DEF i, row, r
<1>4. /\ a \in [Owners -> MAccount \cup {NoRow}]
      /\ \A q \in Owners : a[q] = IF q = owner THEN row ELSE maccount[q][m]
      /\ maccount' = [q \in Owners |-> [maccount[q] EXCEPT ![m] = a[q]]]
  <2>1. row \in MAccount \cup {NoRow}
    BY <1>2
  <2>2. /\ [maccount EXCEPT ![owner][m] = row] = [q \in Owners |-> [maccount[q] EXCEPT ![m] = a[q]]]
        /\ a \in [Owners -> MAccount \cup {NoRow}]
        /\ \A q \in Owners : a[q] = IF q = owner THEN row ELSE maccount[q][m]
    BY ONLY <2>1, ColumnSet, PoolInv, m \in Miners, owner \in Owners
  <2> QED
    BY <1>1, <2>2
<1> HIDE DEF a
<1>5. \A q \in Owners : maccount[q][m] = NoRow
  <2>1. Agree(minerinfo[m], Column(m), miner[m]) /\ \A q \in Owners : Column(m)[q] = maccount[q][m]
    BY MinerFacts, SameRows
  <2> QED
    BY <1>1, <2>1 DEF Agree
<1>6. Agree(i, a, r)
  BY <1>2, <1>3, <1>4, <1>5 DEF Agree
<1>7. RowChange(m, i, a, r)
  BY <1>1, <1>4 DEF RowChange
<1>8. SumsChange(m, i, a)
  <2>1. storepool[p].max \in Nat /\ storepool[p].left \in Nat /\ left \in Nat
    BY <1>1, QuotaFields
  <2>2. /\ storepool' \in [Pools -> Quota \cup {NoRow}]
        /\ storepool'[p] # NoRow /\ UsedOf(storepool'[p]) = storepool[p].max - left
        /\ \A q \in Pools : q # p => storepool'[q] = storepool[q]
        /\ \A q \in Pools : storepool[q] # NoRow => UsedOf(storepool[q]) \in Int
    <3> HIDE DEF left
    <3> QED
      BY <1>1, <2>1, QuotaSet
  <2>3. UsedOf(storepool'[p]) = UsedOf(storepool[p]) + (max_space - 0)
    BY <2>1, <2>2 DEF UsedOf
  <2>4. /\ size(i) = max_space /\ size(minerinfo[m]) = 0 /\ taken(i, p) = max_space
        /\ \A q : taken(minerinfo[m], q) = 0 /\ (q # p => taken(i, q) = 0)
        /\ \A q \in Owners : earned(a[q]) = 0 /\ earned(maccount[q][m]) = 0
    BY <1>1, <1>2, <1>3, <1>4, <1>5 DEF size, taken, earned
  <2>5. /\ owner_space \in [Owners -> Nat] /\ total_space \in Nat
        /\ \A q \in Owners \ {Eco} : owner_space'[q] = owner_space[q] + (0 - 0)
    BY <1>1, MinerFacts DEF PoolInv
  <2>6. \A q \in Pools : storepool[q] # NoRow =>
          UsedOf(storepool'[q]) = UsedOf(storepool[q]) + (taken(i, q) - taken(minerinfo[m], q))
    <3> SUFFICES ASSUME NEW q \in Pools, storepool[q] # NoRow
                 PROVE  UsedOf(storepool'[q])
                          = UsedOf(storepool[q]) + (taken(i, q) - taken(minerinfo[m], q))
      OBVIOUS
    <3>1. CASE q = p
      BY <2>3, <2>4, <3>1
    <3>2. CASE q # p
      BY <2>2, <2>4, <3>2
    <3> QED
      BY <3>1, <3>2
  <2>7. total_space' = total_space + (size(i) - size(minerinfo[m]))
    BY <1>1, <2>4
  <2>8. \A q \in Owners \ {Eco} :
          owner_space'[q] = owner_space[q] + (earned(a[q]) - earned(maccount[q][m]))
    BY <2>4, <2>5
  <2> QED
    BY <1>1, <1>2, <2>2, <2>5, <2>6, <2>7, <2>8 DEF SumsChange
<1>9. IdsInv'
  BY <1>1, <1>2, <1>3, IdsInsert DEF PoolInv, Tables
<1> QED
  BY <1>2, <1>4, <1>6, <1>7, <1>8, <1>9, RowStep

LEMMA MincdepositKeeps ==
    ASSUME PoolInv, NEW m \in Miners, NEW space \in Nat, NEW quant, mincdeposit(m, space, quant)
    PROVE  PoolInv'
<1> DEFINE i == enlarged(minerinfo[m], space)
           p == minerinfo[m].pool
           o == minerinfo[m].owner
           real == IF miner[m].real > 0 THEN miner[m].real + space ELSE miner[m].real
           r == [miner[m] EXCEPT !.max = miner[m].max + space, !.real = real]
           left == storepool[p].left - space
           a == Column(m)
<1>0. /\ miner[m] # NoRow /\ storepool[miner[m].pool].left >= space
      /\ storepool' = [storepool EXCEPT ![miner[m].pool].left = @ - space]
      /\ miner' = [miner EXCEPT ![m].max = @ + space, ![m].real = IF @ > 0 THEN @ + space ELSE @]
      /\ total_space' = total_space + space
      /\ minerinfo' = [minerinfo EXCEPT ![m] = i]
      /\ UNCHANGED <<maccount, owner_space, ids>>
  BY DEF mincdeposit, chg_total_space, PoolInv, Tables
<1>1. /\ minerinfo[m] # NoRow /\ Agree(minerinfo[m], a, miner[m])
      /\ a \in [Owners -> MAccount \cup {NoRow}]
  BY <1>0, MinerFacts DEF Agree
<1>2. /\ minerinfo[m] \in MinerInfo /\ o \in Owners /\ p \in Pools
      /\ minerinfo[m].max \in Nat /\ minerinfo[m].max > 0 /\ minerinfo[m].left \in Nat
      /\ storepool[p] # NoRow /\ total_space \in Nat
      /\ miner[m] \in Miner /\ miner[m].owner = o /\ miner[m].pool = p
      /\ miner[m].max = minerinfo[m].max /\ miner[m].real <= miner[m].max
      /\ storepool \in [Pools -> Quota \cup {NoRow}] /\ owner_space \in [Owners -> Nat]
      /\ miner \in [Miners -> Miner \cup {NoRow}]
  BY <1>0, <1>1, RowFacts DEF PoolInv, Tables
<1>3. miner[m].max \in Nat /\ miner[m].space \in Nat /\ miner[m].real \in Nat
  BY <1>2 DEF Miner
<1>4. /\ i \in MinerInfo /\ i.owner = o /\ i.pool = p /\ i.max = minerinfo[m].max + space
      /\ i.left = minerinfo[m].left + space
  <2> DEFINE max == minerinfo[m].max + space
             spare == minerinfo[m].left + space
  <2>1. i = [minerinfo[m] EXCEPT !.max = max, !.left = spare] /\ max \in Nat /\ spare \in Nat
    BY <1>2 DEF enlarged
  <2> HIDE DEF i, max, spare
  <2>2. i \in MinerInfo /\ i.owner = o /\ i.pool = p /\ i.max = max /\ i.left = spare
    BY <1>2, <2>1 DEF MinerInfo
  <2> QED
    BY <2>2 DEF max, spare
<1>5. real \in Nat /\ real <= miner[m].max + space
  BY <1>2, <1>3
<1>6. /\ r \in Miner /\ r.owner = o /\ r.pool = p /\ r.max = miner[m].max + space
      /\ r.space = miner[m].space /\ r.real = real /\ r.id = miner[m].id
  <2> DEFINE max == miner[m].max + space
  <2>1. r = [miner[m] EXCEPT !.max = max, !.real = real] /\ max \in Nat
    BY <1>3
  <2> HIDE DEF r, real, max
  <2>2. /\ r \in Miner /\ r.owner = o /\ r.pool = p /\ r.max = max
        /\ r.space = miner[m].space /\ r.real = real /\ r.id = miner[m].id
    BY <1>2, <1>5, <2>1 DEF Miner
  <2> QED
    BY <2>2 DEF max
<1>7. i # NoRow /\ r # NoRow
  BY <1>4, <1>6, NoRowAssumption
<1>8. miner' = [miner EXCEPT ![m] = r]
  BY <1>0, <1>2
<1>9. storepool' = [storepool EXCEPT ![p] = [storepool[p] EXCEPT !.left = left]]
  BY <1>0, <1>2
<1> HIDE DEF i, r, real
<1>10. Agree(i, a, r)
  <2>1. \A q \in Owners : a[q] # NoRow <=> i # NoRow /\ i.owner = q
    BY <1>1, <1>4, <1>7 DEF Agree
  <2>2. a[o].space = minerinfo[m].max - minerinfo[m].left
        /\ miner[m].max - miner[m].space = minerinfo[m].left
    BY <1>0, <1>1 DEF Agree
  <2>3. i.max > 0 /\ i.max - i.left = a[i.owner].space
    BY <1>2, <1>4, <2>2
  <2>4. /\ r.owner = i.owner /\ r.pool = i.pool /\ r.max = i.max
        /\ r.max - r.space = i.left /\ r.real <= r.max
    BY <1>2, <1>3, <1>4, <1>5, <1>6, <2>2
  <2> QED
    BY <1>7, <2>1, <2>3, <2>4 DEF Agree
<1>11. RowChange(m, i, a, r)
  BY <1>0, <1>8, SameRows DEF RowChange
<1>12. SumsChange(m, i, a)
  <2>1. storepool[p].max \in Nat /\ storepool[p].left \in Nat /\ left \in Nat
    BY <1>0, <1>2, QuotaFields
  <2>2. /\ storepool' \in [Pools -> Quota \cup {NoRow}]
        /\ storepool'[p] # NoRow /\ UsedOf(storepool'[p]) = storepool[p].max - left
        /\ \A q \in Pools : q # p => storepool'[q] = storepool[q]
        /\ \A q \in Pools : storepool[q] # NoRow => UsedOf(storepool[q]) \in Int
    <3> HIDE DEF left, p
    <3> QED
      BY <1>2, <1>9, <2>1, QuotaSet
  <2>3. UsedOf(storepool'[p]) = UsedOf(storepool[p]) + space
    BY <2>1, <2>2 DEF UsedOf
  <2>4. /\ size(i) - size(minerinfo[m]) = space /\ taken(i, p) - taken(minerinfo[m], p) = space
        /\ \A q : q # p => taken(i, q) = 0 /\ taken(minerinfo[m], q) = 0
        /\ size(i) \in Nat /\ size(minerinfo[m]) \in Nat
        /\ taken(i, p) \in Nat /\ taken(minerinfo[m], p) \in Nat
    BY <1>1, <1>2, <1>4, <1>7 DEF size, taken
  <2>5. \A q \in Owners : a[q] = maccount[q][m] /\ earned(a[q]) \in Nat
    BY <1>1, SameRows, TermsTyped
  <2>6. \A q \in Pools : storepool[q] # NoRow =>
          UsedOf(storepool'[q]) = UsedOf(storepool[q]) + (taken(i, q) - taken(minerinfo[m], q))
    <3> SUFFICES ASSUME NEW q \in Pools, storepool[q] # NoRow
                 PROVE  UsedOf(storepool'[q])
                          = UsedOf(storepool[q]) + (taken(i, q) - taken(minerinfo[m], q))
      OBVIOUS
    <3>1. CASE q = p
      BY <2>3, <2>4, <3>1
    <3>2. CASE q # p
      BY <2>2, <2>4, <3>2
    <3> QED
      BY <3>1, <3>2
  <2>7. total_space' = total_space + (size(i) - size(minerinfo[m]))
    BY <1>0, <1>2, <2>4
  <2>8. \A q \in Owners \ {Eco} :
          owner_space'[q] = owner_space[q] + (earned(a[q]) - earned(maccount[q][m]))
    BY <1>0, <1>2, <2>5
  <2> QED
    BY <1>0, <1>2, <1>4, <2>2, <2>6, <2>7, <2>8 DEF SumsChange
<1>13. IdsInv'
  <2>1. \A x \in Miners : miner'[x] = IF x = m THEN r ELSE miner[x]
    BY <1>2, <1>8
  <2> QED
    BY <1>0, <1>6, <1>7, <2>1, IdsSame DEF PoolInv
<1> HIDE DEF a
<1> QED
  BY <1>1, <1>4, <1>6, <1>10, <1>11, <1>12, <1>13, RowStep

LEMMA DelminerKeeps ==
    ASSUME PoolInv, NEW m \in Miners, delminer(m)
    PROVE  PoolInv'
<1> DEFINE p == minerinfo[m].pool
           o == minerinfo[m].owner
           max == minerinfo[m].max
           a == [Column(m) EXCEPT ![o] = NoRow]
           left == storepool[p].left + max
<1>0. minerinfo[m] # NoRow
  BY DEF delminer
<1>1. /\ minerinfo[m] \in MinerInfo /\ o \in Owners /\ p \in Pools /\ max \in Nat
      /\ account(m) = maccount[o][m] /\ account(m) # NoRow
      /\ account(m).space \in Nat /\ account(m).profit \in Nat
      /\ \A q \in Owners : q # o => maccount[q][m] = NoRow
      /\ storepool[p] # NoRow /\ max <= UsedOf(storepool[p]) /\ max <= total_space
      /\ total_space \in Nat /\ (o # Eco => earned(account(m)) <= owner_space[o])
      /\ storepool \in [Pools -> Quota \cup {NoRow}] /\ owner_space \in [Owners -> Nat]
      /\ miner \in [Miners -> Miner \cup {NoRow}] /\ IdsInv
  BY <1>0, RowFacts DEF PoolInv, Tables, account
<1>2. /\ owner_space' = IF account(m).profit > 0
                        THEN chg_owner_space(owner_space, o, account(m).space, FALSE) ELSE owner_space
      /\ maccount' = [maccount EXCEPT ![o][m] = NoRow]
      /\ storepool' = [storepool EXCEPT ![p] = [storepool[p] EXCEPT !.left = left]]
      /\ minerinfo' = [minerinfo EXCEPT ![m] = NoRow]
      /\ total_space' = total_space - max
      /\ ids' = IF miner[m] = NoRow THEN ids ELSE del_miner2(miner[m].id)
      /\ miner' = [miner EXCEPT ![m] = NoRow]
  <2>1. total_space' = IF total_space > max THEN total_space - max ELSE 0
    BY DEF delminer, chg_total_space
  <2>2. total_space' = total_space - max
    BY <1>1, <2>1
  <2>3. storepool' = [storepool EXCEPT ![p].left = @ + max]
    BY <1>1 DEF delminer
  <2>4. storepool' = [storepool EXCEPT ![p] = [storepool[p] EXCEPT !.left = left]]
    BY <1>1, <2>3
  <2> QED
    BY <2>2, <2>4 DEF delminer
<1>3. /\ a \in [Owners -> MAccount \cup {NoRow}]
      /\ \A q \in Owners : a[q] = NoRow
      /\ maccount' = [q \in Owners |-> [maccount[q] EXCEPT ![m] = a[q]]]
  <2>1. /\ [maccount EXCEPT ![o][m] = NoRow] = [q \in Owners |-> [maccount[q] EXCEPT ![m] = a[q]]]
        /\ a \in [Owners -> MAccount \cup {NoRow}]
        /\ \A q \in Owners : a[q] = IF q = o THEN NoRow ELSE maccount[q][m]
    BY ONLY <1>1, ColumnSet, PoolInv, m \in Miners, NoRow \in MAccount \cup {NoRow}
  <2> QED
    BY <1>1, <1>2, <2>1
<1> HIDE DEF a
<1>4. Agree(NoRow, a, NoRow)
  BY <1>3 DEF Agree
<1>5. RowChange(m, NoRow, a, NoRow)
  BY <1>2, <1>3 DEF RowChange
<1>6. SumsChange(m, NoRow, a)
  <2>1. storepool[p].max \in Nat /\ storepool[p].left \in Nat /\ left \in Nat
    BY <1>1, QuotaFields
  <2>2. /\ storepool' \in [Pools -> Quota \cup {NoRow}]
        /\ storepool'[p] # NoRow /\ UsedOf(storepool'[p]) = storepool[p].max - left
        /\ \A q \in Pools : q # p => storepool'[q] = storepool[q]
        /\ \A q \in Pools : storepool[q] # NoRow => UsedOf(storepool[q]) \in Int
    <3> HIDE DEF left, p
    <3> QED
      BY <1>1, <1>2, <2>1, QuotaSet
  <2>3. UsedOf(storepool'[p]) = UsedOf(storepool[p]) - max
    BY <1>1, <2>1, <2>2 DEF UsedOf
  <2>4. /\ size(NoRow) = 0 /\ size(minerinfo[m]) = max
        /\ taken(NoRow, p) = 0 /\ taken(minerinfo[m], p) = max
        /\ \A q : q # p => taken(NoRow, q) = 0 /\ taken(minerinfo[m], q) = 0
    BY <1>0 DEF size, taken
  <2>5. \A q \in Pools : storepool[q] # NoRow =>
          UsedOf(storepool'[q]) = UsedOf(storepool[q]) + (taken(NoRow, q) - taken(minerinfo[m], q))
    <3> SUFFICES ASSUME NEW q \in Pools, storepool[q] # NoRow
                 PROVE  UsedOf(storepool'[q])
                          = UsedOf(storepool[q]) + (taken(NoRow, q) - taken(minerinfo[m], q))
      OBVIOUS
    <3>1. CASE q = p
      BY <1>1, <2>2, <2>3, <2>4, <3>1
    <3>2. CASE q # p
      BY <2>2, <2>4, <3>2
    <3> QED
      BY <3>1, <3>2
  <2>6. total_space' = total_space + (size(NoRow) - size(minerinfo[m]))
    BY <1>1, <1>2, <2>4
  <2>7. OwnerChanges(o, earned(account(m)), 0)
    <3>1. CASE account(m).profit > 0
      <4>1. earned(account(m)) = account(m).space
        BY <1>1, <3>1 DEF earned
      <4>2. /\ earned(account(m)) \in Nat /\ earned(account(m)) - 0 = account(m).space /\ 0 \in Nat
            /\ o # Eco => account(m).space <= owner_space[o]
        BY <1>1, <4>1
      <4>3. owner_space' = chg_owner_space(owner_space, o, account(m).space, FALSE)
        BY <1>2, <3>1
      <4> QED
        BY <1>1, <4>2, <4>3, OwnerLoses
    <3>2. CASE ~(account(m).profit > 0)
      <4>1. earned(account(m)) = 0 /\ owner_space' = owner_space /\ 0 \in Nat
        BY <1>2, <3>2 DEF earned
      <4> QED
        BY <1>1, <4>1, OwnerStays
    <3> QED
      BY <3>1, <3>2
  <2>8. /\ owner_space' \in [Owners -> Nat]
        /\ \A q \in Owners \ {Eco} :
             owner_space'[q] = owner_space[q] + (earned(a[q]) - earned(maccount[q][m]))
    <3>1. owner_space' \in [Owners -> Nat]
      BY <2>7 DEF OwnerChanges
    <3>2. ASSUME NEW q \in Owners \ {Eco}
          PROVE  owner_space'[q] = owner_space[q] + (earned(a[q]) - earned(maccount[q][m]))
      <4>1. earned(a[q]) = 0
        BY <1>3 DEF earned
      <4>2. CASE q = o
        BY <1>1, <2>7, <4>1, <4>2 DEF OwnerChanges
      <4>3. CASE q # o
        <5>1. earned(maccount[q][m]) = 0 /\ owner_space'[q] = owner_space[q]
          BY <1>1, <2>7, <4>3 DEF OwnerChanges, earned
        <5> QED
          BY <1>1, <4>1, <5>1
      <4> QED
        BY <4>2, <4>3
    <3> QED
      BY <3>1, <3>2
  <2> QED
    BY <1>1, <2>2, <2>5, <2>6, <2>8 DEF SumsChange
<1>7. IdsInv'
  <2>1. CASE miner[m] = NoRow
    <3>1. ids' = ids /\ miner' = miner
      BY <1>1, <1>2, <2>1
    <3> QED
      BY <1>1, <3>1, IdsSame
  <2>2. CASE miner[m] # NoRow
    BY <1>1, <1>2, <2>2, IdsDelete
  <2> QED
    BY <2>1, <2>2
<1>8. NoRow \in MinerInfo \cup {NoRow} /\ NoRow \in Miner \cup {NoRow}
  OBVIOUS
<1> QED
  BY <1>3, <1>4, <1>5, <1>6, <1>7, <1>8, RowStep

\* The new model's row follows a change of pool or owner.
MovedRow(m, owner, p) ==
    IF miner[m] = NoRow THEN NoRow ELSE [miner[m] EXCEPT !.owner = owner, !.pool = p]

LEMMA MovedRowTyped ==
    ASSUME PoolInv, NEW m \in Miners, NEW owner \in Owners, NEW p \in Pools
    PROVE  LET r == MovedRow(m, owner, p) IN
           /\ r \in Miner \cup {NoRow} /\ (r = NoRow <=> miner[m] = NoRow)
           /\ miner[m] # NoRow => /\ r.space = miner[m].space /\ r.id = miner[m].id /\ r.owner = owner
                                  /\ r.pool = p /\ r.max = miner[m].max /\ r.real = miner[m].real
<1>1. CASE miner[m] = NoRow
  BY <1>1 DEF MovedRow
<1>2. CASE miner[m] # NoRow
  <2>1. miner[m] \in Miner
    BY <1>2, MinerFacts
  <2>2. MovedRow(m, owner, p) \in Miner
    BY <1>2, <2>1 DEF MovedRow, Miner
  <2> QED
    BY <1>2, <2>1, <2>2, NoRowAssumption DEF MovedRow, Miner
<1> QED
  BY <1>1, <1>2

\* Leaving a pool gives back exactly what entering it took, so the cap at the
\* pool's maximum is not reached, and a move to the same pool changes nothing.
LEMMA MchgstrpoolKeeps ==
    ASSUME PoolInv, NEW m \in Miners, NEW p \in Pools, mchgstrpool(m, p)
    PROVE  PoolInv'
<1> DEFINE op == minerinfo[m].pool
           o == minerinfo[m].owner
           max == minerinfo[m].max
           old == storepool[op]
           left == old.left + max
           i == [minerinfo[m] EXCEPT !.pool = p]
           a == Column(m)
           r == MovedRow(m, o, p)
           back == [storepool EXCEPT ![op] = [old EXCEPT !.left = left]]
<1>0. minerinfo[m] # NoRow /\ storepool[p] # NoRow
  BY DEF mchgstrpool
<1>1. /\ minerinfo[m] \in MinerInfo /\ o \in Owners /\ op \in Pools /\ max \in Nat /\ max > 0
      /\ minerinfo[m].left \in Nat
      /\ old # NoRow /\ max <= UsedOf(old) /\ total_space \in Nat
      /\ storepool \in [Pools -> Quota \cup {NoRow}] /\ owner_space \in [Owners -> Nat]
      /\ miner \in [Miners -> Miner \cup {NoRow}] /\ minerinfo \in [Miners -> MinerInfo \cup {NoRow}]
      /\ IdsInv /\ a \in [Owners -> MAccount \cup {NoRow}] /\ Agree(minerinfo[m], a, miner[m])
      /\ miner[m] # NoRow => miner[m] \in Miner /\ miner[m].owner = o
  BY <1>0, RowFacts, MinerFacts DEF PoolInv, Tables
<1>2. /\ old.max \in Nat /\ old.left \in Nat /\ left \in Nat /\ left <= old.max
      /\ storepool[p].max \in Nat /\ storepool[p].left \in Nat
  <2>1. old.max \in Nat /\ old.left \in Nat /\ storepool[p].max \in Nat /\ storepool[p].left \in Nat
    BY <1>0, <1>1, QuotaFields
  <2> QED
    BY <1>1, <2>1 DEF UsedOf
<1>3. /\ back[p].left >= max
      /\ storepool' = [back EXCEPT ![p].left = @ - max]
      /\ minerinfo' = [minerinfo EXCEPT ![m].pool = p]
      /\ miner' = IF miner[m] = NoRow THEN miner ELSE [miner EXCEPT ![m].pool = p]
      /\ UNCHANGED <<maccount, owner_space, ids, total_space>>
  <2> DEFINE capped == IF left > old.max THEN old.max ELSE left
  <2>1. capped = left
    BY <1>2
  <2>2. [storepool EXCEPT ![op].left = capped] = back
    BY <1>1, <2>1
  <2> HIDE DEF back
  <2>3. back[p].left >= max /\ storepool' = [back EXCEPT ![p].left = @ - max]
    BY <2>2 DEF mchgstrpool
  <2> QED
    BY <2>3 DEF mchgstrpool
<1>4. /\ i \in MinerInfo /\ i.owner = o /\ i.pool = p /\ i.max = max /\ i.left = minerinfo[m].left
  BY <1>1 DEF MinerInfo
<1>5. i # NoRow
  BY <1>4, NoRowAssumption
<1>6. minerinfo' = [minerinfo EXCEPT ![m] = i]
  BY <1>1, <1>3
<1>7. /\ r \in Miner \cup {NoRow} /\ (r = NoRow <=> miner[m] = NoRow)
      /\ miner[m] # NoRow => /\ r.space = miner[m].space /\ r.id = miner[m].id /\ r.owner = o
                             /\ r.pool = p /\ r.max = miner[m].max /\ r.real = miner[m].real
  BY <1>1, MovedRowTyped
<1>8. miner' = [miner EXCEPT ![m] = r]
  <2>1. CASE miner[m] = NoRow
    BY <1>1, <1>3, <2>1 DEF MovedRow
  <2>2. CASE miner[m] # NoRow
    <3>1. miner' = [miner EXCEPT ![m] = [miner[m] EXCEPT !.pool = p]]
      BY <1>1, <1>3, <2>2
    <3>2. [miner[m] EXCEPT !.pool = p] = [miner[m] EXCEPT !.owner = o, !.pool = p]
      BY <1>1, <2>2 DEF Miner
    <3> QED
      BY <2>2, <3>1, <3>2 DEF MovedRow
  <2> QED
    BY <2>1, <2>2
<1> HIDE DEF i, r
<1>9. Agree(i, a, r)
  BY <1>0, <1>1, <1>4, <1>5, <1>7 DEF Agree
<1>10. RowChange(m, i, a, r)
  BY <1>3, <1>6, <1>8, SameRows DEF RowChange
<1>11. /\ size(i) = max /\ size(minerinfo[m]) = max
       /\ \A q : taken(i, q) = IF q = p THEN max ELSE 0
       /\ \A q : taken(minerinfo[m], q) = IF q = op THEN max ELSE 0
  BY <1>0, <1>4, <1>5 DEF size, taken
<1>12. /\ storepool' \in [Pools -> Quota \cup {NoRow}]
       /\ \A q \in Pools : storepool'[q] = NoRow <=> storepool[q] = NoRow
       /\ \A q \in Pools : storepool[q] # NoRow =>
            UsedOf(storepool'[q]) = UsedOf(storepool[q]) + (taken(i, q) - taken(minerinfo[m], q))
  <2>0. \A q \in Pools : storepool[q] # NoRow => UsedOf(storepool[q]) \in Int
    BY QuotaFields DEF UsedOf
  <2>1. CASE p = op
    <3>1. storepool' = storepool
      <4>1. storepool[op] \in Quota
        BY <1>1
      <4>2. back[p] = [old EXCEPT !.left = left]
        BY <1>1, <2>1
      <4>3. storepool' = [storepool EXCEPT ![p] = [old EXCEPT !.left = left - max]]
        BY <1>1, <1>2, <1>3, <2>1, <4>1 DEF Quota
      <4>4. [old EXCEPT !.left = left - max] = old
        BY <1>1, <1>2, <4>1 DEF Quota
      <4> QED
        BY <1>1, <2>1, <4>3, <4>4
    <3> QED
      BY <1>1, <1>11, <2>0, <2>1, <3>1
  <2>2. CASE p # op
    <3> DEFINE rest == storepool[p].left - max
               row1 == [old EXCEPT !.left = left]
               row2 == [storepool[p] EXCEPT !.left = rest]
    <3>1. back[p] = storepool[p] /\ rest \in Nat
      BY <1>1, <1>2, <1>3, <2>2
    <3>2. /\ row1 \in Quota /\ UsedOf(row1) = UsedOf(old) - max
          /\ row2 \in Quota /\ UsedOf(row2) = UsedOf(storepool[p]) + max
      <4>1. old \in Quota /\ storepool[p] \in Quota
        BY <1>0, <1>1
      <4> HIDE DEF old, left, rest
      <4>2. /\ row1 \in Quota /\ UsedOf(row1) = old.max - left
            /\ row2 \in Quota /\ UsedOf(row2) = storepool[p].max - rest
        BY <1>2, <3>1, <4>1 DEF Quota, UsedOf
      <4> QED
        BY <1>1, <1>2, <4>2 DEF UsedOf, left, rest
    <3>3. row1 # NoRow /\ row2 # NoRow
      BY <3>2, NoRowAssumption
    <3>4. \A q \in Pools : storepool'[q] = IF q = p THEN row2 ELSE IF q = op THEN row1 ELSE storepool[q]
      BY <1>1, <1>3, <2>2, <3>1
    <3>5. storepool' \in [Pools -> Quota \cup {NoRow}]
      <4>1. back \in [Pools -> Quota \cup {NoRow}]
        BY <1>1, <3>2
      <4>2. storepool' = [back EXCEPT ![p] = row2]
        BY <1>3, <3>1, <4>1
      <4> HIDE DEF back, row2
      <4> QED
        BY <3>2, <4>1, <4>2
    <3> HIDE DEF row1, row2
    <3>6. ASSUME NEW q \in Pools, storepool[q] # NoRow
          PROVE  UsedOf(storepool'[q]) = UsedOf(storepool[q]) + (taken(i, q) - taken(minerinfo[m], q))
      <4>1. CASE q = p
        BY <1>1, <1>11, <2>0, <2>2, <3>2, <3>4, <3>6, <4>1
      <4>2. CASE q = op
        BY <1>1, <1>11, <2>0, <2>2, <3>2, <3>4, <3>6, <4>2
      <4>3. CASE q # p /\ q # op
        BY <1>11, <2>0, <3>4, <3>6, <4>3
      <4> QED
        BY <4>1, <4>2, <4>3
    <3> QED
      BY <1>0, <1>1, <3>3, <3>4, <3>5, <3>6
  <2> QED
    BY <2>1, <2>2
<1>13. SumsChange(m, i, a)
  <2>1. \A q \in Owners : a[q] = maccount[q][m] /\ earned(a[q]) \in Nat
    BY <1>1, SameRows, TermsTyped
  <2>2. total_space' = total_space + (size(i) - size(minerinfo[m]))
    BY <1>1, <1>3, <1>11
  <2>3. \A q \in Owners \ {Eco} :
          owner_space'[q] = owner_space[q] + (earned(a[q]) - earned(maccount[q][m]))
    BY <1>1, <1>3, <2>1
  <2> QED
    BY <1>0, <1>1, <1>3, <1>4, <1>12, <2>2, <2>3 DEF SumsChange
<1>14. IdsInv'
  <2>1. \A x \in Miners : miner'[x] = IF x = m THEN r ELSE miner[x]
    BY <1>1, <1>8
  <2> QED
    BY <1>1, <1>3, <1>7, <2>1, IdsSame
<1> HIDE DEF a
<1> QED
  BY <1>1, <1>4, <1>7, <1>9, <1>10, <1>13, <1>14, RowStep

\* The production space that earned for the old owner earns for the new one.
LEMMA MchgowneraccKeeps ==
    ASSUME PoolInv, NEW m \in Miners, NEW new \in Owners, mchgowneracc(m, new)
    PROVE  PoolInv'
<1> DEFINE old == minerinfo[m].owner
           acc == account(m)
           i == [minerinfo[m] EXCEPT !.owner = new]
           a == [[Column(m) EXCEPT ![new] = acc] EXCEPT ![old] = NoRow]
           r == MovedRow(m, new, minerinfo[m].pool)
<1>0. minerinfo[m] # NoRow /\ maccount[new][m] = NoRow
  BY DEF mchgowneracc
<1>1. /\ minerinfo[m] \in MinerInfo /\ old \in Owners /\ minerinfo[m].pool \in Pools
      /\ minerinfo[m].max \in Nat /\ minerinfo[m].max > 0 /\ minerinfo[m].left \in Nat
      /\ acc = maccount[old][m] /\ acc \in MAccount /\ acc # NoRow
      /\ acc.space \in Nat /\ acc.profit \in Nat
      /\ minerinfo[m].max - minerinfo[m].left = acc.space
      /\ \A q \in Owners : q # old => maccount[q][m] = NoRow
      /\ storepool[minerinfo[m].pool] # NoRow /\ total_space \in Nat
      /\ (old # Eco => earned(acc) <= owner_space[old])
      /\ miner[m] # NoRow => /\ miner[m] \in Miner /\ miner[m].pool = minerinfo[m].pool
                             /\ miner[m].max = minerinfo[m].max /\ miner[m].real <= miner[m].max
                             /\ miner[m].space = acc.space
  BY <1>0, RowFacts DEF account
<1>2. /\ storepool \in [Pools -> Quota \cup {NoRow}] /\ owner_space \in [Owners -> Nat]
      /\ miner \in [Miners -> Miner \cup {NoRow}] /\ minerinfo \in [Miners -> MinerInfo \cup {NoRow}]
      /\ maccount \in [Owners -> [Miners -> MAccount \cup {NoRow}]]
      /\ IdsInv /\ Column(m) \in [Owners -> MAccount \cup {NoRow}]
      /\ \A q \in Owners : Column(m)[q] = maccount[q][m]
  BY MinerFacts, SameRows DEF PoolInv, Tables
<1>3. /\ owner_space' = IF acc.profit > 0
                        THEN chg_owner_space(chg_owner_space(owner_space, old, acc.space, FALSE),
                                             new, acc.space, TRUE)
                        ELSE owner_space
      /\ maccount' = [maccount EXCEPT ![new][m] = acc, ![old][m] = NoRow]
      /\ minerinfo' = [minerinfo EXCEPT ![m] = i]
      /\ miner' = IF miner[m] = NoRow THEN miner ELSE [miner EXCEPT ![m].owner = new]
      /\ UNCHANGED <<storepool, ids, total_space>>
  <2>1. minerinfo' = [minerinfo EXCEPT ![m].owner = new]
    BY DEF mchgowneracc
  <2>2. minerinfo' = [minerinfo EXCEPT ![m] = i]
    BY <1>2, <2>1
  <2> QED
    BY <2>2 DEF mchgowneracc
<1>4. old # new
  BY <1>0, <1>1
<1>5. /\ i \in MinerInfo /\ i.owner = new /\ i.pool = minerinfo[m].pool
      /\ i.max = minerinfo[m].max /\ i.left = minerinfo[m].left
  BY <1>1 DEF MinerInfo
<1>6. i # NoRow
  BY <1>5, NoRowAssumption
<1>7. /\ r \in Miner \cup {NoRow} /\ (r = NoRow <=> miner[m] = NoRow)
      /\ miner[m] # NoRow => /\ r.space = miner[m].space /\ r.id = miner[m].id /\ r.owner = new
                             /\ r.pool = minerinfo[m].pool /\ r.max = miner[m].max
                             /\ r.real = miner[m].real
  BY <1>1, MovedRowTyped
<1>8. miner' = [miner EXCEPT ![m] = r]
  <2>1. CASE miner[m] = NoRow
    BY <1>2, <1>3, <2>1 DEF MovedRow
  <2>2. CASE miner[m] # NoRow
    <3>1. miner' = [miner EXCEPT ![m] = [miner[m] EXCEPT !.owner = new]]
      BY <1>2, <1>3, <2>2
    <3>2. [miner[m] EXCEPT !.owner = new] = [miner[m] EXCEPT !.owner = new, !.pool = minerinfo[m].pool]
      BY <1>1, <2>2 DEF Miner
    <3> QED
      BY <2>2, <3>1, <3>2 DEF MovedRow
  <2> QED
    BY <2>1, <2>2
<1> HIDE DEF i, r
<1>9. /\ a \in [Owners -> MAccount \cup {NoRow}]
      /\ \A q \in Owners : a[q] = IF q = new THEN acc ELSE NoRow
  BY <1>1, <1>2, <1>4
<1>10. maccount' = [q \in Owners |-> [maccount[q] EXCEPT ![m] = a[q]]]
  <2> HIDE DEF a, acc
  <2>1. maccount' = [[maccount EXCEPT ![new] = [maccount[new] EXCEPT ![m] = acc]]
                       EXCEPT ![old] = [maccount[old] EXCEPT ![m] = NoRow]]
    BY <1>1, <1>2, <1>3, <1>4
  <2>2. ASSUME NEW q \in Owners
        PROVE  maccount'[q] = [maccount[q] EXCEPT ![m] = a[q]]
    <3>1. CASE q = new
      BY <1>1, <1>2, <1>4, <1>9, <2>1, <3>1
    <3>2. CASE q = old
      BY <1>1, <1>2, <1>4, <1>9, <2>1, <3>2
    <3>3. CASE q # new /\ q # old
      <4>1. maccount'[q] = maccount[q] /\ a[q] = maccount[q][m]
        BY <1>1, <1>2, <1>9, <2>1, <3>3
      <4> QED
        BY <1>2, <4>1
    <3> QED
      BY <3>1, <3>2, <3>3
  <2>3. maccount' = [q \in Owners |-> maccount'[q]]
    BY <1>1, <1>2, <2>1
  <2> QED
    BY <2>2, <2>3
<1> HIDE DEF a, acc
<1>11. Agree(i, a, r)
  BY <1>1, <1>5, <1>6, <1>7, <1>9 DEF Agree
<1>12. RowChange(m, i, a, r)
  BY <1>3, <1>8, <1>10 DEF RowChange
<1>13. /\ owner_space' \in [Owners -> Nat]
       /\ \A q \in Owners \ {Eco} : owner_space'[q] =
            IF q = new THEN owner_space[q] + earned(acc)
            ELSE IF q = old THEN owner_space[q] - earned(acc) ELSE owner_space[q]
  <2>1. CASE acc.profit > 0
    <3> DEFINE mid == chg_owner_space(owner_space, old, acc.space, FALSE)
               down == IF owner_space[old] > acc.space THEN owner_space[old] - acc.space ELSE 0
    <3>1. earned(acc) = acc.space
      BY <1>1, <2>1 DEF earned
    <3>2. down \in Nat /\ (old # Eco => down = owner_space[old] - acc.space)
      BY <1>1, <1>2, <3>1
    <3>3. mid = IF old = Eco THEN owner_space ELSE [owner_space EXCEPT ![old] = down]
      BY DEF chg_owner_space
    <3>4. owner_space' = chg_owner_space(mid, new, acc.space, TRUE)
      BY <1>3, <2>1
    <3> HIDE DEF down, mid
    <3>5. /\ mid \in [Owners -> Nat]
          /\ \A q \in Owners \ {Eco} : mid[q] = IF q = old THEN owner_space[q] - acc.space ELSE owner_space[q]
      BY <1>1, <1>2, <3>2, <3>3
    <3>6. owner_space' = IF new = Eco THEN mid ELSE [mid EXCEPT ![new] = mid[new] + acc.space]
      BY <3>4 DEF chg_owner_space
    <3>7. mid[new] + acc.space \in Nat
      BY <1>1, <3>5
    <3>8. owner_space' \in [Owners -> Nat]
      BY <3>5, <3>6, <3>7
    <3>9. ASSUME NEW q \in Owners \ {Eco}
          PROVE  owner_space'[q] = IF q = new THEN owner_space[q] + acc.space
                                   ELSE IF q = old THEN owner_space[q] - acc.space ELSE owner_space[q]
      <4>1. CASE q = new
        BY <1>4, <3>5, <3>6, <4>1
      <4>2. CASE q # new
        <5>1. owner_space'[q] = mid[q]
          BY <3>5, <3>6, <4>2
        <5> QED
          BY <3>5, <4>2, <5>1
      <4> QED
        BY <4>1, <4>2
    <3> QED
      BY <3>1, <3>8, <3>9
  <2>2. CASE ~(acc.profit > 0)
    <3>1. earned(acc) = 0 /\ owner_space' = owner_space
      BY <1>3, <2>2 DEF earned
    <3> QED
      BY <1>2, <3>1
  <2> QED
    BY <2>1, <2>2
<1>14. SumsChange(m, i, a)
  <2>1. /\ size(i) = size(minerinfo[m]) /\ size(i) \in Nat
        /\ \A p : taken(i, p) = taken(minerinfo[m], p) /\ taken(i, p) \in Nat
    BY <1>0, <1>1, <1>5, <1>6 DEF size, taken
  <2>2. \A p \in Pools : storepool[p] # NoRow =>
          UsedOf(storepool[p]) = UsedOf(storepool[p]) + (taken(i, p) - taken(minerinfo[m], p))
    <3>1. \A p \in Pools : storepool[p] # NoRow => UsedOf(storepool[p]) \in Int
      BY QuotaFields DEF UsedOf
    <3> QED
      BY <2>1, <3>1
  <2>3. total_space = total_space + (size(i) - size(minerinfo[m]))
    BY <1>1, <2>1
  <2>4. earned(acc) \in Nat /\ earned(NoRow) = 0
    BY <1>1 DEF earned
  <2>5. ASSUME NEW q \in Owners \ {Eco}
        PROVE  owner_space'[q] = owner_space[q] + (earned(a[q]) - earned(maccount[q][m]))
    <3>1. CASE q = new
      <4>1. a[q] = acc /\ maccount[q][m] = NoRow /\ owner_space'[q] = owner_space[q] + earned(acc)
        BY <1>0, <1>9, <1>13, <3>1
      <4> QED
        BY <2>4, <4>1
    <3>2. CASE q = old
      <4>1. a[q] = NoRow /\ maccount[q][m] = acc /\ owner_space'[q] = owner_space[q] - earned(acc)
        BY <1>1, <1>4, <1>9, <1>13, <3>2
      <4>2. owner_space[q] \in Nat
        BY <1>2
      <4> QED
        BY <2>4, <4>1, <4>2
    <3>3. CASE q # new /\ q # old
      <4>1. a[q] = NoRow /\ maccount[q][m] = NoRow /\ owner_space'[q] = owner_space[q]
        BY <1>1, <1>9, <1>13, <3>3
      <4> QED
        BY <1>2, <2>4, <4>1
    <3> QED
      BY <3>1, <3>2, <3>3
  <2> QED
    BY <1>1, <1>2, <1>3, <1>5, <1>13, <2>2, <2>3, <2>5 DEF SumsChange, UsedOf
<1>15. IdsInv'
  <2>1. \A x \in Miners : miner'[x] = IF x = m THEN r ELSE miner[x]
    BY <1>2, <1>8
  <2> QED
    BY <1>2, <1>3, <1>7, <2>1, IdsSame
<1> QED
  BY <1>5, <1>7, <1>9, <1>11, <1>12, <1>14, <1>15, RowStep

-----------------------------------------------------------------------------
(* The invariant holds at the start and is kept by every step. *)

LEMMA OneTerm ==
    ASSUME NEW f \in [Miners -> Nat], NEW m \in Miners, \A x \in Miners : x # m => f[x] = 0
    PROVE  SumFunction(f) = f[m]
<1> DEFINE R == Miners \ {m}
<1>1. IntOn(f, Miners) /\ SumFunction(f) = SumFunctionOnSet(f, Miners)
  BY DEF IntOn, SumFunction
<1>2. SumFunctionOnSet(f, Miners) = f[m] + SumFunctionOnSet(f, R)
  BY <1>1, SumRemove, DepositAssumption
<1>3. IsFiniteSet(R) /\ \A x \in R : f[x] = 0
  BY FS_RemoveElement, DepositAssumption
<1> HIDE DEF R
<1>4. SumFunctionOnSet(f, R) = 0
  BY <1>3, SumZero
<1> QED
  BY <1>1, <1>2, <1>4

LEMMA PoolInitInv == PoolInit => PoolInv
<1> SUFFICES ASSUME PoolInit PROVE PoolInv
  OBVIOUS
<1> DEFINE row == [max |-> MaxPoolSpace, left |-> MaxPoolSpace - OldSpace]
           i == [owner |-> OldUser, pool |-> OldPool, max |-> OldSpace, left |-> OldSpace - OldUsed]
<1>1. /\ OldUser \in Owners /\ OldPool \in Pools /\ OldMiner \in Miners /\ OldSpace \in Nat
      /\ OldSpace > 0 /\ OldSpace <= MaxPoolSpace /\ MaxPoolSpace \in Nat /\ OldUsed \in Nat
      /\ OldUsed <= OldSpace
  BY PoolAssumption, DepositAssumption
<1>2. /\ row \in Quota /\ row.max - row.left = OldSpace
      /\ i \in MinerInfo /\ i.owner = OldUser /\ i.pool = OldPool /\ i.max = OldSpace
      /\ i.max - i.left = OldUsed
  BY <1>1 DEF Quota, MinerInfo
<1>3. row # NoRow /\ i # NoRow
  BY <1>2, NoRowAssumption
<1>4. /\ storepool = [p \in Pools |-> IF p = OldPool THEN row ELSE NoRow]
      /\ minerinfo = [m \in Miners |-> IF m = OldMiner THEN i ELSE NoRow]
      /\ miner = [m \in Miners |-> NoRow] /\ total_space = OldSpace
      /\ ids = [next |-> 1, miners |-> 0, table |-> <<>>]
  BY DEF PoolInit
<1>5. PICK profit \in {0, OldUsed} :
        /\ maccount = [o \in Owners |-> [m \in Miners |->
                         IF o = OldUser /\ m = OldMiner
                         THEN [space |-> OldUsed, profit |-> profit] ELSE NoRow]]
        /\ owner_space = [o \in Owners |-> IF o = OldUser THEN profit ELSE 0]
  BY DEF PoolInit
<1> DEFINE acc == [space |-> OldUsed, profit |-> profit]
<1>6. /\ acc \in MAccount /\ profit \in Nat /\ acc.space = OldUsed /\ acc.profit = profit
  BY <1>1 DEF MAccount
<1>7. acc # NoRow
  BY <1>6, NoRowAssumption
<1>8. maccount = [o \in Owners |-> [m \in Miners |->
                    IF o = OldUser /\ m = OldMiner THEN acc ELSE NoRow]]
  BY <1>5
<1> HIDE DEF row, i, acc
<1>9. /\ Tables /\ storepool \in [Pools -> Quota \cup {NoRow}] /\ owner_space \in [Owners -> Nat]
  BY <1>2, <1>4, <1>5, <1>6, <1>8 DEF Tables
<1>10. RowsAgree
  <2> SUFFICES ASSUME NEW m \in Miners
               PROVE  Agree(minerinfo[m], [o \in Owners |-> maccount[o][m]], miner[m])
    BY DEF RowsAgree
  <2>1. /\ minerinfo[m] = IF m = OldMiner THEN i ELSE NoRow
        /\ miner[m] = NoRow
        /\ \A o \in Owners : maccount[o][m] = IF o = OldUser /\ m = OldMiner THEN acc ELSE NoRow
    BY <1>4, <1>8
  <2> QED
    BY <1>1, <1>2, <1>3, <1>6, <1>7, <2>1 DEF Agree
<1>11. QuotaIsUsed
  <2>1. ASSUME NEW p \in Pools, storepool[p] # NoRow
        PROVE  storepool[p].max - storepool[p].left
                 = SumFunction([m \in Miners |-> taken(minerinfo[m], p)])
    <3> DEFINE f == [m \in Miners |-> taken(minerinfo[m], p)]
    <3>1. p = OldPool /\ storepool[p] = row
      BY <1>4, <2>1
    <3>2. \A m \in Miners : f[m] = IF m = OldMiner THEN OldSpace ELSE 0
      BY <1>2, <1>3, <1>4, <3>1 DEF taken
    <3>3. f \in [Miners -> Nat] /\ f[OldMiner] = OldSpace /\ \A x \in Miners : x # OldMiner => f[x] = 0
      BY <1>1, <3>2
    <3> HIDE DEF f
    <3>4. SumFunction(f) = OldSpace
      BY <1>1, <3>3, OneTerm
    <3> QED
      BY <1>2, <3>1, <3>4 DEF f
  <2>2. \A m \in Registered : storepool[minerinfo[m].pool] # NoRow
    BY <1>1, <1>2, <1>3, <1>4 DEF Registered
  <2>3. total_space = SumFunction([m \in Miners |-> size(minerinfo[m])])
    <3> DEFINE f == [m \in Miners |-> size(minerinfo[m])]
    <3>1. \A m \in Miners : f[m] = IF m = OldMiner THEN OldSpace ELSE 0
      BY <1>2, <1>3, <1>4 DEF size
    <3>2. f \in [Miners -> Nat] /\ f[OldMiner] = OldSpace /\ \A x \in Miners : x # OldMiner => f[x] = 0
      BY <1>1, <3>1
    <3> HIDE DEF f
    <3>3. SumFunction(f) = OldSpace
      BY <1>1, <3>2, OneTerm
    <3> QED
      BY <1>4, <3>3 DEF f
  <2> QED
    BY <2>1, <2>2, <2>3 DEF QuotaIsUsed
<1>12. OwnerSpaceIsEarned
  <2> SUFFICES ASSUME NEW o \in Owners \ {Eco}
               PROVE  owner_space[o] = SumFunction([m \in Miners |-> earned(maccount[o][m])])
    BY DEF OwnerSpaceIsEarned
  <2> DEFINE f == [m \in Miners |-> earned(maccount[o][m])]
             term == IF o = OldUser THEN profit ELSE 0
  <2>1. earned(acc) = profit /\ earned(NoRow) = 0
    <3>1. profit = 0 \/ profit = OldUsed
      OBVIOUS
    <3> QED
      BY <1>1, <1>6, <1>7, <3>1 DEF earned
  <2>2. \A m \in Miners : f[m] = IF m = OldMiner THEN term ELSE 0
    BY <1>8, <2>1
  <2>3. f \in [Miners -> Nat] /\ f[OldMiner] = term /\ \A x \in Miners : x # OldMiner => f[x] = 0
    BY <1>1, <1>6, <2>2
  <2> HIDE DEF f
  <2>4. SumFunction(f) = term
    BY <1>1, <2>3, OneTerm
  <2> QED
    BY <1>5, <2>4 DEF f
<1>13. IdsInv
  <2>1. InTable = {} /\ Cardinality(InTable) = 0
    BY <1>4, FS_EmptySet DEF InTable
  <2>2. WalkExists(<<>>, 1)
    <3> DEFINE walk == [k \in 1..1 |-> 1]
    <3>1. /\ walk \in [1..0 + 1 -> Nat] /\ Len(<<>>) + 1 = 1 /\ FreeOf(<<>>) = {}
          /\ walk[1] = 1 /\ walk[0 + 1] = 1 /\ 1..0 = {}
      BY DEF FreeOf
    <3> HIDE DEF walk
    <3>2. FreeWalk(<<>>, 1, 0, walk)
      BY <3>1 DEF FreeWalk
    <3> QED
      BY <3>1, <3>2 DEF WalkExists
  <2>3. /\ ids.table = <<>> /\ ids.next = 1 /\ ids.miners = 0 /\ <<>> \in Seq(IdRow)
        /\ ids = [next |-> ids.next, miners |-> ids.miners, table |-> ids.table]
    BY <1>4
  <2> QED
    BY <2>1, <2>2, <2>3 DEF IdsInv
<1> QED
  BY <1>9, <1>10, <1>11, <1>12, <1>13 DEF PoolInv

LEMMA PoolStutter == PoolInv /\ UNCHANGED poolVars => PoolInv'
<1> SUFFICES ASSUME PoolInv, UNCHANGED poolVars PROVE PoolInv'
  OBVIOUS
<1>1. UNCHANGED <<storepool, minerinfo, maccount, owner_space, miner, ids, total_space>>
  BY DEF poolVars
<1>2. IdsInv'
  BY <1>1, IdsSame DEF PoolInv
<1>3. Tables' /\ RowsAgree' /\ QuotaIsUsed' /\ OwnerSpaceIsEarned'
  BY <1>1 DEF PoolInv, Tables, RowsAgree, Agree, QuotaIsUsed, Registered, taken, size,
              OwnerSpaceIsEarned, earned, Eco
<1> QED
  BY <1>1, <1>2, <1>3 DEF PoolInv

LEMMA PoolStep == PoolInv /\ [PoolNext]_allPool => PoolInv'
<1>0. Spaces \subseteq Nat /\ ProfitSpaces \subseteq Nat /\ RealSpaces \subseteq Nat
  BY PoolAssumption
<1> SUFFICES ASSUME PoolInv, [PoolNext]_allPool PROVE PoolInv'
  OBVIOUS
<1>1. CASE HddPoolActions
  <2>0. CASE \E p \in Pools, u \in Users : regstrpool(p, u)
    BY <2>0, RegstrpoolKeeps
  <2>1. CASE \E p \in Pools : delstrpool(p) \/ \E s \in Spaces : chgpoolspace(p, s)
    BY <1>0, <2>1, DelstrpoolKeeps, ChgpoolspaceKeeps
  <2>2. CASE \E m \in Miners, u \in Users, p \in Pools, o \in Owners, s \in Spaces :
               \E q \in Amounts \cup {calc_deposit(s)} : regminer(m, u, p, o, s, q)
    BY <1>0, <2>2, RegminerKeeps
  <2>3. CASE \E m \in Miners, s \in Spaces \cup {0} :
               \E q \in Amounts \cup {get_miner_forfeit(m) + calc_deposit(s)} : mincdeposit(m, s, q)
    BY <1>0, <2>3, MincdepositKeeps
  <2>4. CASE \E m \in Miners : oldsync(m) \/ delminer(m) \/ mdeactive(m) \/ mactive(m)
    BY <2>4, OldsyncKeeps, DelminerKeeps, MdeactiveKeeps, MactiveKeeps
  <2>5. CASE \E m \in Miners, s \in ProfitSpaces : addmprofit(m, s) \/ submprofit(m, s)
    BY <1>0, <2>5, AddmprofitKeeps, SubmprofitKeeps
  <2>6. CASE \E m \in Miners, s \in RealSpaces : mrspace(m, s)
    BY <1>0, <2>6, MrspaceKeeps
  <2>7. CASE \E m \in Miners, p \in Pools : mchgstrpool(m, p)
    BY <2>7, MchgstrpoolKeeps
  <2>8. CASE \E m \in Miners, o \in Owners : mchgowneracc(m, o)
    BY <2>8, MchgowneraccKeeps
  <2>9. CASE \E m \in Miners, l \in Levels : mlevel(m, l)
    BY <2>9, MlevelKeeps
  <2> QED
    BY <1>1, <2>0, <2>1, <2>2, <2>3, <2>4, <2>5, <2>6, <2>7, <2>8, <2>9 DEF HddPoolActions
<1>2. CASE UNCHANGED poolVars
  BY <1>2, PoolStutter
<1> QED
  BY <1>1, <1>2 DEF PoolNext, allPool

LEMMA PoolInvImplies == PoolInv => SpaceAccounted
<1> SUFFICES ASSUME PoolInv PROVE SpaceAccounted
  OBVIOUS
<1>1. PoolTypeOK
  <2>1. ids \in [next : Nat, miners : Nat, table : Seq([minerid : Miners \cup {NoRow}, next_id : Nat])]
    BY DEF PoolInv, IdsInv, IdRow
  <2>2. total_space \in Nat
    BY MinerFacts, DepositAssumption
  <2> QED
    BY <2>1, <2>2 DEF PoolInv, Tables, PoolTypeOK
<1>2. TablesAgree
  <2> SUFFICES ASSUME NEW m \in Miners
               PROVE  /\ \A o \in Owners : maccount[o][m] # NoRow <=>
                                             m \in Registered /\ minerinfo[m].owner = o
                      /\ m \in Registered => minerinfo[m].max - minerinfo[m].left = account(m).space
                      /\ miner[m] # NoRow =>
                           /\ m \in Registered
                           /\ [owner |-> miner[m].owner, pool |-> miner[m].pool, max |-> miner[m].max,
                               left |-> miner[m].max - miner[m].space] = minerinfo[m]
                           /\ miner[m].real <= miner[m].max
    BY DEF TablesAgree
  <2>1. /\ Agree(minerinfo[m], Column(m), miner[m])
        /\ \A o \in Owners : Column(m)[o] = maccount[o][m]
    BY MinerFacts, SameRows
  <2>2. \A o \in Owners : maccount[o][m] # NoRow <=> m \in Registered /\ minerinfo[m].owner = o
    BY <2>1 DEF Agree, Registered
  <2>3. ASSUME miner[m] # NoRow
        PROVE  /\ minerinfo[m] # NoRow
               /\ [owner |-> miner[m].owner, pool |-> miner[m].pool, max |-> miner[m].max,
                   left |-> miner[m].max - miner[m].space] = minerinfo[m]
               /\ miner[m].real <= miner[m].max
    <3>1. /\ minerinfo[m] # NoRow /\ miner[m].owner = minerinfo[m].owner
          /\ miner[m].pool = minerinfo[m].pool /\ miner[m].max = minerinfo[m].max
          /\ miner[m].max - miner[m].space = minerinfo[m].left /\ miner[m].real <= miner[m].max
      BY <2>1, <2>3 DEF Agree
    <3>2. minerinfo[m] \in MinerInfo
      BY <3>1, RowFacts
    <3>3. minerinfo[m] = [owner |-> minerinfo[m].owner, pool |-> minerinfo[m].pool,
                          max |-> minerinfo[m].max, left |-> minerinfo[m].left]
      BY <3>2 DEF MinerInfo
    <3> QED
      BY <3>1, <3>3
  <2> QED
    BY <2>2, <2>3, RowFacts DEF Registered
<1> QED
  BY <1>1, <1>2 DEF SpaceAccounted, PoolInv

\* After any sequence of registrations, moves, enlargements, deactivations, changes
\* of owner and deletions, the quota of every pool, the total space, the production
\* space of every owner and the two copies of every miner agree.
THEOREM SpaceAlwaysAccounted == PoolSpec => []SpaceAccounted
<1>1. PoolInit => PoolInv
  BY PoolInitInv
<1>2. PoolInv /\ [PoolNext]_allPool => PoolInv'
  BY PoolStep
<1>3. PoolInv => SpaceAccounted
  BY PoolInvImplies
<1> QED
  BY <1>1, <1>2, <1>3, PTL DEF PoolSpec

\* No id is lost and none is given to two miners: every row of the compact table
\* belongs to one miner or is on the list of free ids.
THEOREM IdsAlwaysPartitioned == PoolSpec => []IdsPartition
<1>1. PoolInit => PoolInv
  BY PoolInitInv
<1>2. PoolInv /\ [PoolNext]_allPool => PoolInv'
  BY PoolStep
<1>3. PoolInv => IdsPartition
  BY IdsInvImplies DEF PoolInv
<1> QED
  BY <1>1, <1>2, <1>3, PTL DEF PoolSpec

-----------------------------------------------------------------------------
(* The deposits under hddpool: it changes them by AnyStep only, so everything *)
(* HddDepositProofs shows of such steps holds of the two together.           *)

\* What the conversion to an integer may cut off: a unit, and nothing of nothing.
LEMMA DepositBounds ==
    ASSUME rate \in Nat, NEW s \in Nat
    PROVE  /\ calc_deposit(s) \in Nat
           /\ calc_deposit(s) <= s * rate
           /\ calc_deposit(s) + s >= s * rate
<1>1. s * rate \in Nat
  OBVIOUS
<1>2. CASE <<s, rate>> \in Truncated
  <2>1. s >= 1 /\ rate >= 1
    BY <1>2, DepositAssumption
  <2>2. s * rate >= 1
    BY <2>1
  <2>3. calc_deposit(s) = s * rate - 1
    BY <1>2 DEF calc_deposit
  <2> QED
    BY <1>1, <2>1, <2>2, <2>3
<1>3. CASE <<s, rate>> \notin Truncated
  <2>1. calc_deposit(s) = s * rate
    BY <1>1, <1>3 DEF calc_deposit
  <2> QED
    BY <1>1, <2>1
<1> QED
  BY <1>2, <1>3

LEMMA PoolStepIsAnyStep == DepositTypeOK /\ [PoolNext]_allPool => [AnyStep]_allDeposit
<1> SUFFICES ASSUME DepositTypeOK, [PoolNext]_allPool PROVE [AnyStep]_allDeposit
  OBVIOUS
<1>0. /\ Spaces \subseteq Nat /\ Amounts \subseteq Nat /\ rate \in Nat
      /\ \A m \in Miners : mdep[m].deposit \in Nat /\ mdep[m].dep_total \in Nat
  BY PoolAssumption, DepositAssumption DEF DepositTypeOK, Deposit
<1>1. \A s \in Spaces \cup {0} : calc_deposit(s) \in Nat
  BY <1>0, DepositBounds
<1>2. \A m \in Miners : get_miner_forfeit(m) \in Nat
  BY <1>0 DEF get_miner_forfeit
<1>3. ASSUME NEW m \in Miners, NEW u \in Users, NEW p \in Pools, NEW o \in Owners, NEW s \in Spaces,
             NEW q \in Amounts \cup {calc_deposit(s)}, regminer(m, u, p, o, s, q)
      PROVE  AnyStep
  <2>1. q \in Nat /\ paydeposit(u, m, q)
    BY <1>0, <1>1, <1>3 DEF regminer
  <2> QED
    BY <2>1 DEF AnyStep, AnyCalls
<1>4. ASSUME NEW m \in Miners, NEW s \in Spaces \cup {0},
             NEW q \in Amounts \cup {get_miner_forfeit(m) + calc_deposit(s)}, mincdeposit(m, s, q)
      PROVE  AnyStep
  <2>1. get_miner_forfeit(m) + calc_deposit(s) \in Nat
    BY <1>1, <1>2
  <2>2. q \in Nat /\ incdeposit(m, q)
    BY <1>0, <1>4, <2>1 DEF mincdeposit
  <2> QED
    BY <2>2 DEF AnyStep, AnyCalls
<1>5. ASSUME NEW m \in Miners, delminer(m)
      PROVE  AnyStep
  <2>1. deposit_delminer(m)
    BY <1>5 DEF delminer
  <2> QED
    BY <2>1 DEF AnyStep, AnyCalls
<1>f. ASSUME NEW p \in Pools, NEW u \in Users, regstrpool(p, u)
      PROVE  AnyStep
  <2>1. transfer(u, "hddpoolexchg", PoolFee) /\ PoolFee \in Nat
    BY <1>f, PoolAssumption DEF regstrpool
  <2> QED
    BY <2>1 DEF AnyStep, AnyCalls
<1>6. ASSUME \/ \E p, s : delstrpool(p) \/ chgpoolspace(p, s)
             \/ \E m, x : \/ oldsync(m) \/ mdeactive(m) \/ mactive(m) \/ addmprofit(m, x)
                          \/ submprofit(m, x) \/ mrspace(m, x) \/ mchgstrpool(m, x)
                          \/ mchgowneracc(m, x) \/ mlevel(m, x)
      PROVE  UNCHANGED allDeposit
  <2>1. ASSUME NEW p, NEW s, delstrpool(p) \/ chgpoolspace(p, s)
        PROVE  UNCHANGED allDeposit
    BY <2>1 DEF delstrpool, chgpoolspace
  <2>2. ASSUME NEW m, NEW x, mdeactive(m) \/ mactive(m) \/ mrspace(m, x) \/ mlevel(m, x)
        PROVE  UNCHANGED allDeposit
    BY <2>2 DEF mdeactive, mactive, mrspace, mlevel
  <2>3. ASSUME NEW m, NEW x, addmprofit(m, x) \/ submprofit(m, x)
        PROVE  UNCHANGED allDeposit
    BY <2>3 DEF addmprofit, submprofit
  <2>4. ASSUME NEW m, NEW x, oldsync(m) \/ mchgstrpool(m, x) \/ mchgowneracc(m, x)
        PROVE  UNCHANGED allDeposit
    BY <2>4 DEF oldsync, mchgstrpool, mchgowneracc
  <2> QED
    BY <1>6, <2>1, <2>2, <2>3, <2>4
<1>7. HddPoolActions => AnyStep \/ UNCHANGED allDeposit
  BY <1>3, <1>4, <1>5, <1>f, <1>6 DEF HddPoolActions
<1> QED
  BY <1>7 DEF PoolNext, AnyStep, allPool

AllDeposits == DepositInv /\ DepositsAccounted /\ ChannelBacked

LEMMA AnyStepKeepsAll == AllDeposits /\ DepositTables /\ [AnyStep]_allDeposit => AllDeposits'
<1> SUFFICES ASSUME AllDeposits, DepositTables, [AnyStep]_allDeposit PROVE AllDeposits'
  OBVIOUS
<1>1. DepositInv /\ DepositTypeOK /\ DepositsAccounted /\ ChannelBacked
  BY DEF AllDeposits, DepositInv
<1>2. DepositInv'
  BY <1>1, StepPreserves
<1>3. CASE AnyStep
  BY <1>1, <1>2, <1>3, StepAccounted, StepChannel DEF AllDeposits
<1>4. CASE UNCHANGED allDeposit
  <2>1. DepositsAccounted'
    BY <1>1, <1>4, AccountedSame DEF allDeposit
  <2>2. ChannelBacked'
    BY <1>1, <1>4 DEF allDeposit, ChannelBacked
  <2> QED
    BY <1>2, <2>1, <2>2 DEF AllDeposits
<1> QED
  BY <1>3, <1>4

LEMMA AllDepositsTyped == AllDeposits => DepositTypeOK /\ DepositTables
  BY DEF AllDeposits, DepositInv, DepositTypeOK, DepositTables

\* hddpool keeps what the deposit contracts promise: its calls, with the amounts it
\* computes, leave every deposit backed by tokens, the pools equal to the sum of
\* their miners' deposits, the channel's balances equal to its tokens, and frozen
\* accounts alone.
THEOREM PoolKeepsDeposits ==
    PoolSpec => /\ []DepositBacked /\ []DepositsAccounted /\ []ChannelBacked
                /\ FrozenStays
<1>1. PoolInit => AllDeposits
  BY InitEstablishes, InitAccounted, InitChannel DEF PoolInit, AllDeposits
<1>2. AllDeposits /\ [PoolNext]_allPool => AllDeposits'
  BY AllDepositsTyped, PoolStepIsAnyStep, AnyStepKeepsAll
<1>3. AllDeposits => DepositTypeOK /\ DepositBacked /\ DepositsAccounted /\ ChannelBacked
  BY DEF AllDeposits, DepositInv
<1>4. DepositTypeOK /\ [PoolNext]_allPool =>
        [\A u \in Users : is_frozen(u) /\ balance'[u] < balance[u] =>
           \E f \in Forfeits : balance'[f] - balance[f] = balance[u] - balance'[u]]_allDeposit
  BY PoolStepIsAnyStep, FrozenStep
<1> QED
  BY <1>1, <1>2, <1>3, <1>4, PTL DEF PoolSpec, FrozenStays

-----------------------------------------------------------------------------
(* The deposit covers the space.  The runs check it for miners with a new     *)
(* deposit; an old one becomes new with the total it has, so the invariant    *)
(* is about both.  It compares with the exact price, since what is cut off    *)
(* of two parts may be more than what is cut off of the whole.                *)

Covers(d, max) ==
    d.type # "none" => d.dep_total + max >= max * rate /\ d.deposit <= d.dep_total

CoverInv == \A m \in Registered : Covers(mdep[m], minerinfo[m].max)

LEMMA CoverStep ==
    ASSUME PoolInv, DepositTypeOK, CoverInv, [PoolNext]_allPool, rate' = rate
    PROVE  CoverInv'
<1>0. /\ minerinfo \in [Miners -> MinerInfo \cup {NoRow}] /\ mdep \in [Miners -> Deposit]
      /\ rate \in Nat /\ Spaces \subseteq Nat /\ Fines \subseteq Nat
      /\ \A m \in Miners : mdep[m].deposit \in Nat /\ mdep[m].dep_total \in Nat
  BY PoolAssumption, DepositAssumption DEF PoolInv, Tables, DepositTypeOK, Deposit
<1>1. \A m \in Miners : minerinfo[m] # NoRow => Covers(mdep[m], minerinfo[m].max)
  BY DEF CoverInv, Registered
\* It suffices to look at one miner.
<1>2. ASSUME NEW m \in Miners, \A x \in Miners : x # m => minerinfo'[x] = minerinfo[x] /\ mdep'[x] = mdep[x],
             minerinfo'[m] # NoRow => Covers(mdep'[m], minerinfo'[m].max)
      PROVE  CoverInv'
  BY <1>1, <1>2 DEF CoverInv, Registered, Covers
<1>3. ASSUME minerinfo' = minerinfo, mdep' = mdep
      PROVE  CoverInv'
  BY <1>3 DEF CoverInv, Registered, Covers
<1>4. ASSUME NEW m \in Miners, NEW x, minerinfo[m] # NoRow, mdep' = mdep,
             \/ minerinfo' = [minerinfo EXCEPT ![m].left = x]
             \/ minerinfo' = [minerinfo EXCEPT ![m].pool = x]
             \/ minerinfo' = [minerinfo EXCEPT ![m].owner = x]
      PROVE  CoverInv'
  <2>1. minerinfo[m] \in MinerInfo
    BY <1>0, <1>4
  <2>2. minerinfo'[m].max = minerinfo[m].max
    BY <1>0, <1>4, <2>1 DEF MinerInfo
  <2>3. \A y \in Miners : y # m => minerinfo'[y] = minerinfo[y]
    BY <1>0, <1>4
  <2> QED
    BY <1>1, <1>2, <1>4, <2>2, <2>3
<1>5. ASSUME NEW m \in Miners, NEW u \in Users, NEW p \in Pools, NEW o \in Owners, NEW s \in Spaces,
             NEW q \in Nat, regminer(m, u, p, o, s, q)
      PROVE  CoverInv'
  <2> DEFINE d == [type |-> "new", user |-> u, deposit |-> q, dep_total |-> q]
             i == [owner |-> o, pool |-> p, max |-> s, left |-> s]
  <2>1. /\ q >= calc_deposit(s) /\ mdep' = [mdep EXCEPT ![m] = d]
        /\ minerinfo' = [minerinfo EXCEPT ![m] = i]
    BY <1>5 DEF regminer, paydeposit, is_deposit_enough
  <2>2. q + s >= s * rate /\ q <= q
    <3>1. PICK price \in Nat : price = s * rate
      BY <1>0
    <3>2. /\ calc_deposit(s) \in Nat /\ s \in Nat
          /\ calc_deposit(s) + s >= price
      BY <1>0, <3>1, DepositBounds
    <3> QED
      BY <2>1, <3>1, <3>2
  <2>3. d.dep_total = q /\ d.deposit = q /\ i.max = s
    OBVIOUS
  <2> HIDE DEF d, i
  <2>4. mdep'[m] = d /\ minerinfo'[m] = i
        /\ \A x \in Miners : x # m => minerinfo'[x] = minerinfo[x] /\ mdep'[x] = mdep[x]
    BY <1>0, <2>1
  <2>5. Covers(d, s)
    BY <2>2, <2>3 DEF Covers
  <2> QED
    BY <1>2, <2>3, <2>4, <2>5
<1>6. ASSUME NEW m \in Miners, NEW s \in Nat, NEW q \in Nat, mincdeposit(m, s, q)
      PROVE  CoverInv'
  <2> DEFINE d == mdep[m]
             more == d.deposit + q
             total == IF more > d.dep_total THEN more ELSE d.dep_total
             e == increased(d, q)
             max == minerinfo[m].max
  <2>1. /\ miner[m] # NoRow /\ q >= get_miner_forfeit(m) + calc_deposit(s) /\ d.type # "none"
        /\ mdep' = [mdep EXCEPT ![m] = e]
        /\ minerinfo' = [minerinfo EXCEPT ![m] = enlarged(minerinfo[m], s)]
    BY <1>0, <1>6 DEF mincdeposit, incdeposit
  <2>2. minerinfo[m] # NoRow
    BY <2>1, MinerFacts DEF Agree
  <2>3. minerinfo[m] \in MinerInfo /\ max \in Nat /\ enlarged(minerinfo[m], s).max = max + s
    BY <2>2, RowFacts DEF enlarged, MinerInfo
  <2>4. d \in Deposit /\ d.deposit \in Nat /\ d.dep_total \in Nat
    BY <1>0
  <2>5. e.dep_total = total /\ e.deposit = more
    BY <2>4 DEF increased, Deposit
  <2>6. d.dep_total + max >= max * rate /\ d.deposit <= d.dep_total
    BY <1>1, <2>1, <2>2 DEF Covers
  <2>7. get_miner_forfeit(m) = d.dep_total - d.deposit
    BY <2>4, <2>6 DEF get_miner_forfeit
  <2>8. PICK price \in Nat : price = s * rate
    BY <1>0
  <2>a. PICK paid \in Nat : paid = calc_deposit(s) /\ paid + s >= price
    BY <1>0, <2>8, DepositBounds
  <2>9. PICK owed \in Nat : owed = max * rate
    BY <1>0, <2>3
  <2>10. (max + s) * rate = owed + price
    BY <1>0, <2>3, <2>8, <2>9
  <2>11. q >= d.dep_total - d.deposit + paid /\ d.dep_total + max >= owed
    BY <2>1, <2>6, <2>7, <2>a, <2>9
  <2>12. total + (max + s) >= owed + price /\ more <= total
    BY <2>3, <2>4, <2>6, <2>a, <2>11
  <2>13. Covers(e, max + s)
    BY <2>5, <2>10, <2>12 DEF Covers
  <2>14. mdep'[m] = e /\ minerinfo'[m].max = max + s
         /\ \A x \in Miners : x # m => minerinfo'[x] = minerinfo[x] /\ mdep'[x] = mdep[x]
    BY <1>0, <2>1, <2>3
  <2> HIDE DEF e, max
  <2> QED
    BY <1>2, <2>13, <2>14
<1>7. ASSUME NEW m \in Miners, delminer(m)
      PROVE  CoverInv'
  <2>1. minerinfo' = [minerinfo EXCEPT ![m] = NoRow] /\ mdep' = [mdep EXCEPT ![m] = NoDeposit]
    BY <1>7 DEF delminer, deposit_delminer
  <2>2. /\ minerinfo'[m] = NoRow
        /\ \A x \in Miners : x # m => minerinfo'[x] = minerinfo[x] /\ mdep'[x] = mdep[x]
    BY <1>0, <2>1
  <2> QED
    BY <1>2, <2>2
<1>8. CASE HddPoolActions
  <2>1. ASSUME \/ \E p, s : regstrpool(p, s) \/ delstrpool(p) \/ chgpoolspace(p, s)
               \/ \E m, x : oldsync(m) \/ mdeactive(m) \/ mactive(m) \/ mrspace(m, x) \/ mlevel(m, x)
        PROVE  minerinfo' = minerinfo /\ mdep' = mdep
    <3>1. ASSUME NEW p, NEW s, regstrpool(p, s) \/ delstrpool(p) \/ chgpoolspace(p, s)
          PROVE  minerinfo' = minerinfo /\ mdep' = mdep
      BY <3>1 DEF regstrpool, delstrpool, chgpoolspace, transfer, allDeposit, depositVars
    <3>2. ASSUME NEW m, NEW x, mdeactive(m) \/ mactive(m) \/ mrspace(m, x) \/ mlevel(m, x)
          PROVE  minerinfo' = minerinfo /\ mdep' = mdep
      BY <3>2 DEF mdeactive, mactive, mrspace, mlevel, allDeposit
    <3>3. ASSUME NEW m, oldsync(m)
          PROVE  minerinfo' = minerinfo /\ mdep' = mdep
      BY <3>3 DEF oldsync, allDeposit
    <3> QED
      BY <2>1, <3>1, <3>2, <3>3
  <2>2. ASSUME NEW m \in Miners, NEW x,
               addmprofit(m, x) \/ submprofit(m, x) \/ mchgstrpool(m, x) \/ mchgowneracc(m, x)
        PROVE  CoverInv'
    <3>1. CASE addmprofit(m, x)
      <4>1. /\ minerinfo[m] # NoRow /\ mdep' = mdep
            /\ minerinfo' = [minerinfo EXCEPT ![m].left = minerinfo[m].left - x]
        BY <1>0, <3>1 DEF addmprofit, allDeposit
      <4> QED
        BY <1>4, <4>1
    <3>2. CASE submprofit(m, x)
      <4>1. /\ minerinfo[m] # NoRow /\ mdep' = mdep
            /\ minerinfo' = [minerinfo EXCEPT ![m].left = minerinfo[m].left + x]
        BY <1>0, <3>2 DEF submprofit, allDeposit
      <4> QED
        BY <1>4, <4>1
    <3>3. CASE mchgstrpool(m, x)
      BY <1>4, <3>3 DEF mchgstrpool, allDeposit
    <3>4. CASE mchgowneracc(m, x)
      BY <1>4, <3>4 DEF mchgowneracc, allDeposit
    <3> QED
      BY <2>2, <3>1, <3>2, <3>3, <3>4
  <2>3. ASSUME NEW m \in Miners, NEW s \in Spaces \cup {0},
               NEW q \in Amounts \cup {get_miner_forfeit(m) + calc_deposit(s)}, mincdeposit(m, s, q)
        PROVE  CoverInv'
    <3>1. get_miner_forfeit(m) \in Nat /\ calc_deposit(s) \in Nat /\ s \in Nat
      BY <1>0, DepositBounds DEF get_miner_forfeit
    <3>2. q \in Nat
      BY <3>1, DepositAssumption
    <3> QED
      BY <1>6, <2>3, <3>1, <3>2
  <2>4. ASSUME NEW m \in Miners, NEW u \in Users, NEW p \in Pools, NEW o \in Owners, NEW s \in Spaces,
               NEW q \in Amounts \cup {calc_deposit(s)}, regminer(m, u, p, o, s, q)
        PROVE  CoverInv'
    <3>1. calc_deposit(s) \in Nat
      BY <1>0, DepositBounds
    <3>2. q \in Nat
      BY <3>1, DepositAssumption
    <3> QED
      BY <1>5, <2>4, <3>2
  <2> QED
    BY <1>3, <1>7, <1>8, <2>1, <2>2, <2>3, <2>4 DEF HddPoolActions
<1>9. CASE AccountNext /\ UNCHANGED poolVars
  <2>1. minerinfo' = minerinfo
    BY <1>9 DEF poolVars
  <2>2. ASSUME NEW m \in Miners, NEW q \in Fines, mforfeit(m, q)
        PROVE  CoverInv'
    <3> DEFINE d == mdep[m]
               real == IF d.deposit < q THEN d.deposit ELSE q
               rest == d.deposit - real
               e == [d EXCEPT !.deposit = rest]
    <3>1. mdep' = [mdep EXCEPT ![m] = e]
      BY <1>0, <2>2 DEF mforfeit
    <3>2. rest \in Nat /\ rest <= d.deposit /\ d \in Deposit
      BY <1>0
    <3> HIDE DEF rest
    <3>3. e.type = d.type /\ e.dep_total = d.dep_total /\ e.deposit = rest
      BY <3>2 DEF Deposit
    <3> HIDE DEF e
    <3>4. mdep'[m] = e /\ \A x \in Miners : x # m => mdep'[x] = mdep[x]
      BY <1>0, <3>1
    <3>5. minerinfo[m] # NoRow => Covers(e, minerinfo[m].max)
      BY <1>0, <1>1, <3>2, <3>3 DEF Covers
    <3> QED
      BY <1>2, <2>1, <3>4, <3>5
  <2>3. ASSUME NEW m \in Miners, NEW u \in Users, mchgdepacc(m, u)
        PROVE  CoverInv'
    <3> DEFINE d == mdep[m]
               e == [type |-> "new", user |-> u, deposit |-> d.dep_total, dep_total |-> d.dep_total]
    <3>1. mdep' = [mdep EXCEPT ![m] = e] /\ d.type # "none"
      BY <2>3 DEF mchgdepacc
    <3>2. e.dep_total = d.dep_total /\ e.deposit = d.dep_total
      OBVIOUS
    <3> HIDE DEF e
    <3>3. mdep'[m] = e /\ \A x \in Miners : x # m => mdep'[x] = mdep[x]
      BY <1>0, <3>1
    <3>4. minerinfo[m] # NoRow => Covers(e, minerinfo[m].max)
      BY <1>0, <1>1, <3>1, <3>2 DEF Covers
    <3> QED
      BY <1>2, <2>1, <3>3, <3>4
  <2>4. ASSUME \/ \E f, t, q : transfer(f, t, q) \/ depstore(f) \/ undepstore(f) \/ issue(q)
               \/ \E r, f, t, q, a : locktransfer(r, f, t, q, a)
               \/ \E u, t : frozenuser(u, t) \/ setrate(u)
               \/ \E u, q, g : channel_fee(u, q) \/ feetoc(u, q) \/ rewardnode(u, q) \/ mapc(u, q, g)
               \/ \E s : splitgas(s)
               \/ Tick
        PROVE  mdep' = mdep
    BY <2>4 DEF transfer, depstore, undepstore, issue, locktransfer, frozenuser, setrate, channel_fee,
       feetoc, rewardnode, mapc, splitgas, Tick, depositVars
  <2>5. ASSUME NEW u, NEW q,
               paydeppool(u, q) \/ unpaydeppool(u, q) \/ paydeppool2(u, q) \/ undeppool2(u, q)
        PROVE  mdep' = mdep
    BY <2>5 DEF paydeppool, unpaydeppool, paydeppool2, undeppool2
  <2> QED
    BY <1>3, <1>9, <2>1, <2>2, <2>3, <2>4, <2>5 DEF AccountNext
<1>10. CASE UNCHANGED allPool
  BY <1>3, <1>10 DEF allPool, poolVars, allDeposit
<1> QED
  BY <1>8, <1>9, <1>10 DEF PoolNext

\* While the rate does not change, a miner with a new deposit has paid for its
\* whole space: registrations pay for it, enlargements pay for fines and for the
\* difference, and a fine or a change of depositor never lowers the total.  What the
\* conversions of calc_deposit cut off adds up to at most a unit for each GB,
\* whichever products they cut.  The old miner's deposit must cover its space, up to
\* that, from the start.
THEOREM SpaceAlwaysCovered ==
    ASSUME \A r, s \in Rates : r = s,
           \A r \in Rates : OldDeposit + OldSpace >= OldSpace * r
    PROVE  PoolSpec => []SpaceCovered
<1> DEFINE Inv == PoolInv /\ DepositInv /\ CoverInv
<1>1. PoolInit => Inv
  <2> SUFFICES ASSUME PoolInit PROVE Inv
    OBVIOUS
  <2>1. PoolInv /\ DepositInv
    BY PoolInitInv, InitEstablishes DEF PoolInit
  <2>2. CoverInv
    <3> SUFFICES ASSUME NEW m \in Registered PROVE Covers(mdep[m], minerinfo[m].max)
      BY DEF CoverInv
    <3>1. m = OldMiner /\ OldMiner \in Miners /\ minerinfo[m].max = OldSpace
      BY DepositAssumption DEF PoolInit, Registered
    <3>2. mdep[m].deposit = OldDeposit /\ mdep[m].dep_total = OldDeposit /\ rate \in Rates
      BY <3>1 DEF PoolInit, DepositInit
    <3> QED
      BY <3>1, <3>2, DepositAssumption DEF Covers
  <2> QED
    BY <2>1, <2>2
<1>2. Inv /\ [PoolNext]_allPool => Inv'
  <2> SUFFICES ASSUME Inv, [PoolNext]_allPool PROVE Inv'
    OBVIOUS
  <2>1. DepositTypeOK /\ rate \in Rates
    BY DEF DepositInv, DepositTypeOK
  <2>2. DepositInv' /\ rate' \in Rates
    BY <2>1, PoolStepIsAnyStep, StepPreserves DEF DepositInv, DepositTypeOK
  <2>3. rate' = rate
    BY <2>1, <2>2
  <2> QED
    BY <2>1, <2>2, <2>3, PoolStep, CoverStep
<1>3. Inv => SpaceCovered
  <2> SUFFICES ASSUME Inv, NEW m \in Registered, mdep[m].type = "new"
               PROVE  /\ mdep[m].dep_total + minerinfo[m].max >= calc_deposit(minerinfo[m].max)
                      /\ mdep[m].deposit <= mdep[m].dep_total
    BY DEF SpaceCovered
  <2>1. /\ mdep[m].dep_total + minerinfo[m].max >= minerinfo[m].max * rate
        /\ mdep[m].deposit <= mdep[m].dep_total
    BY DEF CoverInv, Covers
  <2>2. rate \in Nat /\ mdep[m].dep_total \in Nat
    BY DepositAssumption DEF DepositInv, DepositTypeOK, Deposit, Registered
  <2>3. minerinfo[m] \in MinerInfo
    BY RowFacts DEF Registered
  <2>4. PICK max \in Nat : max = minerinfo[m].max
    BY <2>3 DEF MinerInfo
  <2>5. PICK price \in Nat : price = max * rate
    BY <2>2
  <2>6. calc_deposit(max) \in Nat /\ calc_deposit(max) <= price
    BY <2>2, <2>5, DepositBounds
  <2> QED
    BY <2>1, <2>2, <2>4, <2>5, <2>6
<1> QED
  BY <1>1, <1>2, <1>3, PTL DEF PoolSpec

-----------------------------------------------------------------------------
(* The binary search. *)

(* The longest table in which n probes always find a row: the last probe may only
   be needed when there is nothing left, since the search gives up after it. *)
Reach[n \in 0..MaxProbes] == IF n = 0 THEN 0 ELSE IF n = 1 THEN 0 ELSE 2 * Reach[n - 1] + 1

LEMMA ReachIs ==
    /\ \A n \in 0..MaxProbes : Reach[n] \in Nat
    /\ Reach[0] = 0 /\ Reach[1] = 0
    /\ \A n \in 2..MaxProbes : Reach[n] = 2 * Reach[n - 1] + 1
<1> DEFINE D == [n \in 0..MaxProbes |-> Nat]
           op(n, d) == IF n = 1 THEN 0 ELSE 2 * d + 1
           g == [n \in 1..MaxProbes |-> [d \in Nat |-> op(n, d)]]
           Eq(f) == f = [n \in 0..MaxProbes |-> IF n = 0 THEN 0 ELSE IF n = 1 THEN 0 ELSE 2 * f[n - 1] + 1]
<1>0. MaxProbes \in Nat /\ MaxProbes > 0
    BY RewardAssumption
<1>1. \A n \in 1..MaxProbes : \A d \in D[n - 1] : g[n][d] \in D[n]
  <2> SUFFICES ASSUME NEW n \in 1..MaxProbes, NEW d \in D[n - 1] PROVE g[n][d] \in D[n]
    OBVIOUS
  <2>1. n - 1 \in 0..MaxProbes /\ n \in 0..MaxProbes
    BY <1>0
  <2>2. d \in Nat /\ D[n] = Nat
    BY <2>1
  <2>3. g[n][d] = op(n, d)
    BY <2>2
  <2> QED BY <2>2, <2>3
<1>2. 0 \in D[0]
    BY <1>0
<1>3a. PICK f : Rounds(f, MaxProbes, D, 0, g)
  <2> HIDE DEF D, g
  <2> QED BY <1>0, <1>1, <1>2, RoundsExist
<1>3. /\ f = [n \in 0..MaxProbes |-> f[n]]
      /\ f[0] = 0 /\ \A n \in 1..MaxProbes : f[n] = g[n][f[n - 1]]
      /\ \A n \in 0..MaxProbes : f[n] \in D[n]
  <2> HIDE DEF D, g
  <2> QED BY <1>3a DEF Rounds
<1>4. \A n \in 0..MaxProbes : f[n] \in Nat
    BY <1>3
<1>5. \A n \in 0..MaxProbes : f[n] = IF n = 0 THEN 0 ELSE IF n = 1 THEN 0 ELSE 2 * f[n - 1] + 1
  <2> SUFFICES ASSUME NEW n \in 0..MaxProbes
               PROVE  f[n] = IF n = 0 THEN 0 ELSE IF n = 1 THEN 0 ELSE 2 * f[n - 1] + 1
    OBVIOUS
  <2>2. n # 0 => n \in 1..MaxProbes /\ n - 1 \in 0..MaxProbes
    BY <1>0
  <2>1. f[n] = IF n = 0 THEN 0 ELSE g[n][f[n - 1]]
    BY <1>3, <2>2
  <2>3. n # 0 => f[n - 1] \in Nat
    BY <1>4, <2>2
  <2>4. n # 0 => g[n][f[n - 1]] = op(n, f[n - 1])
    BY <2>2, <2>3
  <2> HIDE DEF g
  <2> QED BY <2>1, <2>4
<1>6. Eq(f)
    BY <1>3, <1>5
<1>7. Eq(Reach)
  <2>1. Reach = CHOOSE h : Eq(h)
    BY DEF Reach
  <2> HIDE DEF Eq
  <2> QED BY <1>6, <2>1
<1>8. \A n \in 0..MaxProbes : Reach[n] = IF n = 0 THEN 0 ELSE IF n = 1 THEN 0 ELSE 2 * Reach[n - 1] + 1
    BY <1>7
<1>9. Reach[0] \in D[0]
    BY <1>0, <1>2, <1>8
<1>10. ASSUME NEW n \in 1..MaxProbes, Reach[n - 1] \in D[n - 1] PROVE Reach[n] \in D[n]
  <2>1. n - 1 \in 0..MaxProbes /\ n \in 0..MaxProbes /\ n # 0
    BY <1>0
  <2>2. Reach[n - 1] \in Nat /\ D[n] = Nat
    BY <1>10, <2>1
  <2> QED BY <1>8, <2>1, <2>2
<1>11. \A n \in 0..MaxProbes : Reach[n] \in D[n]
  <2> HIDE DEF D
  <2> QED BY <1>0, <1>9, <1>10, RoundsKeep
<1>12. \A n \in 2..MaxProbes : n \in 0..MaxProbes /\ n # 0 /\ n # 1
    BY <1>0
<1>13. 0 \in 0..MaxProbes /\ 1 \in 0..MaxProbes
    BY <1>0
<1> QED BY <1>8, <1>11, <1>12, <1>13

Increasing(rows) ==
    \A i, j \in 1..Len(rows) : i < j => rows[i].range < rows[j].range

(* What the search for sel knows after n probes. *)
Found(rows, sel, n) ==
    {s \in [row : 0..Len(rows), low : 1..(Len(rows) + 1), high : 0..Len(rows)] :
        /\ \A i \in 1..Len(rows) : /\ i < s.low => rows[i].range < sel
                                   /\ i > s.high => rows[i].range > sel
        /\ s.row # 0 => rows[s.row].range = sel
        /\ s.row = 0 => s.low <= s.high + 1 /\ s.high + 1 - s.low <= Reach[MaxProbes - n]}

LEMMA ProbeNarrows ==
    ASSUME NEW rows \in Seq(Row), Increasing(rows), NEW sel \in Nat, NEW n \in 1..MaxProbes,
           NEW s \in Found(rows, sel, n - 1)
    PROVE  narrowed(rows, sel, n, s) \in Found(rows, sel, n)
<1> DEFINE mid == (s.low + s.high) \div 2
           R == Reach[MaxProbes - n]
           L == Len(rows)
<1>0. MaxProbes \in Nat /\ L \in Nat /\ n \in Nat /\ n > 0 /\ n <= MaxProbes
    BY RewardAssumption
<1>1. /\ s \in [row : 0..L, low : 1..(L + 1), high : 0..L]
      /\ \A i \in 1..L : (i < s.low => rows[i].range < sel) /\ (i > s.high => rows[i].range > sel)
      /\ s.row # 0 => rows[s.row].range = sel
      /\ s.row = 0 => s.low <= s.high + 1 /\ s.high + 1 - s.low <= Reach[MaxProbes - (n - 1)]
    BY DEF Found
<1>2. s.row \in 0..L /\ s.low \in 1..(L + 1) /\ s.high \in 0..L
    BY <1>1
<1>3. /\ R \in Nat
      /\ n = MaxProbes => Reach[MaxProbes - (n - 1)] = 0
      /\ n < MaxProbes => Reach[MaxProbes - (n - 1)] = 2 * R + 1
  <2>1. MaxProbes - n \in 0..MaxProbes
    BY <1>0
  <2>2. n = MaxProbes => MaxProbes - (n - 1) = 1
    BY <1>0
  <2>3. n < MaxProbes => MaxProbes - (n - 1) \in 2..MaxProbes /\ (MaxProbes - (n - 1)) - 1 = MaxProbes - n
    BY <1>0
  <2> QED BY <2>1, <2>2, <2>3, ReachIs
<1>4. CASE s.row # 0 \/ s.low > s.high
  <2>1. narrowed(rows, sel, n, s) = s
    BY <1>4 DEF narrowed
  <2>2. s.row = 0 => s.high + 1 - s.low <= R
    BY <1>0, <1>2, <1>3, <1>4
  <2> QED BY <1>1, <2>1, <2>2 DEF Found
<1>5. CASE s.row = 0 /\ s.low <= s.high
  <2>1. /\ mid \in 1..L /\ s.low <= mid /\ mid <= s.high
        /\ mid - s.low <= s.high - mid /\ s.high - mid <= mid - s.low + 1
    BY <1>0, <1>2, <1>5, SMTT(30)
  <2>2. rows[mid].range \in Nat /\ \A i \in 1..L : rows[i].range \in Nat
    <3>1. \A i \in 1..L : rows[i] \in Row
      BY <1>0
    <3> QED BY <2>1, <3>1 DEF Row
  <2>3. n < MaxProbes
    BY <1>0, <1>1, <1>2, <1>3, <1>5
  <2>4. s.high - mid <= R /\ mid - s.low <= R
    <3>1. s.high + 1 - s.low <= 2 * R + 1
      BY <1>1, <1>3, <1>5, <2>3
    <3>2. s.low \in Int /\ s.high \in Int /\ mid \in Int /\ R \in Int
      BY <1>0, <1>2, <1>3, <2>1, SMTT(30)
    <3> HIDE DEF mid, R
    <3> QED BY <2>1, <3>1, <3>2, Halved
  <2>5. narrowed(rows, sel, n, s) =
            IF rows[mid].range = sel THEN [s EXCEPT !.row = mid]
            ELSE IF sel > rows[mid].range THEN [s EXCEPT !.low = mid + 1]
            ELSE [s EXCEPT !.high = mid - 1]
    BY <1>0, <1>2, <1>5, <2>3 DEF narrowed
  <2> HIDE DEF mid, R
  <2>6. CASE rows[mid].range = sel
    <3> DEFINE t == [s EXCEPT !.row = mid]
    <3>2. mid # 0 /\ mid \in 0..L
      BY <2>1, <1>0
    <3>1. t \in [row : 0..L, low : 1..(L + 1), high : 0..L] /\ t.low = s.low /\ t.high = s.high /\ t.row = mid
      BY <1>1, <3>2
    <3> HIDE DEF t
    <3>3. t \in Found(rows, sel, n)
      BY <1>1, <2>6, <3>1, <3>2 DEF Found
    <3> QED BY <2>5, <2>6, <3>3 DEF t
  <2>7. CASE rows[mid].range # sel /\ sel > rows[mid].range
    <3> DEFINE t == [s EXCEPT !.low = mid + 1]
    <3>0. mid + 1 \in 1..(L + 1)
      BY <1>0, <2>1
    <3>1. t \in [row : 0..L, low : 1..(L + 1), high : 0..L] /\ t.low = mid + 1 /\ t.high = s.high /\ t.row = 0
      BY <1>1, <1>5, <3>0
    <3>2. ASSUME NEW i \in 1..L, i < mid + 1 PROVE rows[i].range < sel
      <4>1. i = mid \/ i < mid
        BY <1>0, <2>1, <3>2
      <4>2. i < mid => rows[i].range < rows[mid].range
        BY <2>1 DEF Increasing
      <4>3. rows[i].range \in Nat
        BY <2>2
      <4> QED BY <2>2, <2>7, <4>1, <4>2, <4>3
    <3>3. t.low <= t.high + 1 /\ t.high + 1 - t.low <= R
      <4>1. mid + 1 <= s.high + 1 /\ s.high + 1 - (mid + 1) <= R
        BY <1>0, <1>2, <1>3, <2>1, <2>4
      <4> HIDE DEF t
      <4> QED BY <3>1, <4>1
    <3> HIDE DEF t
    <3>4. t \in Found(rows, sel, n)
      BY <1>1, <3>1, <3>2, <3>3 DEF Found, R
    <3> QED BY <2>5, <2>7, <3>4 DEF t
  <2>8. CASE rows[mid].range # sel /\ ~ (sel > rows[mid].range)
    <3> DEFINE t == [s EXCEPT !.high = mid - 1]
    <3>0. mid - 1 \in 0..L
      BY <1>0, <2>1
    <3>1. t \in [row : 0..L, low : 1..(L + 1), high : 0..L] /\ t.low = s.low /\ t.high = mid - 1 /\ t.row = 0
      BY <1>1, <1>5, <3>0
    <3>2. ASSUME NEW i \in 1..L, i > mid - 1 PROVE rows[i].range > sel
      <4>1. i = mid \/ mid < i
        BY <1>0, <2>1, <3>2
      <4>2. mid < i => rows[mid].range < rows[i].range
        BY <2>1 DEF Increasing
      <4>3. rows[i].range \in Nat
        BY <2>2
      <4> QED BY <2>2, <2>8, <4>1, <4>2, <4>3
    <3>3. t.low <= t.high + 1 /\ t.high + 1 - t.low <= R
      <4>1. s.low <= (mid - 1) + 1 /\ (mid - 1) + 1 - s.low <= R
        BY <1>0, <1>2, <1>3, <2>1, <2>4
      <4> HIDE DEF t
      <4> QED BY <3>1, <4>1
    <3> HIDE DEF t
    <3>4. t \in Found(rows, sel, n)
      BY <1>1, <3>1, <3>2, <3>3 DEF Found, R
    <3> QED BY <2>5, <2>8, <3>4 DEF t
  <2> QED BY <2>6, <2>7, <2>8
<1> QED BY <1>2, <1>4, <1>5

LEMMA ProbeKeeps ==
    ASSUME NEW rows \in Seq(Row), NEW sel \in Nat, NEW D,
           [row |-> 0, low |-> 1, high |-> Len(rows)] \in D[0],
           \A n \in 1..MaxProbes : \A d \in D[n - 1] : narrowed(rows, sel, n, d) \in D[n]
    PROVE  probe(rows, sel) \in D[MaxProbes]
<1> DEFINE start == [row |-> 0, low |-> 1, high |-> Len(rows)]
           Eq(f) == f = [n \in 0..MaxProbes |-> IF n = 0 THEN start ELSE narrowed(rows, sel, n, f[n - 1])]
           g == [n \in 1..MaxProbes |-> [d \in D[n - 1] |-> narrowed(rows, sel, n, d)]]
<1>0. MaxProbes \in Nat /\ MaxProbes > 0
    BY RewardAssumption
<1>2. \A n \in 1..MaxProbes : n - 1 \in 0..MaxProbes /\ n \in 0..MaxProbes /\ n # 0
    BY <1>0
<1>5. start \in D[0]
    OBVIOUS
<1> HIDE DEF start
<1>4. \A n \in 1..MaxProbes : \A d \in D[n - 1] : g[n][d] = narrowed(rows, sel, n, d)
    OBVIOUS
<1> HIDE DEF g
<1>6. \A n \in 1..MaxProbes : \A d \in D[n - 1] : g[n][d] \in D[n]
    BY <1>4
<1>7. PICK f : Rounds(f, MaxProbes, D, start, g)
    BY <1>0, <1>5, <1>6, RoundsExist
<1>8. /\ f = [n \in 0..MaxProbes |-> f[n]]
      /\ f[0] = start /\ \A n \in 1..MaxProbes : f[n] = g[n][f[n - 1]]
      /\ \A n \in 0..MaxProbes : f[n] \in D[n]
    BY <1>7 DEF Rounds
<1>9. \A n \in 0..MaxProbes : f[n] = IF n = 0 THEN start ELSE narrowed(rows, sel, n, f[n - 1])
  <2>1. \A n \in 0..MaxProbes : n = 0 \/ n \in 1..MaxProbes
    BY <1>0
  <2> QED BY <1>2, <1>4, <1>8, <2>1
<1>10. Eq(f)
    BY <1>8, <1>9
<1>11. \A h : Eq(h) => h[MaxProbes] \in D[MaxProbes]
  <2> SUFFICES ASSUME NEW h, Eq(h) PROVE h[MaxProbes] \in D[MaxProbes]
    OBVIOUS
  <2>1. h[0] = start /\ \A n \in 1..MaxProbes : h[n] = narrowed(rows, sel, n, h[n - 1])
    <3>1. 0 \in 0..MaxProbes
      BY <1>0
    <3> QED BY <1>2, <3>1
  <2>2. h[0] \in D[0] /\ \A n \in 1..MaxProbes : h[n - 1] \in D[n - 1] => h[n] \in D[n]
    BY <1>5, <2>1
  <2>3. \A n \in 0..MaxProbes : h[n] \in D[n]
    <3> HIDE DEF Eq
    <3> QED BY <1>0, <2>2, RoundsKeep
  <2>4. MaxProbes \in 0..MaxProbes
    BY <1>0
  <2> QED BY <2>3, <2>4
<1>12. probe(rows, sel) = (CHOOSE h : Eq(h))[MaxProbes]
    BY DEF probe, start
<1> HIDE DEF Eq
<1> QED BY <1>10, <1>11, <1>12

LEMMA ProbeFinds ==
    ASSUME NEW rows \in Seq(Row), Increasing(rows), NEW sel \in Nat,
           Len(rows) <= Reach[MaxProbes]
    PROVE  probe(rows, sel) \in Found(rows, sel, MaxProbes)
<1> DEFINE start == [row |-> 0, low |-> 1, high |-> Len(rows)]
           D == [n \in 0..MaxProbes |-> Found(rows, sel, n)]
<1>0. MaxProbes \in Nat /\ MaxProbes > 0 /\ Len(rows) \in Nat
    BY RewardAssumption
<1>1. start \in Found(rows, sel, 0)
  <2>1. start \in [row : 0..Len(rows), low : 1..(Len(rows) + 1), high : 0..Len(rows)]
    BY <1>0
  <2>2. start.row = 0 /\ start.low = 1 /\ start.high = Len(rows)
    OBVIOUS
  <2>3. MaxProbes - 0 = MaxProbes
    BY <1>0
  <2>4. Len(rows) + 1 - 1 = Len(rows) /\ 1 <= Len(rows) + 1
    BY <1>0
  <2>5. \A i \in 1..Len(rows) : ~ (i < 1) /\ ~ (i > Len(rows))
    BY <1>0
  <2> HIDE DEF start
  <2> QED BY <2>1, <2>2, <2>3, <2>4, <2>5 DEF Found
<1>2. \A n \in 1..MaxProbes : n - 1 \in 0..MaxProbes /\ n \in 0..MaxProbes
    BY <1>0
<1>3. ASSUME NEW n \in 1..MaxProbes, NEW d \in D[n - 1] PROVE narrowed(rows, sel, n, d) \in D[n]
  <2>1. d \in Found(rows, sel, n - 1) /\ D[n] = Found(rows, sel, n)
    BY <1>2
  <2> HIDE DEF D
  <2> QED BY <2>1, ProbeNarrows
<1>4. start \in D[0] /\ D[MaxProbes] = Found(rows, sel, MaxProbes)
  <2>1. 0 \in 0..MaxProbes /\ MaxProbes \in 0..MaxProbes
    BY <1>0
  <2> HIDE DEF start
  <2> QED BY <1>1, <2>1
<1> HIDE DEF D
<1>5. probe(rows, sel) \in D[MaxProbes]
    BY <1>3, <1>4, ProbeKeeps
<1> QED BY <1>4, <1>5

(* Whatever the rows are, the search stays in the table. *)
LEMMA DrawnInTable ==
    ASSUME NEW rows \in Seq(Row), NEW sel \in Nat
    PROVE  drawn(rows, sel) = 0 \/ drawn(rows, sel) \in DOMAIN rows
<1> DEFINE L == Len(rows)
           S == [row : (-1)..L, low : 1..(L + 1), high : 0..L]
           D == [n \in 0..MaxProbes |-> S]
<1>0. MaxProbes \in Nat /\ MaxProbes > 0 /\ L \in Nat /\ DOMAIN rows = 1..L
    BY RewardAssumption
<1>1. [row |-> 0, low |-> 1, high |-> L] \in D[0] /\ D[MaxProbes] = S
  <2>1. 0 \in 0..MaxProbes /\ MaxProbes \in 0..MaxProbes
    BY <1>0
  <2>2. 0 \in (-1)..L /\ 1 \in 1..(L + 1) /\ L \in 0..L
    BY <1>0
  <2> QED BY <2>1, <2>2
<1>2. \A n \in 1..MaxProbes : n - 1 \in 0..MaxProbes /\ n \in 0..MaxProbes
    BY <1>0
<1>3. ASSUME NEW n \in 1..MaxProbes, NEW s \in D[n - 1] PROVE narrowed(rows, sel, n, s) \in D[n]
  <2> DEFINE mid == (s.low + s.high) \div 2
  <2>1. s \in S /\ D[n] = S
    BY <1>2
  <2>2. s.low \in 1..(L + 1) /\ s.high \in 0..L
    BY <2>1
  <2>3. s.low <= s.high => mid \in 1..L
    BY <1>0, <2>2
  <2>4. s.low <= s.high => mid \in (-1)..L /\ mid + 1 \in 1..(L + 1) /\ mid - 1 \in 0..L
    BY <1>0, <2>3
  <2>5. -1 \in (-1)..L
    BY <1>0
  <2>6. ~ (s.low > s.high) => s.low <= s.high
    BY <1>0, <2>2
  <2>7. narrowed(rows, sel, n, s) \in {s, [s EXCEPT !.row = mid], [s EXCEPT !.row = -1],
                                       [s EXCEPT !.low = mid + 1], [s EXCEPT !.high = mid - 1]}
        /\ (s.low > s.high => narrowed(rows, sel, n, s) = s)
    BY DEF narrowed
  <2> HIDE DEF mid, D
  <2> QED BY <2>1, <2>4, <2>5, <2>6, <2>7
<1> DEFINE p == probe(rows, sel)
<1>4. p \in S
  <2> HIDE DEF D, S
  <2> QED BY <1>1, <1>3, ProbeKeeps
<1>5. p.row \in (-1)..L
    BY <1>4
<1>6. p.row > 0 => p.row \in DOMAIN rows
    BY <1>0, <1>5
<1> HIDE DEF p
<1> QED BY <1>6 DEF drawn, p

(* The draw finds the row whose interval sel lies in. *)
Exact(rows) ==
    rows # <<>> => \A sel \in 1..rows[Len(rows)].range :
        /\ drawn(rows, sel) # 0
        /\ rows[drawn(rows, sel)].range >= sel
        /\ \A i \in 1..drawn(rows, sel) - 1 : rows[i].range < sel

LEMMA DrawnExact ==
    ASSUME NEW rows \in Seq(Row), Increasing(rows), Len(rows) <= Reach[MaxProbes]
    PROVE  Exact(rows)
<1> SUFFICES ASSUME rows # <<>>, NEW sel \in 1..rows[Len(rows)].range
             PROVE  /\ drawn(rows, sel) # 0
                    /\ rows[drawn(rows, sel)].range >= sel
                    /\ \A i \in 1..drawn(rows, sel) - 1 : rows[i].range < sel
    BY DEF Exact
<1> DEFINE L == Len(rows)
           p == probe(rows, sel)
           high == IF p.low = 1 THEN 1 ELSE p.high
<1>1. L \in Nat /\ L > 0 /\ DOMAIN rows = 1..L /\ \A i \in 1..L : rows[i].range \in Nat
  <2>1. L \in Nat /\ L > 0 /\ DOMAIN rows = 1..L /\ \A i \in 1..L : rows[i] \in Row
    OBVIOUS
  <2> QED BY <2>1 DEF Row
<1>2. L \in 1..L /\ sel \in Nat /\ sel <= rows[L].range /\ sel > 0
  <2>1. L \in 1..L
    BY <1>1
  <2>2. rows[L].range \in Nat
    BY <1>1, <2>1
  <2> QED BY <2>1, <2>2
<1>3. p \in Found(rows, sel, MaxProbes)
    BY <1>2, ProbeFinds
<1>4. /\ p.row \in 0..L /\ p.low \in 1..(L + 1) /\ p.high \in 0..L
      /\ \A i \in 1..L : (i < p.low => rows[i].range < sel) /\ (i > p.high => rows[i].range > sel)
      /\ p.row # 0 => rows[p.row].range = sel
      /\ p.row = 0 => p.low = p.high + 1
  <2>1. MaxProbes - MaxProbes = 0 /\ Reach[0] = 0
    BY RewardAssumption, ReachIs
  <2>2. /\ p.row \in 0..L /\ p.low \in 1..(L + 1) /\ p.high \in 0..L
        /\ \A i \in 1..L : (i < p.low => rows[i].range < sel) /\ (i > p.high => rows[i].range > sel)
        /\ p.row # 0 => rows[p.row].range = sel
        /\ p.row = 0 => p.low <= p.high + 1 /\ p.high + 1 - p.low <= 0
    BY <1>3, <2>1 DEF Found
  <2>3. p.row = 0 => p.low = p.high + 1
    <3>1. p.low \in Int /\ p.high \in Int
      BY <1>1, <2>2
    <3> HIDE DEF p
    <3> QED BY <2>2, <3>1
  <2> QED BY <2>2, <2>3
<1>5. drawn(rows, sel) = IF p.row # 0 THEN (IF p.row > 0 THEN p.row ELSE 0)
                         ELSE IF high \in DOMAIN rows /\ rows[high].range >= sel THEN high
                         ELSE IF high \in DOMAIN rows /\ p.low \in DOMAIN rows THEN p.low ELSE 0
    BY DEF drawn
<1> HIDE DEF p
<1>6. CASE p.row # 0
  <2>1. drawn(rows, sel) = p.row /\ p.row \in 1..L /\ rows[p.row].range = sel
    BY <1>1, <1>4, <1>5, <1>6
  <2>2. \A i \in 1..p.row - 1 : i \in 1..L /\ i < p.row
    BY <1>1, <2>1
  <2>3. \A i \in 1..p.row - 1 : rows[i].range < sel
    BY <2>1, <2>2 DEF Increasing
  <2> QED BY <1>1, <1>2, <2>1, <2>3
<1>7. CASE p.row = 0
  <2>1. p.low \in 1..L
    <3>1. ~ (p.low > L)
      BY <1>1, <1>2, <1>4
    <3> QED BY <1>1, <1>4, <3>1
  <2>2. \A i \in 1..p.low - 1 : i \in 1..L /\ i < p.low
    BY <1>1, <2>1
  <2>3. \A i \in 1..p.low - 1 : rows[i].range < sel
    BY <1>4, <2>2
  <2>4. p.low > p.high
    BY <1>1, <1>4, <1>7
  <2>5. rows[p.low].range > sel /\ rows[p.low].range >= sel
    <3>1. rows[p.low].range > sel
      BY <1>4, <2>1, <2>4
    <3>2. rows[p.low].range \in Nat
      BY <1>1, <2>1
    <3> QED BY <1>2, <3>1, <3>2
  <2>6. CASE p.low = 1
    <3>1. high = p.low
      BY <2>6
    <3> HIDE DEF high
    <3>2. drawn(rows, sel) = p.low
      BY <1>1, <1>5, <1>7, <2>1, <2>5, <3>1
    <3>3. p.low # 0
      BY <2>6
    <3> QED BY <2>3, <2>5, <3>2, <3>3
  <2>7. CASE p.low # 1
    <3>1. high = p.high /\ p.high \in 1..L /\ p.high < p.low
      BY <1>1, <1>4, <1>7, <2>1, <2>4, <2>7
    <3> HIDE DEF high
    <3>2. rows[high].range < sel /\ rows[high].range \in Nat
      BY <1>1, <1>4, <3>1
    <3>3. ~ (rows[high].range >= sel)
      BY <1>2, <3>2
    <3>4. drawn(rows, sel) = p.low
      BY <1>1, <1>5, <1>7, <2>1, <3>1, <3>3
    <3>5. p.low # 0
      BY <1>1, <2>1
    <3> QED BY <2>3, <2>5, <3>4, <3>5
  <2> QED BY <2>6, <2>7
<1> QED BY <1>6, <1>7

-----------------------------------------------------------------------------
(* The tables.  While one copy is drawn from the other one is filled; a miner *)
(* whose row is in there was deleted since or has an id that was handled.     *)

Build == [current : 0..1, count : [Kinds -> [0..1 -> Nat]],
          job : [proc : Nat \ {0}, range : [Kinds -> Nat], built : [Kinds -> Nat]]]

Scores == [Kinds -> [0..1 -> Seq(Row)]]

\* The first n rows can be drawn from.
Drawable(rows, n) ==
    /\ n <= Len(rows)
    /\ \A i, j \in 1..n : i < j => rows[i].range < rows[j].range
    /\ ~Reregister => \A i, j \in 1..n : i < j => rows[i].minerid # rows[j].minerid

Handled(m, proc) == m \in gone \/ (miner[m] # NoRow /\ miner[m].id < proc)

\* The first n rows are those of a build that goes on with id proc.
Filled(rows, n, top, proc) ==
    /\ Drawable(rows, n)
    /\ \A i \in 1..n : rows[i].range <= top
    /\ ~Reregister => \A i \in 1..n : Handled(rows[i].minerid, proc)

CopiesOK(sc, b, k) ==
    /\ \A s \in 0..1 : b.count[k][s] <= Len(sc[k][s])
    /\ Drawable(sc[k][b.current], b.count[k][b.current])
    /\ Filled(sc[k][1 - b.current], b.job.built[k], b.job.range[k], b.job.proc)

BuildOK(sc, b) == sc \in Scores /\ b \in Build /\ \A k \in Kinds : CopiesOK(sc, b, k)

GoneStays == ~Reregister => \A m \in gone : minerinfo[m] = NoRow

Payments == reward_type \in Kinds /\ pending \subseteq [minerid : Miners, kind : Kinds]

RewardInv ==
    /\ PoolInv /\ BuildOK(score, build) /\ GoneStays /\ Payments
    /\ build.job.proc = 1 \/ build.job.proc <= Len(ids.table)

LEMMA PutRow ==
    ASSUME NEW rows \in Seq(Row), NEW n \in Nat, n <= Len(rows), NEW row \in Row
    PROVE  /\ put(rows, n + 1, row) \in Seq(Row)
           /\ n + 1 <= Len(put(rows, n + 1, row)) /\ Len(rows) <= Len(put(rows, n + 1, row))
           /\ put(rows, n + 1, row)[n + 1] = row
           /\ \A i \in 1..n : put(rows, n + 1, row)[i] = rows[i]
<1>1. Len(rows) \in Nat /\ DOMAIN rows = 1..Len(rows)
    OBVIOUS
<1>2. CASE n + 1 \in DOMAIN rows
  <2>1. put(rows, n + 1, row) = [rows EXCEPT ![n + 1] = row]
    BY <1>2 DEF put
  <2>2. \A i \in 1..n : i \in DOMAIN rows /\ i # n + 1
    BY <1>1
  <2>3. n + 1 <= Len(rows)
    BY <1>1, <1>2
  <2>4. /\ [rows EXCEPT ![n + 1] = row] \in Seq(Row)
        /\ Len([rows EXCEPT ![n + 1] = row]) = Len(rows)
    BY <1>2
  <2>5. /\ [rows EXCEPT ![n + 1] = row][n + 1] = row
        /\ \A i \in 1..n : [rows EXCEPT ![n + 1] = row][i] = rows[i]
    BY <1>2, <2>2
  <2>6. Len(rows) <= Len(rows)
    BY <1>1
  <2> QED BY <2>1, <2>3, <2>4, <2>5, <2>6
<1>3. CASE n + 1 \notin DOMAIN rows
  <2>0. n = Len(rows)
    <3>1. n + 1 \notin 1..Len(rows)
      BY <1>1, <1>3
    <3> DEFINE L == Len(rows)
    <3>2. L \in Nat /\ n <= L /\ n + 1 \notin 1..L
      BY <1>1, <3>1
    <3> HIDE DEF L
    <3>3. n = L
      BY <3>2
    <3> QED BY <3>3 DEF L
  <2>1. put(rows, n + 1, row) = Append(rows, row)
    BY <1>3 DEF put
  <2>2. /\ Append(rows, row) \in Seq(Row) /\ Len(Append(rows, row)) = Len(rows) + 1
        /\ Append(rows, row)[Len(rows) + 1] = row
        /\ \A i \in 1..Len(rows) : Append(rows, row)[i] = rows[i]
    OBVIOUS
  <2> QED BY <1>1, <2>0, <2>1, <2>2
<1> QED BY <1>2, <1>3

LEMMA WeightNat ==
    ASSUME PoolInv, NEW m \in Miners, miner[m] # NoRow, NEW k \in Kinds
    PROVE  weight(k, m) \in Nat
<1>1. miner[m] \in Miner
    BY DEF PoolInv, Tables
<1>2. /\ miner[m].max \in Nat /\ miner[m].space \in Nat /\ miner[m].real \in Nat
      /\ miner[m].level \in Nat
    BY <1>1, PoolAssumption DEF Miner
<1>3. production(m) \in Nat
    BY <1>2 DEF production
<1>4. capacity(m) \in Nat
  <2> DEFINE real == IF miner[m].real > 0 /\ miner[m].max > miner[m].real
                     THEN miner[m].real ELSE miner[m].max
  <2>1. real \in Nat
    BY <1>2
  <2>2. capacity(m) = (real * miner[m].level) \div 100
    BY DEF capacity
  <2> HIDE DEF real
  <2>3. real * miner[m].level \in Nat
    BY <1>2, <2>1
  <2> QED BY <2>2, <2>3
<1> QED BY <1>3, <1>4 DEF weight


IdsAreNumbers == \A m \in Miners : miner[m] # NoRow => miner[m].id \in Nat

LEMMA HandledLater ==
    ASSUME IdsAreNumbers, NEW m \in Miners, NEW proc \in Nat, Handled(m, proc)
    PROVE  Handled(m, proc + 1)
BY DEF IdsAreNumbers, Handled

LEMMA FilledStays ==
    ASSUME IdsAreNumbers, NEW rows \in Seq(Row), NEW n \in Nat, NEW top \in Nat, NEW proc \in Nat,
           Filled(rows, n, top, proc), NEW w \in Nat
    PROVE  Filled(rows, n, top + w, proc + 1)
<1>1. \A i \in 1..n : i \in DOMAIN rows /\ rows[i].range \in Nat /\ rows[i].minerid \in Miners
  <2>1. n <= Len(rows) /\ Len(rows) \in Nat
    BY DEF Filled, Drawable
  <2>2. \A i \in 1..n : i \in DOMAIN rows /\ rows[i] \in Row
    BY <2>1
  <2> QED BY <2>2 DEF Row
<1>2. \A i \in 1..n : rows[i].range <= top + w
    BY <1>1 DEF Filled
<1>3. ~Reregister => \A i \in 1..n : Handled(rows[i].minerid, proc + 1)
    BY <1>1, HandledLater DEF Filled
<1> QED BY <1>2, <1>3 DEF Filled

LEMMA FilledGrows ==
    ASSUME IdsAreNumbers, NEW rows \in Seq(Row), NEW n \in Nat, NEW top \in Nat, NEW proc \in Nat,
           Filled(rows, n, top, proc), NEW w \in Nat, w > 0,
           NEW m \in Miners, Handled(m, proc + 1), Reregister \/ ~Handled(m, proc)
    PROVE  LET new == put(rows, n + 1, [minerid |-> m, range |-> top + w])
           IN  new \in Seq(Row) /\ Len(rows) <= Len(new) /\ Filled(new, n + 1, top + w, proc + 1)
<1> DEFINE row == [minerid |-> m, range |-> top + w]
           new == put(rows, n + 1, row)
<1>0. n <= Len(rows) /\ Len(rows) \in Nat
    BY DEF Filled, Drawable
<1>1. row \in Row /\ row.minerid = m /\ row.range = top + w
    BY DEF Row
<1>2. \A i \in 1..n : rows[i].range \in Nat /\ rows[i].minerid \in Miners
  <2>1. \A i \in 1..n : rows[i] \in Row
    BY <1>0
  <2> QED BY <2>1 DEF Row
<1> HIDE DEF row
<1>3. /\ new \in Seq(Row) /\ n + 1 <= Len(new) /\ Len(rows) <= Len(new)
      /\ new[n + 1] = row /\ \A i \in 1..n : new[i] = rows[i]
    BY <1>0, <1>1, PutRow
<1> HIDE DEF new
<1>4. \A i \in 1..n + 1 : i = n + 1 \/ (i \in 1..n /\ i < n + 1)
    OBVIOUS
<1>5. \A i, j \in 1..n + 1 : i < j => i \in 1..n /\ (j \in 1..n \/ j = n + 1)
    OBVIOUS
<1>6. \A i \in 1..n : rows[i].range <= top /\ rows[i].range < top + w /\ rows[i].range <= top + w
  <2>1. \A i \in 1..n : rows[i].range <= top
    BY DEF Filled
  <2>2. \A r \in Nat : r <= top => r < top + w /\ r <= top + w
    OBVIOUS
  <2> QED BY <1>2, <2>1, <2>2
<1>7. \A i, j \in 1..n + 1 : i < j => new[i].range < new[j].range
  <2> SUFFICES ASSUME NEW i \in 1..n + 1, NEW j \in 1..n + 1, i < j PROVE new[i].range < new[j].range
    OBVIOUS
  <2>1. i \in 1..n /\ new[i] = rows[i]
    BY <1>3, <1>5
  <2>2. CASE j \in 1..n
    BY <1>3, <2>1, <2>2 DEF Filled, Drawable
  <2>3. CASE j = n + 1
    BY <1>1, <1>3, <1>6, <2>1, <2>3
  <2> QED BY <1>5, <2>2, <2>3
<1>8. \A i \in 1..n + 1 : new[i].range <= top + w
  <2>1. top + w <= top + w
    OBVIOUS
  <2> QED BY <1>1, <1>3, <1>4, <1>6, <2>1
<1>9. ASSUME ~Reregister PROVE \A i \in 1..n + 1 : Handled(new[i].minerid, proc + 1)
    BY <1>1, <1>2, <1>3, <1>4, <1>9, HandledLater DEF Filled
<1>10. ASSUME ~Reregister, NEW i \in 1..n + 1, NEW j \in 1..n + 1, i < j
       PROVE  new[i].minerid # new[j].minerid
  <2>1. i \in 1..n /\ new[i] = rows[i]
    BY <1>3, <1>5, <1>10
  <2>2. CASE j \in 1..n
    BY <1>3, <1>10, <2>1, <2>2 DEF Filled, Drawable
  <2>3. CASE j = n + 1
    <3>1. Handled(rows[i].minerid, proc)
      BY <1>10, <2>1 DEF Filled
    <3> QED BY <1>1, <1>3, <1>10, <2>1, <2>3, <3>1
  <2> QED BY <1>5, <1>10, <2>2, <2>3
<1>11. Filled(new, n + 1, top + w, proc + 1)
    BY <1>3, <1>7, <1>8, <1>9, <1>10 DEF Filled, Drawable
<1> QED BY <1>3, <1>11 DEF new, row

-----------------------------------------------------------------------------
(* onbuild. *)

LEMMA BuildFields ==
    ASSUME NEW b \in Build
    PROVE  /\ b.current \in 0..1 /\ 1 - b.current \in 0..1 /\ 1 - b.current # b.current
           /\ b.count \in [Kinds -> [0..1 -> Nat]]
           /\ b.job.proc \in Nat /\ b.job.proc # 0
           /\ b.job.range \in [Kinds -> Nat] /\ b.job.built \in [Kinds -> Nat]
           /\ b = [current |-> b.current, count |-> b.count, job |-> b.job]
           /\ b.job = [proc |-> b.job.proc, range |-> b.job.range, built |-> b.job.built]
<1>1. b.current \in 0..1
    BY DEF Build
<1>2. 1 - b.current \in 0..1 /\ 1 - b.current # b.current
    BY <1>1
<1> QED BY <1>1, <1>2 DEF Build

\* From sc and b to sc2 and b2 table k gets a row for miner m of weight w.
AddsMiner(sc, b, k, m, w, sc2, b2) ==
    /\ k \in Kinds /\ sc \in Scores /\ b \in Build /\ CopiesOK(sc, b, k)
    /\ m \in Miners /\ w \in Nat
    /\ Handled(m, b.job.proc + 1) /\ (Reregister \/ ~Handled(m, b.job.proc))
    /\ b2.current = b.current /\ b2.count[k] = b.count[k]
    /\ b2.job.proc = b.job.proc + 1 /\ b2.job.range[k] = b.job.range[k] + w
    /\ b2.job.built[k] = b.job.built[k] + (IF w > 0 THEN 1 ELSE 0)
    /\ sc2[k] = IF ~ (w > 0) THEN sc[k]
                ELSE [sc[k] EXCEPT ![1 - b.current] =
                        put(sc[k][1 - b.current], b.job.built[k] + 1,
                            [minerid |-> m, range |-> b.job.range[k] + w])]

Grown(sc, b, k, sc2, b2) ==
    /\ sc2[k] \in [0..1 -> Seq(Row)]
    /\ sc2[k][b.current] = sc[k][b.current]
    /\ CopiesOK(sc2, b2, k)

LEMMA CopyAfterMiner ==
    ASSUME IdsAreNumbers, NEW k, NEW sc, NEW b, NEW m, NEW w, NEW sc2, NEW b2,
           AddsMiner(sc, b, k, m, w, sc2, b2)
    PROVE  Grown(sc, b, k, sc2, b2)
<1>0. /\ k \in Kinds /\ sc \in Scores /\ b \in Build /\ CopiesOK(sc, b, k)
      /\ m \in Miners /\ w \in Nat
      /\ Handled(m, b.job.proc + 1) /\ (Reregister \/ ~Handled(m, b.job.proc))
    BY DEF AddsMiner
<1> DEFINE c == b.current
           o == 1 - b.current
           n == b.job.built[k]
           top == b.job.range[k]
           rows == sc[k][o]
           new == put(rows, n + 1, [minerid |-> m, range |-> top + w])
<1>1. /\ c \in 0..1 /\ o \in 0..1 /\ o # c /\ \A s \in 0..1 : s = c \/ s = o
      /\ n \in Nat /\ top \in Nat /\ b.job.proc \in Nat
  <2>1. c \in 0..1 /\ o \in 0..1 /\ o # c
    BY <1>0, BuildFields
  <2>2. \A s \in 0..1 : s = c \/ s = o
    BY <2>1
  <2>3. b.job.range \in [Kinds -> Nat] /\ b.job.built \in [Kinds -> Nat] /\ b.job.proc \in Nat
    BY <1>0, BuildFields
  <2> QED BY <1>0, <2>1, <2>2, <2>3
<1>2. sc[k] \in [0..1 -> Seq(Row)] /\ sc[k][c] \in Seq(Row) /\ rows \in Seq(Row)
  <2>1. sc[k] \in [0..1 -> Seq(Row)]
    BY <1>0 DEF Scores
  <2> QED BY <1>1, <2>1
<1>3. /\ \A s \in 0..1 : b.count[k][s] <= Len(sc[k][s])
      /\ Drawable(sc[k][c], b.count[k][c])
      /\ Filled(rows, n, top, b.job.proc)
    BY <1>0 DEF CopiesOK
<1>9. /\ b2.current = c /\ b2.count[k] = b.count[k]
      /\ b2.job.proc = b.job.proc + 1 /\ b2.job.range[k] = top + w
      /\ b2.job.built[k] = n + (IF w > 0 THEN 1 ELSE 0)
      /\ sc2[k] = IF ~ (w > 0) THEN sc[k] ELSE [sc[k] EXCEPT ![o] = new]
    BY DEF AddsMiner
<1>4. CASE ~ (w > 0)
  <2>1. w = 0
    BY <1>0, <1>4
  <2>2. sc2[k] = sc[k] /\ b2.job.built[k] = n /\ b2.job.range[k] = top + w
    BY <1>0, <1>1, <1>4, <1>9
  <2>3. Filled(rows, n, top + w, b.job.proc + 1)
    BY <1>0, <1>1, <1>2, <1>3, FilledStays
  <2> QED BY <1>2, <1>3, <1>9, <2>2, <2>3 DEF CopiesOK, Grown
<1>5. CASE w > 0
  <2>1. new \in Seq(Row) /\ Len(rows) <= Len(new) /\ Filled(new, n + 1, top + w, b.job.proc + 1)
    BY <1>0, <1>1, <1>2, <1>3, <1>5, FilledGrows
  <2>2. sc2[k] = [sc[k] EXCEPT ![o] = new]
    BY <1>5, <1>9
  <2> HIDE DEF new, o, c
  <2>3. sc2[k] \in [0..1 -> Seq(Row)] /\ sc2[k][c] = sc[k][c] /\ sc2[k][o] = new
    BY <1>1, <1>2, <2>1, <2>2
  <2>4. \A s \in 0..1 : b.count[k][s] <= Len(sc2[k][s])
    <3>1. b.count[k][c] <= Len(sc2[k][c])
      BY <1>1, <1>3, <2>3
    <3>2. b.count[k][o] <= Len(sc2[k][o])
      <4>0. b.count \in [Kinds -> [0..1 -> Nat]]
        BY <1>0, BuildFields
      <4>1. b.count[k][o] \in Nat
        BY <1>0, <1>1, <4>0
      <4>2. Len(rows) \in Nat /\ Len(new) \in Nat
        BY <1>2, <2>1
      <4>3. b.count[k][o] <= Len(rows)
        BY <1>1, <1>3
      <4>4. b.count[k][o] <= Len(new)
        BY <2>1, <4>1, <4>2, <4>3
      <4> QED BY <2>3, <4>4
    <3> QED BY <1>1, <3>1, <3>2
  <2>5. b2.job.built[k] = n + 1 /\ b2.job.range[k] = top + w
    BY <1>5, <1>9
  <2>6. Filled(sc2[k][o], b2.job.built[k], b2.job.range[k], b2.job.proc)
    BY <1>9, <2>1, <2>3, <2>5
  <2>7. Drawable(sc2[k][c], b2.count[k][c])
    BY <1>3, <1>9, <2>3
  <2> QED BY <1>9, <2>3, <2>4, <2>6, <2>7 DEF CopiesOK, Grown, c, o
<1> QED BY <1>4, <1>5

\* The round of a build: what has happened to the tables since it began.
InBatch ==
    {w \in [score : Scores, build : Build, done : BOOLEAN] :
        /\ BuildOK(w.score, w.build)
        /\ w.build.job.proc \in 1..Len(ids.table)
        /\ w.done => w.build.current = 1 - build.current
        /\ ~w.done => /\ w.build.current = build.current /\ w.build.count = build.count
                      /\ \A k \in Kinds : w.score[k][build.current] = score[k][build.current]}

\* The tables after the id that comes next, before they may be swapped.
AfterId(w, sc2, b2) ==
    /\ BuildOK(sc2, b2)
    /\ b2.current = w.build.current /\ b2.count = w.build.count
    /\ b2.job.proc = w.build.job.proc + 1
    /\ \A k \in Kinds : sc2[k][w.build.current] = w.score[k][w.build.current]

LEMMA NextIdFresh ==
    ASSUME PoolInv, GoneStays, NEW id \in DOMAIN ids.table,
           NEW m, m = ids.table[id].minerid, m # NoRow
    PROVE  /\ m \in Miners /\ miner[m] # NoRow /\ miner[m].id = id
           /\ Handled(m, id + 1) /\ (Reregister \/ ~Handled(m, id))
<1>1. ids.table \in Seq(IdRow)
    BY DEF PoolInv, IdsInv
<1>2. ids.table[id] \in IdRow /\ id \in Nat
    BY <1>1
<1>3. m \in Miners
    BY <1>2 DEF IdRow
<1>4. miner[m] # NoRow /\ miner[m].id = id
    BY DEF PoolInv, IdsInv
<1>5. minerinfo[m] # NoRow
    BY <1>3, <1>4 DEF PoolInv, RowsAgree, Agree
<1>6. ASSUME ~Reregister PROVE m \notin gone
    BY <1>5, <1>6 DEF GoneStays
<1>7. ~ (id < id) /\ id < id + 1
    BY <1>2
<1> QED BY <1>3, <1>4, <1>6, <1>7 DEF Handled

LEMMA PoolIds == PoolInv => IdsAreNumbers
<1> SUFFICES ASSUME PoolInv, NEW m \in Miners, miner[m] # NoRow PROVE miner[m].id \in Nat
    BY DEF IdsAreNumbers
<1>1. miner[m] \in Miner
    BY DEF PoolInv, Tables
<1> QED BY <1>1 DEF Miner

JobWith(b, r, u) == [b EXCEPT !.job.range = r, !.job.built = u]

LEMMA JobSet ==
    ASSUME NEW b, NEW r, NEW u,
           b = [current |-> b.current, count |-> b.count,
                job |-> [proc |-> b.job.proc, range |-> b.job.range, built |-> b.job.built]]
    PROVE  JobWith(b, r, u) =
               [current |-> b.current, count |-> b.count, job |-> [proc |-> b.job.proc, range |-> r, built |-> u]]
<1> DEFINE b1 == [current |-> b.current, count |-> b.count,
                  job |-> [proc |-> b.job.proc, range |-> r, built |-> b.job.built]]
<1>1. [b EXCEPT !.job.range = r] = b1
    OBVIOUS
<1>2. [b1 EXCEPT !.job.built = u] =
          [current |-> b.current, count |-> b.count, job |-> [proc |-> b.job.proc, range |-> r, built |-> u]]
    OBVIOUS
<1>3. [b EXCEPT !.job.range = r, !.job.built = u] = [[b EXCEPT !.job.range = r] EXCEPT !.job.built = u]
    OBVIOUS
<1> QED BY <1>1, <1>2, <1>3 DEF JobWith

LEMMA AfterMiner ==
    ASSUME PoolInv, GoneStays, NEW w \in InBatch, ~w.done, NEW id, id = w.build.job.proc,
           NEW m, m = ids.table[id].minerid, m # NoRow
    PROVE  AfterId(w, with_miner(w, m).score, [with_miner(w, m).build EXCEPT !.job.proc = id + 1])
<1> DEFINE b == w.build
           sc2 == with_miner(w, m).score
           b2 == [with_miner(w, m).build EXCEPT !.job.proc = id + 1]
           range(k) == b.job.range[k] + weight(k, m)
           built(k) == b.job.built[k] + (IF weight(k, m) > 0 THEN 1 ELSE 0)
<1>1. w.score \in Scores /\ b \in Build /\ BuildOK(w.score, b) /\ id \in 1..Len(ids.table)
    BY DEF InBatch
<1>2. id \in DOMAIN ids.table
    BY <1>1 DEF PoolInv, IdsInv
<1>3. /\ m \in Miners /\ miner[m] # NoRow
      /\ Handled(m, id + 1) /\ (Reregister \/ ~Handled(m, id))
    BY <1>2, NextIdFresh
<1>4. \A k \in Kinds : weight(k, m) \in Nat
    BY <1>3, WeightNat
<1>5. /\ b.job.range \in [Kinds -> Nat] /\ b.job.built \in [Kinds -> Nat]
      /\ b.job.proc \in Nat /\ id \in Nat
      /\ b = [current |-> b.current, count |-> b.count, job |-> b.job]
      /\ b.job = [proc |-> b.job.proc, range |-> b.job.range, built |-> b.job.built]
    BY <1>1, BuildFields
<1>6. b2 = [current |-> b.current, count |-> b.count,
            job |-> [proc |-> id + 1, range |-> [k \in Kinds |-> range(k)],
                     built |-> [k \in Kinds |-> built(k)]]]
  <2>1. with_miner(w, m).build =
          [b EXCEPT !.job.range = [k \in Kinds |-> range(k)],
                    !.job.built = [k \in Kinds |-> @[k] + (IF weight(k, m) > 0 THEN 1 ELSE 0)]]
    BY DEF with_miner
  <2> DEFINE r == [k \in Kinds |-> range(k)]
             u == [k \in Kinds |-> built(k)]
             e == with_miner(w, m).build
  <2>2. e = JobWith(b, r, u)
    BY <2>1 DEF JobWith
  <2>3. b = [current |-> b.current, count |-> b.count,
             job |-> [proc |-> b.job.proc, range |-> b.job.range, built |-> b.job.built]]
    BY <1>5
  <2> HIDE DEF b, r, u, e
  <2>4. e = [current |-> b.current, count |-> b.count,
             job |-> [proc |-> b.job.proc, range |-> r, built |-> u]]
    BY <2>2, <2>3, JobSet
  <2>5. [e EXCEPT !.job.proc = id + 1] =
            [current |-> b.current, count |-> b.count, job |-> [proc |-> id + 1, range |-> r, built |-> u]]
    BY <2>4
  <2> QED BY <2>5 DEF e, r, u
<1>7. sc2 = [k \in Kinds |-> IF ~ (weight(k, m) > 0) THEN w.score[k]
               ELSE [w.score[k] EXCEPT ![1 - b.current] =
                       put(@, b.job.built[k] + 1, [minerid |-> m, range |-> range(k)])]]
    BY DEF with_miner, written
<1>8. \A k \in Kinds : range(k) \in Nat /\ built(k) \in Nat
    BY <1>4, <1>5
<1>9. b2 \in Build
  <2>1. id + 1 \in Nat \ {0}
    BY <1>5
  <2>2. [k \in Kinds |-> range(k)] \in [Kinds -> Nat] /\ [k \in Kinds |-> built(k)] \in [Kinds -> Nat]
    BY <1>8
  <2>3. b.current \in 0..1 /\ b.count \in [Kinds -> [0..1 -> Nat]]
    BY <1>1, BuildFields
  <2> HIDE DEF b2, b, range, built
  <2> QED BY <1>6, <2>1, <2>2, <2>3 DEF Build
<1>10. /\ b2.current = b.current /\ b2.count = b.count /\ b2.job.proc = id + 1
       /\ \A k \in Kinds : b2.job.range[k] = range(k) /\ b2.job.built[k] = built(k)
  <2> HIDE DEF b2, b, range, built
  <2> QED BY <1>6
<1>11. \A k \in Kinds : sc2[k] = IF ~ (weight(k, m) > 0) THEN w.score[k]
               ELSE [w.score[k] EXCEPT ![1 - b.current] =
                       put(@, b.job.built[k] + 1, [minerid |-> m, range |-> range(k)])]
  <2> HIDE DEF sc2
  <2> QED BY <1>7
<1>12. sc2 = [k \in Kinds |-> sc2[k]]
  <2> HIDE DEF sc2
  <2> QED BY <1>7
<1> HIDE DEF sc2, b2
<1>13. ASSUME NEW k \in Kinds
       PROVE  sc2[k] \in [0..1 -> Seq(Row)] /\ sc2[k][b.current] = w.score[k][b.current] /\ CopiesOK(sc2, b2, k)
  <2>1. CopiesOK(w.score, b, k)
    BY <1>1 DEF BuildOK
  <2>2. IdsAreNumbers
    BY PoolIds
  <2>3. weight(k, m) \in Nat
    BY <1>4
  <2>4. AddsMiner(w.score, b, k, m, weight(k, m), sc2, b2)
    BY <1>1, <1>3, <1>10, <1>11, <2>1, <2>3 DEF AddsMiner
  <2>5. Grown(w.score, b, k, sc2, b2)
    <3> HIDE DEF b
    <3> QED BY <2>2, <2>4, CopyAfterMiner
  <2> QED BY <2>5 DEF Grown
<1>14. sc2 \in Scores
    BY <1>12, <1>13 DEF Scores
<1>15. AfterId(w, sc2, b2)
    BY <1>9, <1>10, <1>13, <1>14 DEF AfterId, BuildOK
<1> QED BY <1>15 DEF sc2, b2

LEMMA AfterNobody ==
    ASSUME PoolInv, NEW w \in InBatch, NEW id, id = w.build.job.proc
    PROVE  AfterId(w, w.score, [w.build EXCEPT !.job.proc = id + 1])
<1> DEFINE b == w.build
           b2 == [b EXCEPT !.job.proc = id + 1]
<1>1. w.score \in Scores /\ b \in Build /\ BuildOK(w.score, b)
    BY DEF InBatch
<1>2. /\ b.job.range \in [Kinds -> Nat] /\ b.job.built \in [Kinds -> Nat] /\ id \in Nat
      /\ b.current \in 0..1 /\ b.count \in [Kinds -> [0..1 -> Nat]] /\ 1 - b.current \in 0..1
      /\ b = [current |-> b.current, count |-> b.count, job |-> b.job]
      /\ b.job = [proc |-> b.job.proc, range |-> b.job.range, built |-> b.job.built]
    BY <1>1, BuildFields
<1>3. b2 = [current |-> b.current, count |-> b.count,
            job |-> [proc |-> id + 1, range |-> b.job.range, built |-> b.job.built]]
  <2> HIDE DEF b
  <2> QED BY <1>2
<1>4. id + 1 \in Nat \ {0}
    BY <1>2
<1> HIDE DEF b2
<1>5. b2 \in Build
  <2> HIDE DEF b
  <2> QED BY <1>2, <1>3, <1>4 DEF Build
<1>6. /\ b2.current = b.current /\ b2.count = b.count /\ b2.job.proc = id + 1
      /\ b2.job.range = b.job.range /\ b2.job.built = b.job.built
  <2> HIDE DEF b
  <2> QED BY <1>3
<1>7. ASSUME NEW k \in Kinds PROVE CopiesOK(w.score, b2, k)
  <2>1. CopiesOK(w.score, b, k)
    BY <1>1 DEF BuildOK
  <2>2. IdsAreNumbers
    BY PoolIds
  <2> DEFINE rows == w.score[k][1 - b.current]
  <2>3. rows \in Seq(Row) /\ b.job.built[k] \in Nat /\ b.job.range[k] \in Nat
    BY <1>1, <1>2 DEF Scores
  <2>4. Filled(rows, b.job.built[k], b.job.range[k], id)
    BY <2>1 DEF CopiesOK
  <2>5. Filled(rows, b.job.built[k], b.job.range[k] + 0, id + 1) /\ b.job.range[k] + 0 = b.job.range[k]
    <3>1. 0 \in Nat /\ b.job.range[k] + 0 = b.job.range[k]
      BY <2>3
    <3> HIDE DEF rows, b
    <3> QED BY <1>2, <2>2, <2>3, <2>4, <3>1, FilledStays
  <2>6. Filled(rows, b2.job.built[k], b2.job.range[k], b2.job.proc)
    BY <1>6, <2>5
  <2> QED BY <1>6, <2>1, <2>6 DEF CopiesOK
<1>8. AfterId(w, w.score, b2)
    BY <1>1, <1>5, <1>6, <1>7 DEF AfterId, BuildOK
<1> QED BY <1>8 DEF b2

LEMMA SwappedKeeps ==
    ASSUME NEW sc, NEW b, BuildOK(sc, b)
    PROVE  /\ BuildOK(sc, swapped(b)) /\ swapped(b) \in Build
           /\ swapped(b).current = 1 - b.current /\ swapped(b).job.proc = 1
<1> DEFINE t == swapped(b)
           o == 1 - b.current
<1>1. sc \in Scores /\ b \in Build
    BY DEF BuildOK
<1>2. /\ b.current \in 0..1 /\ o \in 0..1 /\ o # b.current
      /\ b.count \in [Kinds -> [0..1 -> Nat]] /\ b.job.built \in [Kinds -> Nat]
    BY <1>1, BuildFields
<1>3. 1 - o = b.current /\ \A s \in 0..1 : s = o \/ s = b.current
  <2> DEFINE c == b.current
  <2>1. c \in 0..1
    BY <1>2
  <2> HIDE DEF c
  <2>2. 1 - (1 - c) = c /\ \A s \in 0..1 : s = 1 - c \/ s = c
    BY <2>1
  <2> QED BY <2>2 DEF c
<1>4. t = [current |-> o, count |-> [k \in Kinds |-> [b.count[k] EXCEPT ![o] = b.job.built[k]]],
           job |-> NewBuild]
    BY DEF swapped
<1>5. /\ t.current = o /\ t.job = NewBuild
      /\ \A k \in Kinds : t.count[k] = [b.count[k] EXCEPT ![o] = b.job.built[k]]
  <2> HIDE DEF t, o
  <2> QED BY <1>4
<1>6. NewBuild \in [proc : Nat \ {0}, range : [Kinds -> Nat], built : [Kinds -> Nat]]
    BY DEF NewBuild
<1>7. /\ NewBuild.proc = 1
      /\ \A k \in Kinds : NewBuild.built[k] = 0 /\ NewBuild.range[k] = 0
    BY DEF NewBuild
<1> HIDE DEF o
<1>8. [k \in Kinds |-> [b.count[k] EXCEPT ![o] = b.job.built[k]]] \in [Kinds -> [0..1 -> Nat]]
    BY <1>2
<1>9. t \in Build
  <2> HIDE DEF t, NewBuild
  <2> QED BY <1>2, <1>4, <1>6, <1>8 DEF Build
<1> HIDE DEF t
<1>10. ASSUME NEW k \in Kinds PROVE CopiesOK(sc, t, k)
  <2>1. CopiesOK(sc, b, k)
    BY DEF BuildOK
  <2>2. Filled(sc[k][o], b.job.built[k], b.job.range[k], b.job.proc)
    BY <2>1 DEF CopiesOK, o
  <2>3. Drawable(sc[k][o], b.job.built[k]) /\ b.job.built[k] <= Len(sc[k][o])
    BY <2>2 DEF Filled, Drawable
  <2>4. t.count[k][o] = b.job.built[k] /\ t.count[k][b.current] = b.count[k][b.current]
    <3>1. b.count[k] \in [0..1 -> Nat]
      BY <1>2
    <3> QED BY <1>2, <1>5, <3>1
  <2>5. b.count[k][b.current] <= Len(sc[k][b.current])
    BY <1>2, <2>1 DEF CopiesOK
  <2>6. \A s \in 0..1 : t.count[k][s] <= Len(sc[k][s])
    BY <1>3, <2>3, <2>4, <2>5
  <2>7. Filled(sc[k][b.current], 0, 0, 1)
    <3>1. sc[k][b.current] \in Seq(Row)
      BY <1>1, <1>2 DEF Scores
    <3>2. 0 <= Len(sc[k][b.current]) /\ 1..0 = {}
      BY <3>1
    <3> QED BY <3>2 DEF Filled, Drawable
  <2> QED BY <1>3, <1>5, <1>7, <2>3, <2>4, <2>6, <2>7 DEF CopiesOK
<1> QED BY <1>1, <1>5, <1>7, <1>9, <1>10 DEF BuildOK, t, o

LEMMA BuildOneKeeps ==
    ASSUME PoolInv, GoneStays, build \in Build, NEW w \in InBatch, ~w.done
    PROVE  build_one(w) \in InBatch
<1> DEFINE id == w.build.job.proc
           m == ids.table[id].minerid
           takes == m # NoRow /\ eligible(m)
           sc2 == IF takes THEN with_miner(w, m).score ELSE w.score
           b2 == IF takes THEN [with_miner(w, m).build EXCEPT !.job.proc = id + 1]
                 ELSE [w.build EXCEPT !.job.proc = id + 1]
           done == id + 1 > Len(ids.table)
           r == [score |-> sc2, build |-> IF done THEN swapped(b2) ELSE b2, done |-> done]
<1>1. build_one(w) = r
  <2>1. with_miner(w, m) = [score |-> with_miner(w, m).score, build |-> with_miner(w, m).build]
    BY DEF with_miner
  <2>2. CASE takes
    BY <2>1, <2>2 DEF build_one, built_all
  <2>3. CASE ~takes
    BY <2>3 DEF build_one, built_all
  <2> QED BY <2>2, <2>3
<1>2. AfterId(w, sc2, b2)
  <2>1. CASE takes
    BY <2>1, AfterMiner
  <2>2. CASE ~takes
    BY <2>2, AfterNobody
  <2> QED BY <2>1, <2>2
<1> HIDE DEF sc2, b2, takes
<1>3. /\ BuildOK(sc2, b2) /\ sc2 \in Scores /\ b2 \in Build
      /\ b2.current = build.current /\ b2.count = build.count /\ b2.job.proc = id + 1
      /\ \A k \in Kinds : sc2[k][build.current] = score[k][build.current]
  <2>1. /\ w.build.current = build.current /\ w.build.count = build.count
        /\ \A k \in Kinds : w.score[k][build.current] = score[k][build.current]
    BY DEF InBatch
  <2> QED BY <1>2, <2>1 DEF AfterId, BuildOK
<1>4. id \in 1..Len(ids.table) /\ Len(ids.table) \in Nat
    BY DEF InBatch, PoolInv, IdsInv
<1>5. CASE done
  <2> DEFINE t == swapped(b2)
  <2>1. /\ BuildOK(sc2, t) /\ t \in Build /\ t.current = 1 - b2.current /\ t.job.proc = 1
    BY <1>3, SwappedKeeps
  <2>2. r = [score |-> sc2, build |-> t, done |-> TRUE]
    BY <1>5
  <2> HIDE DEF t, r
  <2>3. r.score = sc2 /\ r.build = t /\ r.done = TRUE
    BY <2>2
  <2>4. r \in [score : Scores, build : Build, done : BOOLEAN]
    BY <1>3, <2>1, <2>2
  <2>5. 1 \in 1..Len(ids.table)
    BY <1>4
  <2>6. r \in InBatch
    BY <1>3, <2>1, <2>3, <2>4, <2>5 DEF InBatch
  <2> QED BY <1>1, <2>6
<1>6. CASE ~done
  <2>1. done = FALSE
    BY <1>6
  <2>2. r = [score |-> sc2, build |-> b2, done |-> FALSE]
    BY <2>1, Zenon
  <2>5. id + 1 \in 1..Len(ids.table)
    BY <1>4, <1>6
  <2> HIDE DEF r
  <2>3. r.score = sc2 /\ r.build = b2 /\ r.done = FALSE
    BY <2>2
  <2>4. r \in [score : Scores, build : Build, done : BOOLEAN]
    BY <1>3, <2>2
  <2>6. r \in InBatch
    BY <1>3, <2>3, <2>4, <2>5 DEF InBatch
  <2> QED BY <1>1, <2>6
<1> QED BY <1>5, <1>6

LEMMA BatchKeeps ==
    ASSUME RewardInv, ids.table # <<>>
    PROVE  batch[BuildBatch] \in InBatch
<1> DEFINE start == [score |-> score, build |-> build, done |-> FALSE]
           one(d) == IF d.done THEN d ELSE build_one(d)
           Eq(f) == f = [n \in 0..BuildBatch |->
                           IF n = 0 THEN start ELSE IF f[n - 1].done THEN f[n - 1] ELSE build_one(f[n - 1])]
           D == [n \in 0..BuildBatch |-> InBatch]
           g == [n \in 1..BuildBatch |-> [d \in InBatch |-> one(d)]]
<1>0. BuildBatch \in Nat /\ BuildBatch > 0
    BY RewardAssumption
<1>1. PoolInv /\ GoneStays /\ BuildOK(score, build) /\ score \in Scores /\ build \in Build
    BY DEF RewardInv, BuildOK
<1>2. start \in InBatch
  <2>1. start \in [score : Scores, build : Build, done : BOOLEAN]
    BY <1>1
  <2>2. start.score = score /\ start.build = build /\ start.done = FALSE
    OBVIOUS
  <2>3. build.job.proc \in 1..Len(ids.table)
    <3>1. Len(ids.table) \in Nat /\ Len(ids.table) > 0
      BY <1>1 DEF PoolInv, IdsInv
    <3>2. build.job.proc \in Nat /\ build.job.proc # 0
      BY <1>1, BuildFields
    <3>3. build.job.proc = 1 \/ build.job.proc <= Len(ids.table)
      BY DEF RewardInv
    <3> QED BY <3>1, <3>2, <3>3
  <2> HIDE DEF start
  <2> QED BY <1>1, <2>1, <2>2, <2>3 DEF InBatch
<1> HIDE DEF start
<1>3. \A d \in InBatch : one(d) \in InBatch
    BY <1>1, BuildOneKeeps
<1>4. \A n \in 0..BuildBatch : D[n] = InBatch
    OBVIOUS
<1>5. \A n \in 1..BuildBatch : n - 1 \in 0..BuildBatch /\ n \in 0..BuildBatch /\ n # 0
    BY <1>0
<1>6. \A n \in 1..BuildBatch : \A d \in InBatch : g[n][d] = one(d)
    OBVIOUS
<1> HIDE DEF D, g, one
<1>7. \A n \in 1..BuildBatch : \A d \in D[n - 1] : g[n][d] \in D[n]
    BY <1>3, <1>4, <1>5, <1>6
<1>8. start \in D[0]
    BY <1>0, <1>2, <1>4
<1>9. PICK f : Rounds(f, BuildBatch, D, start, g)
    BY <1>0, <1>7, <1>8, RoundsExist
<1>10. /\ f = [n \in 0..BuildBatch |-> f[n]]
       /\ f[0] = start /\ \A n \in 1..BuildBatch : f[n] = g[n][f[n - 1]]
       /\ \A n \in 0..BuildBatch : f[n] \in D[n]
    BY <1>9 DEF Rounds
<1>11. \A n \in 0..BuildBatch : f[n] = IF n = 0 THEN start ELSE one(f[n - 1])
  <2>1. \A n \in 0..BuildBatch : n = 0 \/ n \in 1..BuildBatch
    BY <1>0
  <2> QED BY <1>4, <1>5, <1>6, <1>10, <2>1
<1>12. Eq(f)
    BY <1>10, <1>11 DEF one
<1>13. \A h : Eq(h) => h[BuildBatch] \in InBatch
  <2> SUFFICES ASSUME NEW h, Eq(h) PROVE h[BuildBatch] \in InBatch
    OBVIOUS
  <2>1. h[0] = start /\ \A n \in 1..BuildBatch : h[n] = one(h[n - 1])
    <3>1. 0 \in 0..BuildBatch
      BY <1>0
    <3> QED BY <1>5, <3>1 DEF one
  <2> HIDE DEF Eq
  <2>2. h[0] \in D[0] /\ \A n \in 1..BuildBatch : h[n - 1] \in D[n - 1] => h[n] \in D[n]
    BY <1>3, <1>4, <1>5, <1>8, <2>1
  <2>3. \A n \in 0..BuildBatch : h[n] \in D[n]
    BY <1>0, <2>2, RoundsKeep
  <2>4. BuildBatch \in 0..BuildBatch
    BY <1>0
  <2> QED BY <1>4, <2>3, <2>4
<1>14. batch = CHOOSE h : Eq(h)
    BY DEF batch, start
<1> HIDE DEF Eq
<1> QED BY <1>12, <1>13, <1>14

LEMMA OnbuildKeeps ==
    ASSUME RewardInv, onbuild
    PROVE  RewardInv'
<1> DEFINE w == batch[BuildBatch]
<1>1. w \in InBatch
    BY BatchKeeps DEF onbuild
<1>2. score' = w.score /\ build' = w.build
    BY DEF onbuild
<1>3. UNCHANGED <<reward_type, pending, gone, changes, allPool>>
    BY DEF onbuild
<1>4. UNCHANGED <<storepool, minerinfo, maccount, owner_space, miner, ids, total_space>>
    BY <1>3 DEF allPool, poolVars
<1> HIDE DEF w
<1>5. BuildOK(w.score, w.build) /\ w.build.job.proc \in 1..Len(ids.table)
    BY <1>1 DEF InBatch
<1>6. PoolInv'
    BY <1>4, PoolStutter DEF RewardInv, poolVars
<1>7. BuildOK(score, build)'
    BY <1>2, <1>3, <1>4, <1>5 DEF BuildOK, CopiesOK, Filled, Handled
<1>8. GoneStays' /\ Payments'
    BY <1>3, <1>4 DEF RewardInv, GoneStays, Payments
<1>9. (build.job.proc = 1 \/ build.job.proc <= Len(ids.table))'
  <2>1. Len(ids.table) \in Nat
    BY DEF RewardInv, PoolInv, IdsInv
  <2> QED BY <1>2, <1>4, <1>5, <2>1
<1> QED BY <1>6, <1>7, <1>8, <1>9 DEF RewardInv

-----------------------------------------------------------------------------
(* The other actions. *)

\* The rows a reward is drawn from.
LEMMA CurrentRows ==
    ASSUME RewardInv, NEW k \in Kinds
    PROVE  /\ current_rows(k) \in Seq(Row) /\ Increasing(current_rows(k))
           /\ ~Reregister => \A i, j \in 1..Len(current_rows(k)) :
                i < j => current_rows(k)[i].minerid # current_rows(k)[j].minerid
<1> DEFINE c == build.current
           all == score[k][c]
           n == build.count[k][c]
           rows == current_rows(k)
<1>1. build \in Build /\ score \in Scores /\ Drawable(all, n)
    BY DEF RewardInv, BuildOK, CopiesOK
<1>2. c \in 0..1 /\ build.count \in [Kinds -> [0..1 -> Nat]]
    BY <1>1, BuildFields
<1>3. all \in Seq(Row) /\ n \in Nat
    BY <1>1, <1>2 DEF Scores
<1>4. n <= Len(all)
    BY <1>1 DEF Drawable
<1>5. rows = SubSeq(all, 1, n)
    BY DEF current_rows
<1> HIDE DEF all, n, rows, c
<1>6. rows \in Seq(Row) /\ Len(rows) = n /\ \A i \in 1..n : rows[i] = all[i]
  <2>1. Len(all) \in Nat
    BY <1>3
  <2>2. \A i \in 1..n : i \in 1..Len(all)
    BY <1>3, <1>4, <2>1
  <2>3. SubSeq(all, 1, n) = [i \in 1..n |-> all[i]]
    BY <1>3, <1>4, <2>1
  <2>4. [i \in 1..n |-> all[i]] \in Seq(Row) /\ Len([i \in 1..n |-> all[i]]) = n
    BY <1>3, <2>2
  <2> QED BY <1>5, <2>3, <2>4
<1> QED BY <1>1, <1>6 DEF Drawable, Increasing, rows

LEMMA OnrewardKeeps ==
    ASSUME RewardInv, onreward
    PROVE  RewardInv'
<1> DEFINE rows == current_rows(reward_type)
<1>1. reward_type \in Kinds /\ pending \subseteq [minerid : Miners, kind : Kinds]
    BY DEF RewardInv, Payments
<1>2. rows \in Seq(Row)
    BY <1>1, CurrentRows
<1>3. reward_type' \in Kinds
    BY <1>1 DEF onreward, Kinds
<1>4. UNCHANGED <<score, build, gone, changes, allPool>>
    BY DEF onreward
<1>5. pending' \subseteq [minerid : Miners, kind : Kinds]
  <2>1. CASE UNCHANGED pending
    BY <1>1, <2>1
  <2>2. CASE rows # <<>> /\ \E sel \in 1..rows[Len(rows)].range :
               LET row == drawn(rows, sel) IN
               pending' = IF row = 0 THEN pending
                          ELSE pending \cup {[minerid |-> rows[row].minerid, kind |-> reward_type]}
    <3>1. PICK sel \in 1..rows[Len(rows)].range :
               pending' = IF drawn(rows, sel) = 0 THEN pending
                          ELSE pending \cup {[minerid |-> rows[drawn(rows, sel)].minerid, kind |-> reward_type]}
      BY <2>2
    <3>2. rows[Len(rows)].range \in Nat
      <4>1. Len(rows) \in DOMAIN rows
        BY <1>2, <2>2
      <4>2. rows[Len(rows)] \in Row
        BY <1>2, <4>1
      <4> QED BY <4>2 DEF Row
    <3>3. sel \in Nat
      BY <3>2
    <3> HIDE DEF rows
    <3>4. drawn(rows, sel) # 0 => rows[drawn(rows, sel)].minerid \in Miners
      <4>1. drawn(rows, sel) # 0 => drawn(rows, sel) \in DOMAIN rows
        BY <1>2, <3>3, DrawnInTable
      <4>2. \A i \in DOMAIN rows : rows[i] \in Row
        BY <1>2
      <4> QED BY <4>1, <4>2 DEF Row
    <3> QED BY <1>1, <3>1, <3>4
  <2> QED BY <2>1, <2>2 DEF onreward
<1>6. UNCHANGED <<storepool, minerinfo, maccount, owner_space, miner, ids, total_space>>
    BY <1>4 DEF allPool, poolVars
<1>7. PoolInv'
    BY <1>6, PoolStutter DEF RewardInv, poolVars
<1>8. BuildOK(score, build)' /\ GoneStays'
    BY <1>4, <1>6 DEF RewardInv, BuildOK, CopiesOK, Filled, Handled, GoneStays
<1> QED BY <1>3, <1>4, <1>5, <1>6, <1>7, <1>8 DEF RewardInv, Payments

LEMMA RewardStutter ==
    ASSUME RewardInv, UNCHANGED <<score, build, reward_type, gone, poolVars>>, pending' \subseteq pending
    PROVE  RewardInv'
<1>1. UNCHANGED <<storepool, minerinfo, maccount, owner_space, miner, ids, total_space>>
    BY DEF poolVars
<1>2. PoolInv'
    BY PoolStutter DEF RewardInv
<1>3. BuildOK(score, build)' /\ GoneStays' /\ Payments'
    BY <1>1 DEF RewardInv, BuildOK, CopiesOK, Filled, Handled, GoneStays, Payments
<1> QED BY <1>1, <1>2, <1>3 DEF RewardInv

\* No change of a miner shortens the table of ids or gives a miner another id: its
\* row stays where it is until the miner is deleted.
IdsStay ==
    /\ Len(ids.table) <= Len(ids'.table)
    /\ \A m \in InTable : \/ ids'.table[miner[m].id].minerid = m
                          \/ minerinfo[m] # NoRow /\ minerinfo'[m] = NoRow

LEMMA IdsStaySame ==
    ASSUME IdsInv, ids' = ids
    PROVE  IdsStay
<1>1. Len(ids.table) <= Len(ids.table)
    BY DEF IdsInv
<1> QED BY <1>1 DEF IdsInv, IdsStay

LEMMA IdsStayInsert ==
    ASSUME IdsInv, NEW m \in Miners, ids' = insert_miner2(m)
    PROVE  IdsStay
<1> DEFINE table == ids.table
           next == ids.next
           new == [minerid |-> m, next_id |-> 0]
<1>1. table \in Seq(IdRow) /\ WalkExists(table, next) /\ NoRow \notin Miners /\ Len(table) \in Nat
    BY IdRows
<1>2. \A x \in InTable : miner[x].id \in DOMAIN table /\ table[miner[x].id].minerid = x /\ x # NoRow
    BY <1>1 DEF IdsInv, InTable
<1>3. new \in IdRow
    BY DEF IdRow
<1> HIDE DEF new
<1>4. CASE next = Len(table) + 1
  <2>1. ids'.table = Append(table, new)
    BY <1>4 DEF insert_miner2, new
  <2> HIDE DEF table
  <2>2. /\ Len(Append(table, new)) = Len(table) + 1
        /\ \A i \in DOMAIN table : Append(table, new)[i] = table[i]
    BY <1>1, <1>3
  <2>3. Len(table) <= Len(ids'.table)
    BY <1>1, <2>1, <2>2
  <2> QED BY <1>2, <2>1, <2>2, <2>3 DEF IdsStay, table
<1>5. CASE next # Len(table) + 1
  <2>1. next \in FreeOf(table)
    BY <1>1, <1>5, WalkHead
  <2>2. next \in DOMAIN table /\ table[next].minerid = NoRow
    BY <2>1 DEF FreeOf
  <2>3. ids'.table = [table EXCEPT ![next] = new]
    BY <1>5 DEF insert_miner2, new
  <2> HIDE DEF table, next
  <2>4. /\ Len([table EXCEPT ![next] = new]) = Len(table) /\ Len(table) <= Len(table)
        /\ \A i \in DOMAIN table : i # next => [table EXCEPT ![next] = new][i] = table[i]
    BY <1>1, <1>3, <2>2
  <2>5. \A x \in InTable : miner[x].id # next
    BY <1>2, <2>2
  <2> QED BY <1>2, <2>3, <2>4, <2>5 DEF IdsStay, table
<1> QED BY <1>4, <1>5

LEMMA IdsStayDelete ==
    ASSUME IdsInv, NEW m \in Miners, minerinfo[m] # NoRow, minerinfo'[m] = NoRow, miner[m] # NoRow,
           ids' = del_miner2(miner[m].id)
    PROVE  IdsStay
<1> DEFINE table == ids.table
           id == miner[m].id
           new == [minerid |-> NoRow, next_id |-> ids.next]
<1>1. table \in Seq(IdRow) /\ Len(table) \in Nat /\ ids.next \in Nat
    BY IdRows
<1>2. \A x \in InTable : miner[x].id \in DOMAIN table /\ table[miner[x].id].minerid = x
    BY DEF IdsInv
<1>3. id \in DOMAIN table /\ table[id].minerid = m
    BY <1>2 DEF InTable
<1>4. new \in IdRow
    BY <1>1 DEF IdRow
<1>5. ids'.table = [table EXCEPT ![id] = new]
    BY DEF del_miner2
<1> HIDE DEF new, table, id
<1>6. /\ Len([table EXCEPT ![id] = new]) = Len(table) /\ Len(table) <= Len(table)
      /\ \A i \in DOMAIN table : i # id => [table EXCEPT ![id] = new][i] = table[i]
    BY <1>1, <1>3, <1>4
<1>7. \A x \in InTable : x # m => miner[x].id # id
    BY <1>2, <1>3
<1> QED BY <1>2, <1>5, <1>6, <1>7 DEF IdsStay, table

LEMMA PoolActionsKeepIds ==
    ASSUME PoolInv, HddPoolActions
    PROVE  IdsStay
<1>0. IdsInv
    BY DEF PoolInv
<1>1. CASE \/ \E p \in Pools, u \in Users : regstrpool(p, u)
           \/ \E p \in Pools : delstrpool(p) \/ \E s \in Spaces : chgpoolspace(p, s)
    BY <1>0, <1>1, IdsStaySame DEF regstrpool, delstrpool, chgpoolspace
<1>2. CASE \E m \in Miners, u \in Users, p \in Pools, o \in Owners, s \in Spaces :
             \E q \in Amounts \cup {calc_deposit(s)} : regminer(m, u, p, o, s, q)
    BY <1>0, <1>2, IdsStayInsert DEF regminer
<1>3. CASE \E m \in Miners, s \in Spaces \cup {0} :
             \E q \in Amounts \cup {get_miner_forfeit(m) + calc_deposit(s)} : mincdeposit(m, s, q)
    BY <1>0, <1>3, IdsStaySame DEF mincdeposit
<1>4. CASE \E m \in Miners : oldsync(m) \/ delminer(m) \/ mdeactive(m) \/ mactive(m)
  <2>1. PICK m \in Miners : oldsync(m) \/ delminer(m) \/ mdeactive(m) \/ mactive(m)
    BY <1>4
  <2>2. CASE oldsync(m)
    BY <1>0, <2>2, IdsStayInsert DEF oldsync
  <2>3. CASE delminer(m)
    <3>1. /\ minerinfo[m] # NoRow /\ minerinfo' = [minerinfo EXCEPT ![m] = NoRow]
          /\ ids' = IF miner[m] = NoRow THEN ids ELSE del_miner2(miner[m].id)
      BY <2>3 DEF delminer
    <3>2. minerinfo'[m] = NoRow
      BY <3>1 DEF PoolInv, Tables
    <3> QED BY <1>0, <3>1, <3>2, IdsStaySame, IdsStayDelete
  <2>4. CASE mdeactive(m) \/ mactive(m)
    BY <1>0, <2>4, IdsStaySame DEF mdeactive, mactive
  <2> QED BY <2>1, <2>2, <2>3, <2>4
<1>5. CASE \E m \in Miners, s \in ProfitSpaces : addmprofit(m, s) \/ submprofit(m, s)
    BY <1>0, <1>5, IdsStaySame DEF addmprofit, submprofit
<1>6. CASE \E m \in Miners, s \in RealSpaces : mrspace(m, s)
    BY <1>0, <1>6, IdsStaySame DEF mrspace
<1>7. CASE \E m \in Miners, p \in Pools : mchgstrpool(m, p)
    BY <1>0, <1>7, IdsStaySame DEF mchgstrpool
<1>8. CASE \E m \in Miners, o \in Owners : mchgowneracc(m, o)
    BY <1>0, <1>8, IdsStaySame DEF mchgowneracc
<1>9. CASE \E m \in Miners, l \in Levels : mlevel(m, l)
    BY <1>0, <1>9, IdsStaySame DEF mlevel
<1> QED BY <1>1, <1>2, <1>3, <1>4, <1>5, <1>6, <1>7, <1>8, <1>9 DEF HddPoolActions

LEMMA MinerChangesKeep ==
    ASSUME RewardInv, MinerChanges
    PROVE  RewardInv'
<1>0. PoolInv /\ build \in Build /\ score \in Scores
    BY DEF RewardInv, BuildOK
<1>1. PoolInv'
    BY <1>0, PoolStep DEF MinerChanges, PoolNext
<1>2. IdsStay
    BY <1>0, PoolActionsKeepIds DEF MinerChanges
<1>3. UNCHANGED <<score, build, reward_type, pending>>
    BY DEF MinerChanges, rewardVars
<1>4. gone' = gone \cup {m \in Miners : minerinfo[m] # NoRow /\ minerinfo'[m] = NoRow}
    BY DEF MinerChanges
<1>5. GoneStays'
    BY <1>4 DEF MinerChanges, GoneStays
<1>6. Len(ids.table) \in Nat /\ Len(ids'.table) \in Nat
      /\ DOMAIN ids.table = 1..Len(ids.table) /\ DOMAIN ids'.table = 1..Len(ids'.table)
    BY <1>0, <1>1 DEF PoolInv, IdsInv
<1>7. \A i \in DOMAIN ids.table : i \in DOMAIN ids'.table
    BY <1>2, <1>6 DEF IdsStay
<1>8. NoRow \notin Miners
    BY NoRowAssumption
<1>9. ASSUME NEW m \in Miners, NEW proc, Handled(m, proc)
      PROVE  m \in gone' \/ (miner'[m] # NoRow /\ miner'[m].id < proc)
  <2>1. CASE m \in gone
    BY <1>4, <2>1
  <2>2. CASE miner[m] # NoRow /\ miner[m].id < proc
    <3>1. m \in InTable /\ miner[m].id \in DOMAIN ids.table
      BY <1>0, <2>2 DEF PoolInv, IdsInv, InTable
    <3>2. CASE ids'.table[miner[m].id].minerid = m
      <4>1. miner[m].id \in DOMAIN ids'.table
        BY <1>7, <3>1
      <4>2. miner'[m] # NoRow /\ miner'[m].id = miner[m].id
        BY <1>1, <1>8, <3>2, <4>1 DEF PoolInv, IdsInv
      <4> QED BY <2>2, <4>2
    <3>3. CASE minerinfo[m] # NoRow /\ minerinfo'[m] = NoRow
      BY <1>4, <3>3
    <3> QED BY <1>2, <3>1, <3>2, <3>3 DEF IdsStay
  <2> QED BY <1>9, <2>1, <2>2 DEF Handled
<1>10. ASSUME NEW k \in Kinds PROVE CopiesOK(score, build, k)'
  <2> DEFINE rows == score[k][1 - build.current]
             n == build.job.built[k]
             proc == build.job.proc
  <2>1. CopiesOK(score, build, k)
    BY DEF RewardInv, BuildOK
  <2>2. Filled(rows, n, build.job.range[k], proc)
    BY <2>1 DEF CopiesOK
  <2>3. 1 - build.current \in 0..1 /\ build.job.built \in [Kinds -> Nat]
    BY <1>0, BuildFields
  <2>4. rows \in Seq(Row) /\ n \in Nat
    BY <1>0, <2>3 DEF Scores
  <2>5. \A i \in 1..n : rows[i].minerid \in Miners
    <3>1. n <= Len(rows) /\ Len(rows) \in Nat
      BY <2>2, <2>4 DEF Filled, Drawable
    <3> HIDE DEF rows, n
    <3>2. \A i \in 1..n : rows[i] \in Row
      BY <2>4, <3>1
    <3> QED BY <3>2 DEF Row
  <2>6. ~Reregister => \A i \in 1..n : rows[i].minerid \in gone'
                         \/ (miner'[rows[i].minerid] # NoRow /\ miner'[rows[i].minerid].id < proc)
    BY <1>9, <2>2, <2>5 DEF Filled
  <2>7. (Filled(rows, n, build.job.range[k], proc))'
    BY <1>3, <2>2, <2>6 DEF Filled, Handled
  <2> QED BY <1>3, <2>1, <2>7 DEF CopiesOK
<1>11. BuildOK(score, build)'
    BY <1>0, <1>3, <1>10 DEF BuildOK
<1>12. (build.job.proc = 1 \/ build.job.proc <= Len(ids.table))'
  <2>1. build.job.proc \in Nat
    BY <1>0, BuildFields
  <2>2. build.job.proc = 1 \/ build.job.proc <= Len(ids.table)
    BY DEF RewardInv
  <2> QED BY <1>2, <1>3, <1>6, <2>1, <2>2 DEF IdsStay
<1>13. Payments'
    BY <1>3 DEF RewardInv, Payments
<1> QED BY <1>1, <1>5, <1>11, <1>12, <1>13 DEF RewardInv

-----------------------------------------------------------------------------
(* The theorems. *)

LEMMA RewardInitInv == RewardInit => RewardInv
<1> SUFFICES ASSUME RewardInit PROVE RewardInv
    OBVIOUS
<1>1. PoolInv
    BY PoolInitInv DEF RewardInit
<1>2. /\ score = [k \in Kinds |-> [s \in 0..1 |-> <<>>]]
      /\ build = [current |-> 0, count |-> [k \in Kinds |-> [s \in 0..1 |-> 0]], job |-> NewBuild]
      /\ reward_type = 1 /\ pending = {} /\ gone = {}
    BY DEF RewardInit
<1>3. <<>> \in Seq(Row) /\ Len(<<>>) = 0
    OBVIOUS
<1>4. score \in Scores /\ \A k \in Kinds : \A s \in 0..1 : score[k][s] = <<>>
    BY <1>2, <1>3 DEF Scores
<1>5. NewBuild \in [proc : Nat \ {0}, range : [Kinds -> Nat], built : [Kinds -> Nat]]
      /\ NewBuild.proc = 1 /\ \A k \in Kinds : NewBuild.built[k] = 0 /\ NewBuild.range[k] = 0
    BY DEF NewBuild
<1>6. [k \in Kinds |-> [s \in 0..1 |-> 0]] \in [Kinds -> [0..1 -> Nat]]
    OBVIOUS
<1>7. /\ build \in Build /\ build.current = 0 /\ build.job = NewBuild
      /\ \A k \in Kinds : \A s \in 0..1 : build.count[k][s] = 0
  <2>1. 0 \in 0..1
    OBVIOUS
  <2> QED BY <1>2, <1>5, <1>6, <2>1 DEF Build
<1>8. Filled(<<>>, 0, 0, 1) /\ Drawable(<<>>, 0)
  <2>1. 0 <= Len(<<>>) /\ 1..0 = {}
    BY <1>3
  <2> QED BY <2>1 DEF Filled, Drawable
<1>9. ASSUME NEW k \in Kinds PROVE CopiesOK(score, build, k)
  <2>1. 0 \in 0..1 /\ 1 - 0 = 1 /\ 1 \in 0..1 /\ 0 <= 0
    OBVIOUS
  <2> QED BY <1>3, <1>4, <1>5, <1>7, <1>8, <2>1 DEF CopiesOK
<1>10. GoneStays /\ Payments
  <2>1. 1 \in Kinds
    BY DEF Kinds
  <2> QED BY <1>2, <2>1 DEF GoneStays, Payments
<1> QED BY <1>1, <1>4, <1>5, <1>7, <1>9, <1>10 DEF RewardInv, BuildOK

LEMMA RewardStep == RewardInv /\ [RewardNext]_allRewards => RewardInv'
<1> SUFFICES ASSUME RewardInv, [RewardNext]_allRewards PROVE RewardInv'
    OBVIOUS
<1>1. CASE onbuild
    BY <1>1, OnbuildKeeps
<1>2. CASE onreward
    BY <1>2, OnrewardKeeps
<1>3. CASE \E e \in pending : payrewardnew(e)
  <2>1. UNCHANGED <<score, build, reward_type, gone, poolVars>> /\ pending' \subseteq pending
    BY <1>3 DEF payrewardnew
  <2> QED BY <2>1, RewardStutter
<1>4. CASE MinerChanges
    BY <1>4, MinerChangesKeep
<1>5. CASE AccountNext /\ UNCHANGED <<rewardVars, gone, changes, poolVars>>
  <2>1. UNCHANGED <<score, build, reward_type, gone, poolVars>> /\ pending' \subseteq pending
    BY <1>5 DEF rewardVars
  <2> QED BY <2>1, RewardStutter
<1>6. CASE UNCHANGED allRewards
  <2>1. UNCHANGED <<score, build, reward_type, gone, poolVars>> /\ pending' \subseteq pending
    BY <1>6 DEF allRewards, rewardVars, allPool
  <2> QED BY <2>1, RewardStutter
<1> QED BY <1>1, <1>2, <1>3, <1>4, <1>5, <1>6 DEF RewardNext

LEMMA RewardInvTyped == RewardInv => RewardTypeOK
<1> SUFFICES ASSUME RewardInv PROVE RewardTypeOK
    OBVIOUS
<1>1. build \in Build /\ score \in Scores
    BY DEF RewardInv, BuildOK
<1>2. build.current \in 0..1 /\ build.job.proc \in Nat /\ build.job.proc # 0
    BY <1>1, BuildFields
<1>3. Len(ids.table) \in Nat
    BY DEF RewardInv, PoolInv, IdsInv
<1>4. build.job.proc \in 1..Len(ids.table) + 1
  <2>1. build.job.proc = 1 \/ build.job.proc <= Len(ids.table)
    BY DEF RewardInv
  <2> QED BY <1>2, <1>3, <2>1
<1>5. \A k \in Kinds, s \in 0..1 : build.count[k][s] <= Len(score[k][s])
    BY DEF RewardInv, BuildOK, CopiesOK
<1> QED BY <1>1, <1>2, <1>4, <1>5 DEF RewardInv, Payments, RewardTypeOK, Scores

LEMMA StepKeepsCurrent ==
    RewardInv /\ [RewardNext]_allRewards =>
        [build'.current = build.current =>
            \A k \in Kinds : current_rows(k)' = current_rows(k)]_allRewards
<1> SUFFICES ASSUME RewardInv, [RewardNext]_allRewards, build'.current = build.current, NEW k \in Kinds
             PROVE  current_rows(k)' = current_rows(k)
    OBVIOUS
<1>1. CASE UNCHANGED <<score, build>>
    BY <1>1 DEF current_rows
<1>2. CASE onbuild
  <2> DEFINE w == batch[BuildBatch]
  <2>1. w \in InBatch
    BY <1>2, BatchKeeps DEF onbuild
  <2>2. score' = w.score /\ build' = w.build
    BY <1>2 DEF onbuild
  <2> HIDE DEF w
  <2>3. build.current \in 0..1 /\ build.current # 1 - build.current
    BY BuildFields DEF RewardInv, BuildOK
  <2>4. ~w.done
    BY <2>1, <2>2, <2>3 DEF InBatch
  <2>5. /\ build'.count = build.count
        /\ score'[k][build.current] = score[k][build.current]
    BY <2>1, <2>2, <2>4 DEF InBatch
  <2> QED BY <2>5 DEF current_rows
<1>3. onbuild \/ UNCHANGED <<score, build>>
    BY DEF RewardNext, onreward, payrewardnew, MinerChanges, rewardVars, allRewards
<1> QED BY <1>1, <1>2, <1>3

LEMMA RowsFit ==
    ASSUME RewardInv, ~Reregister, NEW k \in Kinds
    PROVE  /\ Len(current_rows(k)) <= Cardinality(Miners)
           /\ IsInjective([i \in DOMAIN current_rows(k) |-> current_rows(k)[i].minerid])
<1> DEFINE rows == current_rows(k)
           n == Len(rows)
           f == [i \in DOMAIN rows |-> rows[i].minerid]
<1>1. /\ rows \in Seq(Row) /\ n \in Nat /\ DOMAIN rows = 1..n
      /\ \A i, j \in 1..n : i < j => rows[i].minerid # rows[j].minerid
    BY CurrentRows
<1> HIDE DEF rows
<1>2. f \in [1..n -> Miners]
  <2>1. \A i \in 1..n : rows[i] \in Row
    BY <1>1
  <2> QED BY <1>1, <2>1 DEF Row
<1>3. IsInjective(f)
  <2>1. \A i, j \in 1..n : i = j \/ i < j \/ j < i
    BY <1>1
  <2> QED BY <1>1, <2>1 DEF IsInjective
<1>4. Cardinality(1..n) = n
  <2>1. n \in Nat /\ n >= 0
    BY <1>1
  <2> HIDE DEF n
  <2>2. Cardinality(1..n) = IF 1 > n THEN 0 ELSE n - 1 + 1
    BY <2>1, FS_Interval
  <2> QED
    BY <2>1, <2>2
<1>5. IsFiniteSet(Miners)
    BY DepositAssumption
<1> HIDE DEF f
<1>6. f \in Injection(1..n, Miners)
    BY <1>2, <1>3 DEF Injection
<1>7. Cardinality(1..n) <= Cardinality(Miners)
    BY <1>5, <1>6, FS_Injection
<1> QED BY <1>3, <1>4, <1>7 DEF f, rows

\* The build stays within the table of ids and the counts within the score tables,
\* whatever is registered and deleted between two batches, and only miners are paid.
THEOREM RewardsTyped == RewardSpec => []RewardTypeOK
<1> QED BY RewardInitInv, RewardStep, RewardInvTyped, PTL DEF RewardSpec

\* For every batch size: onbuild never touches the rows that onreward draws from
\* until it replaces all of them, whatever happens to the miners.
THEOREM CurrentAlwaysStable == RewardSpec => CurrentStable
<1> QED BY RewardInitInv, RewardStep, StepKeepsCurrent, PTL DEF RewardSpec, CurrentStable

\* As long as the number of a deleted miner is not used again, and there are no more
\* miners than the probes reach: every number selects exactly the row it lies in,
\* and no miner has two.  20 probes reach 2^19 - 1 rows.
THEOREM ChancesAlwaysWeights ==
    ASSUME ~Reregister, Cardinality(Miners) <= Reach[MaxProbes]
    PROVE  RewardSpec => []ChancesAreWeights
<1>1. ASSUME RewardInv PROVE ChancesAreWeights
  <2>1. ASSUME NEW k \in Kinds PROVE Exact(current_rows(k))
    <3>1. current_rows(k) \in Seq(Row) /\ Increasing(current_rows(k))
      BY <1>1, CurrentRows
    <3>2. Len(current_rows(k)) <= Cardinality(Miners)
      BY <1>1, RowsFit
    <3>3. Len(current_rows(k)) \in Nat /\ Cardinality(Miners) \in Nat
      BY <3>1, FS_CardinalityType, DepositAssumption
    <3>4. Reach[MaxProbes] \in Nat
      <4>1. MaxProbes \in 0..MaxProbes
        BY RewardAssumption
      <4> QED BY <4>1, ReachIs
    <3>5. Len(current_rows(k)) <= Reach[MaxProbes]
      BY <3>2, <3>3, <3>4
    <3> QED BY <3>1, <3>5, DrawnExact
  <2>2. SelectionExact
    BY <2>1 DEF SelectionExact, Exact
  <2>3. NobodyTwice
    BY <1>1, RowsFit DEF NobodyTwice
  <2> QED BY <1>1, <2>2, <2>3, RewardInvTyped DEF ChancesAreWeights
<1> QED BY <1>1, RewardInitInv, RewardStep, PTL DEF RewardSpec

-----------------------------------------------------------------------------
(* The rewards beside the rest of the contracts. *)

LEMMA RewardStepIsAnyStep == RewardInv /\ DepositTypeOK /\ [RewardNext]_allRewards => [AnyStep]_allDeposit
<1> SUFFICES ASSUME RewardInv, DepositTypeOK, [RewardNext]_allRewards PROVE [AnyStep]_allDeposit
    OBVIOUS
<1>1. CASE onbuild \/ onreward \/ UNCHANGED allRewards
    BY <1>1 DEF onbuild, onreward, allRewards, allPool
<1>2. CASE \E e \in pending : payrewardnew(e)
  <2>1. PICK e \in pending : payrewardnew(e)
    BY <1>2
  <2>2. e.minerid \in Miners
    BY DEF RewardInv, Payments
  <2>3. CASE can_pay(e.minerid) /\ channellog(miner[e.minerid].owner, Reward, Gas)
    <3>1. miner[e.minerid] \in Miner
      BY <2>2, <2>3 DEF can_pay, RewardInv, PoolInv, Tables
    <3>2. miner[e.minerid].owner \in Users /\ Reward \in Nat /\ Gas \in Nat
      BY <3>1, RewardAssumption DEF Miner
    <3> QED BY <2>3, <3>2 DEF AnyStep, AnyCalls
  <2>4. CASE UNCHANGED allDeposit
    BY <2>4
  <2> QED BY <2>1, <2>3, <2>4 DEF payrewardnew
<1>3. CASE MinerChanges
    BY <1>3, PoolStepIsAnyStep DEF MinerChanges, PoolNext
<1>4. CASE AccountNext
    BY <1>4 DEF AnyStep
<1> QED BY <1>1, <1>2, <1>3, <1>4 DEF RewardNext

\* Paying rewards, in transactions of their own and long after they were drawn,
\* leaves every promise of the deposits, the channel and the pools intact.
THEOREM RewardsKeepTheRest ==
    RewardSpec => /\ []SpaceAccounted /\ []IdsPartition
                  /\ []DepositBacked /\ []DepositsAccounted /\ []ChannelBacked
<1> DEFINE Inv == RewardInv /\ AllDeposits
<1>1. RewardInit => Inv
    BY RewardInitInv, InitEstablishes, InitAccounted, InitChannel DEF RewardInit, PoolInit, AllDeposits
<1>2. Inv /\ [RewardNext]_allRewards => Inv'
    BY RewardStep, RewardStepIsAnyStep, AllDepositsTyped, AnyStepKeepsAll
<1>3. Inv => SpaceAccounted /\ IdsPartition /\ DepositBacked /\ DepositsAccounted /\ ChannelBacked
    BY PoolInvImplies, IdsInvImplies DEF RewardInv, PoolInv, AllDeposits, DepositInv
<1> QED BY <1>1, <1>2, <1>3, PTL DEF RewardSpec
=============================================================================
