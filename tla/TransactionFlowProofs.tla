----------------------- MODULE TransactionFlowProofs -----------------------
(***************************************************************************)
(* What happens to transactions and submissions, for every set of them,    *)
(* every setting and every length of the chain: each transaction is        *)
(* executed once, each submission is answered once, and what was accepted  *)
(* is kept.                                                                *)
(***************************************************************************)
EXTENDS TransactionFlow, NumberFacts

-----------------------------------------------------------------------------
(* Types *)

Status == {"input", "executed", "expired", "hard_fail"}
Rcpt == [id : Trx, status : Status]
Entry == [id : Trx, published : Nat, delay_until : Nat, expiration : Nat]
Mode == {"none", "producing", "speculating"}
BlockRec == [time : Nat, own : BOOLEAN, mode : Mode, receipts : Seq(Rcpt),
             index : SUBSET Trx, generated : SUBSET Entry]
Answer == {"none", "ok", "error"}
NodeRec == [chain : Seq(BlockRec), pending : SUBSET BlockRec, unapplied : SUBSET Trx,
            incoming : Seq(Submission), persisted : SUBSET Trx,
            blacklisted : SUBSET [id : Trx, expiry : Nat], weight : Int,
            result : {"none", "exhausted", "succeeded"}, answer : [Submission -> Answer],
            refused : SUBSET Trx]

-----------------------------------------------------------------------------
(* Lists of blocks, as the chain with the pending block is one. *)

Retired(b) == {t \in Trx : \E p \in DOMAIN b.receipts :
                 b.receipts[p].id = t /\ b.receipts[p].status # "input"}

LEMMA InputIs ==
    ASSUME NEW b \in BlockRec
    PROVE  Input(b) = {t \in Trx : \E p \in DOMAIN b.receipts :
                         b.receipts[p].id = t /\ b.receipts[p].status = "input"}
<1>1. \A p \in DOMAIN b.receipts : b.receipts[p] \in Rcpt
    BY DEF BlockRec
<1> QED BY <1>1 DEF Input, Range, Rcpt

InputUpTo(L, i) == UNION {Input(L[j]) : j \in 1..i}
RetiredUpTo(L, i) == UNION {Retired(L[j]) : j \in 1..i}

Once(L) ==
    \A i, j \in 1..Len(L) : \A p \in DOMAIN L[i].receipts, q \in DOMAIN L[j].receipts :
        (i < j \/ (i = j /\ p < q)) /\ L[i].receipts[p].id = L[j].receipts[q].id
            => L[i].receipts[p].status = "input" /\ L[j].receipts[q].status # "input"

\* The deduplication list of a block holds what can still be pushed again, and its
\* generated transactions are recorded, not retired and there once.
Dedup(L, i) ==
    /\ \A t \in InputUpTo(L, i) : Expiration[t] >= L[i].time => t \in L[i].index
    /\ \A g \in L[i].generated : g.id \in InputUpTo(L, i) /\ g.id \notin RetiredUpTo(L, i)
    /\ \A g, h \in L[i].generated : g.id = h.id => g = h
    /\ RetiredUpTo(L, i) \subseteq InputUpTo(L, i)
    /\ IsFiniteSet(L[i].generated)

Good(L) ==
    /\ L \in Seq(BlockRec)
    /\ Once(L)
    /\ \A i \in 1..Len(L) : Dedup(L, i)
    /\ \A i \in 1..(Len(L) - 1) : L[i].time < L[i + 1].time

InputOf(L) == InputUpTo(L, Len(L))

(* The first blocks of a list determine what is up to them. *)
LEMMA UpToSame ==
    ASSUME NEW L, NEW M, NEW i \in Nat, \A j \in 1..i : M[j] = L[j]
    PROVE  InputUpTo(M, i) = InputUpTo(L, i) /\ RetiredUpTo(M, i) = RetiredUpTo(L, i)
BY DEF InputUpTo, RetiredUpTo

LEMMA UpToNext ==
    ASSUME NEW L, NEW i \in Nat
    PROVE  /\ InputUpTo(L, i + 1) = InputUpTo(L, i) \cup Input(L[i + 1])
           /\ RetiredUpTo(L, i + 1) = RetiredUpTo(L, i) \cup Retired(L[i + 1])
<1>1. 1..(i + 1) = 1..i \cup {i + 1}
    OBVIOUS
<1> QED BY <1>1 DEF InputUpTo, RetiredUpTo

LEMMA GoodPrefix ==
    ASSUME NEW L, Good(L), NEW M \in Seq(BlockRec), Len(M) <= Len(L), \A i \in 1..Len(M) : M[i] = L[i]
    PROVE  Good(M)
<1>1. Len(M) \in Nat /\ Len(L) \in Nat /\ \A i \in 1..Len(M) : i \in 1..Len(L)
    BY DEF Good
<1>2. Once(M)
    BY <1>1 DEF Good, Once
<1>3. ASSUME NEW i \in 1..Len(M) PROVE Dedup(M, i)
  <2>1. Dedup(L, i) /\ M[i] = L[i] /\ i \in Nat /\ \A j \in 1..i : M[j] = L[j]
    BY <1>1 DEF Good
  <2>2. InputUpTo(M, i) = InputUpTo(L, i) /\ RetiredUpTo(M, i) = RetiredUpTo(L, i)
    BY <2>1, UpToSame
  <2> QED BY <2>1, <2>2 DEF Dedup
<1>4. ASSUME NEW i \in 1..(Len(M) - 1) PROVE M[i].time < M[i + 1].time
  <2>1. i \in 1..Len(M) /\ i + 1 \in 1..Len(M) /\ i \in 1..(Len(L) - 1)
    BY <1>1
  <2> QED BY <2>1 DEF Good
<1> QED BY <1>2, <1>3, <1>4 DEF Good

(* What makes a block b one more block of a good list C. *)
RetiredOf(L) == RetiredUpTo(L, Len(L))

OnceIn(b) ==
    \A p, q \in DOMAIN b.receipts : p < q /\ b.receipts[p].id = b.receipts[q].id
        => b.receipts[p].status = "input" /\ b.receipts[q].status # "input"

Fits(C, b) ==
    /\ \A t \in InputOf(C) \cup Input(b) : Expiration[t] >= b.time => t \in b.index
    /\ \A g \in b.generated : /\ g.id \in InputOf(C) \cup Input(b)
                              /\ g.id \notin RetiredOf(C) \cup Retired(b)
    /\ \A g, h \in b.generated : g.id = h.id => g = h
    /\ RetiredOf(C) \cup Retired(b) \subseteq InputOf(C) \cup Input(b)
    /\ IsFiniteSet(b.generated)
    /\ Input(b) \cap (InputOf(C) \cup RetiredOf(C)) = {}
    /\ Retired(b) \cap RetiredOf(C) = {}
    /\ OnceIn(b)
    /\ Len(C) > 0 => C[Len(C)].time < b.time

LEMMA AppendedList ==
    ASSUME NEW C \in Seq(BlockRec), NEW b \in BlockRec
    PROVE  LET L == Append(C, b)
           IN  /\ L \in Seq(BlockRec) /\ Len(L) = Len(C) + 1 /\ Len(C) \in Nat
               /\ \A i \in 1..Len(C) : L[i] = C[i]
               /\ L[Len(C) + 1] = b
               /\ InputOf(L) = InputOf(C) \cup Input(b)
               /\ RetiredOf(L) = RetiredOf(C) \cup Retired(b)
<1> DEFINE L == Append(C, b)
           n == Len(C)
<1>1. /\ L \in Seq(BlockRec) /\ Len(L) = n + 1 /\ n \in Nat
      /\ \A i \in 1..n : L[i] = C[i]
      /\ L[n + 1] = b
    OBVIOUS
<1> HIDE DEF L, n
<1>2. /\ InputUpTo(L, n) = InputUpTo(C, n) /\ RetiredUpTo(L, n) = RetiredUpTo(C, n)
      /\ InputUpTo(L, n + 1) = InputUpTo(L, n) \cup Input(L[n + 1])
      /\ RetiredUpTo(L, n + 1) = RetiredUpTo(L, n) \cup Retired(L[n + 1])
    BY <1>1, UpToSame, UpToNext
<1>3. InputOf(L) = InputOf(C) \cup Input(b) /\ RetiredOf(L) = RetiredOf(C) \cup Retired(b)
    BY <1>1, <1>2 DEF InputOf, RetiredOf, n
<1> QED BY <1>1, <1>3 DEF L, n

\* The receipts of a block by their ids.
LEMMA ReceiptIds ==
    ASSUME NEW b \in BlockRec, NEW p \in DOMAIN b.receipts
    PROVE  /\ b.receipts[p].id \in Trx
           /\ b.receipts[p].status = "input" => b.receipts[p].id \in Input(b)
           /\ b.receipts[p].status # "input" => b.receipts[p].id \in Retired(b)
<1>1. b.receipts[p] \in Rcpt
    BY DEF BlockRec
<1> QED BY <1>1, InputIs DEF Retired, Rcpt

LEMMA AppendGood ==
    ASSUME NEW C, Good(C), NEW b \in BlockRec, Fits(C, b)
    PROVE  Good(Append(C, b))
<1> DEFINE L == Append(C, b)
           n == Len(C)
<1>0. C \in Seq(BlockRec)
    BY DEF Good
<1>1. /\ L \in Seq(BlockRec) /\ Len(L) = n + 1 /\ n \in Nat
      /\ \A i \in 1..n : L[i] = C[i]
      /\ L[n + 1] = b
      /\ InputOf(L) = InputOf(C) \cup Input(b)
      /\ RetiredOf(L) = RetiredOf(C) \cup Retired(b)
    BY <1>0, AppendedList
<1>2. \A i \in 1..n : C[i] \in BlockRec
    BY <1>0
<1> HIDE DEF L
<1>3. \A i \in 1..(n + 1) : i \in 1..n \/ i = n + 1
    BY <1>1
<1>4. Once(L)
  <2> SUFFICES ASSUME NEW i \in 1..(n + 1), NEW j \in 1..(n + 1),
                      NEW p \in DOMAIN L[i].receipts, NEW q \in DOMAIN L[j].receipts,
                      i < j \/ (i = j /\ p < q), L[i].receipts[p].id = L[j].receipts[q].id
               PROVE  L[i].receipts[p].status = "input" /\ L[j].receipts[q].status # "input"
    BY <1>1 DEF Once
  <2>1. CASE j \in 1..n
    <3>1. i \in 1..n
      BY <1>1, <1>3, <2>1
    <3> QED BY <1>1, <2>1, <3>1 DEF Good, Once
  <2>2. CASE j = n + 1 /\ i = n + 1
    BY <1>1, <2>2 DEF Fits, OnceIn
  <2>3. CASE j = n + 1 /\ i \in 1..n
    <3>1. L[i] = C[i] /\ C[i] \in BlockRec /\ L[j] = b
      BY <1>1, <1>2, <2>3
    <3>2. Input(C[i]) \subseteq InputOf(C) /\ Retired(C[i]) \subseteq RetiredOf(C)
      BY <2>3 DEF InputOf, InputUpTo, RetiredOf, RetiredUpTo
    <3> DEFINE t == b.receipts[q].id
    <3>3. /\ b.receipts[q].status = "input" => t \in Input(b)
          /\ b.receipts[q].status # "input" => t \in Retired(b)
      BY <3>1, ReceiptIds
    <3>4. /\ C[i].receipts[p].status = "input" => t \in Input(C[i])
          /\ C[i].receipts[p].status # "input" => t \in Retired(C[i])
      BY <3>1, ReceiptIds
    <3> QED BY <3>1, <3>2, <3>3, <3>4 DEF Fits
  <2> QED BY <1>3, <2>1, <2>2, <2>3
<1>5. ASSUME NEW i \in 1..(n + 1) PROVE Dedup(L, i)
  <2>1. CASE i \in 1..n
    <3>1. Dedup(C, i) /\ L[i] = C[i] /\ i \in Nat /\ \A j \in 1..i : L[j] = C[j]
      BY <1>1, <2>1 DEF Good
    <3>2. InputUpTo(L, i) = InputUpTo(C, i) /\ RetiredUpTo(L, i) = RetiredUpTo(C, i)
      BY <3>1, UpToSame
    <3> QED BY <3>1, <3>2 DEF Dedup
  <2>2. CASE i = n + 1
    <3>1. InputUpTo(L, i) = InputOf(C) \cup Input(b) /\ RetiredUpTo(L, i) = RetiredOf(C) \cup Retired(b)
          /\ L[i] = b
      BY <1>1, <2>2 DEF InputOf, RetiredOf
    <3> QED BY <3>1 DEF Dedup, Fits
  <2> QED BY <1>3, <2>1, <2>2
<1>6. ASSUME NEW i \in 1..n PROVE L[i].time < L[i + 1].time
  <2>1. CASE i = n
    BY <1>1, <2>1 DEF Fits
  <2>2. CASE i # n
    <3>1. i \in 1..(n - 1) /\ i + 1 \in 1..n
      BY <1>1, <2>2
    <3> QED BY <1>1, <3>1 DEF Good
  <2> QED BY <2>1, <2>2
<1>7. Len(L) - 1 = n
    BY <1>1
<1>8. Good(L)
    BY <1>1, <1>4, <1>5, <1>6, <1>7 DEF Good
<1> QED BY <1>8 DEF L

LEMMA GoodAppend ==
    ASSUME NEW C \in Seq(BlockRec), NEW b \in BlockRec, Good(Append(C, b))
    PROVE  Good(C) /\ Fits(C, b)
<1> DEFINE L == Append(C, b)
           n == Len(C)
<1>1. /\ L \in Seq(BlockRec) /\ Len(L) = n + 1 /\ n \in Nat
      /\ \A i \in 1..n : L[i] = C[i]
      /\ L[n + 1] = b
      /\ InputOf(L) = InputOf(C) \cup Input(b)
      /\ RetiredOf(L) = RetiredOf(C) \cup Retired(b)
    BY AppendedList
<1>2. \A i \in 1..n : C[i] \in BlockRec
    OBVIOUS
<1>g. Good(L)
    OBVIOUS
<1> HIDE DEF L
<1>3. Good(C)
    BY <1>1, <1>g, GoodPrefix
<1>4. Dedup(L, n + 1) /\ InputUpTo(L, n + 1) = InputOf(C) \cup Input(b)
      /\ RetiredUpTo(L, n + 1) = RetiredOf(C) \cup Retired(b)
    BY <1>1, <1>g DEF Good, InputOf, RetiredOf
<1>5. n > 0 => C[n].time < b.time
    BY <1>1, <1>g DEF Good
<1>6. OnceIn(b)
    BY <1>1, <1>g DEF Good, Once, OnceIn
<1>7. ASSUME NEW i \in 1..n, NEW t, t \in Input(C[i]) \cup Retired(C[i])
      PROVE  t \notin Input(b) /\ (t \in Retired(C[i]) => t \notin Retired(b))
  <2>1. C[i] \in BlockRec /\ L[i] = C[i] /\ i \in 1..(n + 1) /\ n + 1 \in 1..(n + 1) /\ i < n + 1
    BY <1>1, <1>2
  <2>2. \A p \in DOMAIN C[i].receipts, q \in DOMAIN b.receipts :
          C[i].receipts[p].id = b.receipts[q].id
            => C[i].receipts[p].status = "input" /\ b.receipts[q].status # "input"
    BY <1>1, <1>g, <2>1 DEF Good, Once
  <2> QED BY <1>7, <2>1, <2>2, InputIs DEF Retired
<1>8. /\ Input(b) \cap (InputOf(C) \cup RetiredOf(C)) = {}
      /\ Retired(b) \cap RetiredOf(C) = {}
    BY <1>7 DEF InputOf, RetiredOf, InputUpTo, RetiredUpTo
<1> QED BY <1>1, <1>3, <1>4, <1>5, <1>6, <1>8 DEF Fits, Dedup

(* A block is started without receipts, on the data of its parent. *)
LEMMA FreshFits ==
    ASSUME NEW C, Good(C), Len(C) > 0, NEW b \in BlockRec, b.receipts = <<>>,
           b.index = {t \in C[Len(C)].index : Expiration[t] >= b.time},
           b.generated = C[Len(C)].generated, C[Len(C)].time < b.time
    PROVE  Fits(C, b) /\ Input(b) = {}
<1> DEFINE n == Len(C)
<1>1. Input(b) = {} /\ Retired(b) = {}
    BY DEF Input, Retired, Range
<1>2. n \in 1..Len(C) /\ C[n] \in BlockRec
    BY DEF Good
<1>3. Dedup(C, n) /\ InputUpTo(C, n) = InputOf(C) /\ RetiredUpTo(C, n) = RetiredOf(C)
    BY <1>2 DEF Good, InputOf, RetiredOf
<1>4. InputOf(C) \subseteq Trx
  <2>1. \A i \in 1..n : C[i] \in BlockRec
    BY DEF Good
  <2>2. \A i \in 1..n : Input(C[i]) \subseteq Trx
    BY <2>1, InputIs
  <2> QED BY <2>2 DEF InputOf, InputUpTo
<1>5. ASSUME NEW t \in InputOf(C), Expiration[t] >= b.time PROVE t \in b.index
  <2>1. C[n].time \in Nat /\ b.time \in Nat /\ Expiration[t] \in Nat
    BY <1>2, <1>4, FlowAssumption DEF BlockRec
  <2>2. Expiration[t] >= C[n].time
    BY <1>5, <2>1
  <2> QED BY <1>3, <1>5, <2>2 DEF Dedup
<1>6. OnceIn(b)
    BY DEF OnceIn
<1> QED BY <1>1, <1>3, <1>5, <1>6 DEF Fits, Dedup

(* Who made it does not matter. *)
LEMMA SameFits ==
    ASSUME NEW C, NEW b, Fits(C, b), NEW c, c.time = b.time, c.receipts = b.receipts,
           c.index = b.index, c.generated = b.generated
    PROVE  Fits(C, c) /\ Input(c) = Input(b)
<1>1. Input(c) = Input(b) /\ Retired(c) = Retired(b) /\ (OnceIn(c) <=> OnceIn(b))
    BY DEF Input, Retired, OnceIn
<1> QED BY <1>1 DEF Fits

LEMMA ReceiptAdded ==
    ASSUME NEW b \in BlockRec, NEW c \in BlockRec, NEW r \in Rcpt, c.receipts = Append(b.receipts, r)
    PROVE  /\ r.status = "input" => Input(c) = Input(b) \cup {r.id} /\ Retired(c) = Retired(b)
           /\ r.status # "input" => Input(c) = Input(b) /\ Retired(c) = Retired(b) \cup {r.id}
           /\ OnceIn(b) /\ r.id \notin Retired(b) /\ (r.status = "input" => r.id \notin Input(b)) => OnceIn(c)
<1> DEFINE s == b.receipts
           e == c.receipts
           n == Len(s)
<1>0. r.id \in Trx
    BY DEF Rcpt
<1>1. /\ s \in Seq(Rcpt) /\ n \in Nat /\ DOMAIN s = 1..n /\ DOMAIN e = 1..(n + 1)
      /\ e[n + 1] = r /\ \A p \in 1..n : e[p] = s[p]
    BY DEF BlockRec
<1>2. \A p \in 1..(n + 1) : p \in 1..n \/ p = n + 1
    BY <1>1
<1>2a. n + 1 \in 1..(n + 1) /\ \A p \in 1..n : p \in 1..(n + 1)
    BY <1>1
<1> HIDE DEF e, n, s
<1>3. /\ Input(c) = {t \in Trx : \E p \in 1..(n + 1) : e[p].id = t /\ e[p].status = "input"}
      /\ Input(b) = {t \in Trx : \E p \in 1..n : s[p].id = t /\ s[p].status = "input"}
    BY <1>1, InputIs DEF e, s
<1>4. /\ Retired(c) = {t \in Trx : \E p \in 1..(n + 1) : e[p].id = t /\ e[p].status # "input"}
      /\ Retired(b) = {t \in Trx : \E p \in 1..n : s[p].id = t /\ s[p].status # "input"}
    BY <1>1 DEF e, s, Retired
<1>5. /\ r.status = "input" => Input(c) = Input(b) \cup {r.id}
      /\ r.status # "input" => Input(c) = Input(b)
    BY <1>0, <1>1, <1>2, <1>2a, <1>3
<1>6. /\ r.status = "input" => Retired(c) = Retired(b)
      /\ r.status # "input" => Retired(c) = Retired(b) \cup {r.id}
    BY <1>0, <1>1, <1>2, <1>2a, <1>4
<1>7. ASSUME OnceIn(b), r.id \notin Retired(b), r.status = "input" => r.id \notin Input(b)
      PROVE  OnceIn(c)
  <2> SUFFICES ASSUME NEW p \in 1..(n + 1), NEW q \in 1..(n + 1), p < q, e[p].id = e[q].id
               PROVE  e[p].status = "input" /\ e[q].status # "input"
    BY <1>1 DEF OnceIn, e
  <2>1. p \in 1..n /\ e[p] = s[p]
    BY <1>1
  <2>2. CASE q = n + 1
    BY <1>0, <1>1, <1>3, <1>4, <1>7, <2>1, <2>2
  <2>3. CASE q \in 1..n
    BY <1>1, <1>7, <2>1, <2>3 DEF OnceIn, s
  <2> QED BY <1>2, <2>2, <2>3
<1> QED BY <1>5, <1>6, <1>7

(* A transaction that is not in the list and not expired is new. *)
LEMMA InputFits ==
    ASSUME NEW C, Good(C), NEW b \in BlockRec, Fits(C, b), NEW t \in Trx,
           t \notin b.index, Expiration[t] >= b.time
    PROVE  /\ with_input(b, t) \in BlockRec /\ Fits(C, with_input(b, t))
           /\ Input(with_input(b, t)) = Input(b) \cup {t} /\ with_input(b, t).time = b.time
           /\ with_input(b, t).mode = b.mode /\ b.generated \subseteq with_input(b, t).generated
<1> DEFINE c == with_input(b, t)
           r == Receipt(t, "input")
           g == [id |-> t, published |-> b.time, delay_until |-> b.time + Delay[t],
                 expiration |-> b.time + Delay[t] + Window]
<1>1. r \in Rcpt /\ r.id = t /\ r.status = "input"
    BY DEF Receipt, Rcpt, Status
<1>2. g \in Entry /\ g.id = t
  <2>1. b.time \in Nat /\ Delay[t] \in Nat /\ Window \in Nat
    BY FlowAssumption DEF BlockRec
  <2>2. b.time + Delay[t] \in Nat /\ b.time + Delay[t] + Window \in Nat
    BY <2>1
  <2> QED BY <2>1, <2>2 DEF Entry
<1>3. /\ c.receipts = Append(b.receipts, r) /\ c.index = b.index \cup {t} /\ c.time = b.time
      /\ c.generated = (IF Delay[t] = 0 THEN b.generated ELSE b.generated \cup {g})
      /\ c = [b EXCEPT !.receipts = Append(b.receipts, r), !.index = b.index \cup {t},
                       !.generated = IF Delay[t] = 0 THEN b.generated ELSE b.generated \cup {g}]
      /\ c.mode = b.mode
    BY DEF with_input, BlockRec
<1> HIDE DEF g, r
<1>4. c \in BlockRec
  <2>1. Append(b.receipts, r) \in Seq(Rcpt) /\ b.index \cup {t} \in SUBSET Trx
        /\ (IF Delay[t] = 0 THEN b.generated ELSE b.generated \cup {g}) \in SUBSET Entry
    BY <1>1, <1>2 DEF BlockRec
  <2> HIDE DEF c
  <2> QED BY <1>3, <2>1 DEF BlockRec
<1> HIDE DEF c
<1>5. t \notin InputOf(C) \cup Input(b) /\ t \notin RetiredOf(C) \cup Retired(b)
    BY DEF Fits
<1>6. OnceIn(b)
    BY DEF Fits
<1>7. Input(c) = Input(b) \cup {t} /\ Retired(c) = Retired(b) /\ OnceIn(c)
  <2>1. c.receipts = Append(b.receipts, r) /\ r \in Rcpt /\ c \in BlockRec /\ b \in BlockRec
    BY <1>1, <1>3, <1>4
  <2>2. /\ r.status = "input" => Input(c) = Input(b) \cup {r.id} /\ Retired(c) = Retired(b)
        /\ r.status # "input" => Input(c) = Input(b) /\ Retired(c) = Retired(b) \cup {r.id}
        /\ OnceIn(b) /\ r.id \notin Retired(b) /\ (r.status = "input" => r.id \notin Input(b)) => OnceIn(c)
    BY <2>1, ReceiptAdded
  <2> QED BY <1>1, <1>5, <1>6, <2>2
<1>8. \A h \in c.generated : h \in b.generated \/ h = g
    BY <1>3
<1>9. /\ \A h \in c.generated : /\ h.id \in InputOf(C) \cup Input(c)
                                /\ h.id \notin RetiredOf(C) \cup Retired(c)
      /\ \A h, k \in c.generated : h.id = k.id => h = k
    BY <1>2, <1>5, <1>7, <1>8 DEF Fits
<1>10. IsFiniteSet(c.generated)
  <2>1. IsFiniteSet(b.generated)
    BY DEF Fits
  <2>2. IsFiniteSet(b.generated \cup {g})
    BY <2>1, FS_AddElement
  <2> QED BY <1>3, <2>1, <2>2
<1>11. Fits(C, c)
    BY <1>3, <1>5, <1>7, <1>9, <1>10 DEF Fits
<1> QED BY <1>3, <1>4, <1>7, <1>11 DEF c

(* A generated transaction is retired. *)
retired(b, g, v) ==
    [b EXCEPT !.receipts = Append(@, Receipt(g.id, v)), !.generated = @ \ {g}]

LEMMA RetireFits ==
    ASSUME NEW C, Good(C), NEW b \in BlockRec, Fits(C, b), NEW g \in b.generated,
           NEW v \in Status \ {"input"}
    PROVE  /\ retired(b, g, v) \in BlockRec /\ Fits(C, retired(b, g, v))
           /\ Input(retired(b, g, v)) = Input(b) /\ retired(b, g, v).time = b.time
           /\ retired(b, g, v).mode = b.mode
           /\ retired(b, g, v).generated = b.generated \ {g}
<1> DEFINE c == retired(b, g, v)
           r == Receipt(g.id, v)
<1>0. g.id \in Trx
    BY DEF BlockRec, Entry
<1>1. r \in Rcpt /\ r.id = g.id /\ r.status = v /\ r.status # "input"
    BY <1>0 DEF Receipt, Rcpt
<1>3. /\ c.receipts = Append(b.receipts, r) /\ c.index = b.index /\ c.time = b.time
      /\ c.generated = b.generated \ {g} /\ c.mode = b.mode
      /\ c = [b EXCEPT !.receipts = Append(b.receipts, r), !.generated = b.generated \ {g}]
    BY DEF retired, BlockRec
<1> HIDE DEF r
<1>4. c \in BlockRec
  <2>1. Append(b.receipts, r) \in Seq(Rcpt) /\ b.generated \ {g} \in SUBSET Entry
    BY <1>1 DEF BlockRec
  <2> HIDE DEF c
  <2> QED BY <1>3, <2>1 DEF BlockRec
<1> HIDE DEF c
<1>5. g.id \in InputOf(C) \cup Input(b) /\ g.id \notin RetiredOf(C) \cup Retired(b)
    BY DEF Fits
<1>6. OnceIn(b)
    BY DEF Fits
<1>7. Input(c) = Input(b) /\ Retired(c) = Retired(b) \cup {g.id} /\ OnceIn(c)
  <2>1. c.receipts = Append(b.receipts, r) /\ r \in Rcpt /\ c \in BlockRec /\ b \in BlockRec
    BY <1>1, <1>3, <1>4
  <2>2. /\ r.status = "input" => Input(c) = Input(b) \cup {r.id} /\ Retired(c) = Retired(b)
        /\ r.status # "input" => Input(c) = Input(b) /\ Retired(c) = Retired(b) \cup {r.id}
        /\ OnceIn(b) /\ r.id \notin Retired(b) /\ (r.status = "input" => r.id \notin Input(b)) => OnceIn(c)
    BY <2>1, ReceiptAdded
  <2> QED BY <1>1, <1>5, <1>6, <2>2
<1>9. /\ \A h \in c.generated : /\ h.id \in InputOf(C) \cup Input(c)
                                /\ h.id \notin RetiredOf(C) \cup Retired(c)
      /\ \A h, k \in c.generated : h.id = k.id => h = k
    BY <1>3, <1>7 DEF Fits
<1>10. IsFiniteSet(c.generated)
    BY <1>3, FS_Subset DEF Fits
<1>11. Fits(C, c)
    BY <1>3, <1>5, <1>7, <1>9, <1>10 DEF Fits
<1> QED BY <1>3, <1>4, <1>7, <1>11 DEF c

-----------------------------------------------------------------------------
(* The state of the node *)

Sane(s) ==
    /\ s \in NodeRec
    /\ s.pending # {} => \E b : s.pending = {b}
    /\ Len(s.chain) > 0
    /\ Good(Blocks(s))
    /\ s.unapplied \cap InputOf(Blocks(s)) = {}

\* What the node has, is to apply again, or has seen fail.
Kept(s) == InputOf(Blocks(s)) \cup s.unapplied \cup s.refused

\* What only the handling of submissions changes.
Frame(s, u) ==
    u.answer = s.answer /\ u.incoming = s.incoming /\ u.persisted = s.persisted /\ u.weight = s.weight

LEMMA StateFields ==
    ASSUME NEW s \in NodeRec
    PROVE  /\ s.chain \in Seq(BlockRec) /\ s.pending \in SUBSET BlockRec /\ s.unapplied \in SUBSET Trx
           /\ s.incoming \in Seq(Submission) /\ s.persisted \in SUBSET Trx
           /\ s.blacklisted \in SUBSET [id : Trx, expiry : Nat] /\ s.weight \in Int
           /\ s.answer \in [Submission -> Answer] /\ s.refused \in SUBSET Trx
BY DEF NodeRec

LEMMA Waiting ==
    ASSUME NEW s, s.pending = {}
    PROVE  Blocks(s) = s.chain
BY DEF Blocks

LEMMA Speculating ==
    ASSUME NEW s, NEW b, s.pending = {b}
    PROVE  Pending(s) = b /\ Blocks(s) = Append(s.chain, b)
BY DEF Blocks, Pending

(* In both cases the chain is good, and the pending block fits to it. *)
LEMMA SaneParts ==
    ASSUME NEW s, Sane(s)
    PROVE  /\ s.chain \in Seq(BlockRec) /\ Good(s.chain)
           /\ \A b : s.pending = {b} =>
                 b \in BlockRec /\ Fits(s.chain, b) /\ InputOf(Blocks(s)) = InputOf(s.chain) \cup Input(b)
<1>1. s \in NodeRec /\ s.chain \in Seq(BlockRec) /\ s.pending \in SUBSET BlockRec
    BY StateFields DEF Sane
<1>2. ASSUME NEW b, s.pending = {b}
      PROVE  b \in BlockRec /\ Good(s.chain) /\ Fits(s.chain, b)
             /\ InputOf(Blocks(s)) = InputOf(s.chain) \cup Input(b)
  <2>1. b \in BlockRec /\ Good(Append(s.chain, b)) /\ Blocks(s) = Append(s.chain, b)
    BY <1>1, <1>2, Speculating DEF Sane
  <2>2. Good(s.chain) /\ Fits(s.chain, b)
    BY <1>1, <2>1, GoodAppend
  <2>3. InputOf(Append(s.chain, b)) = InputOf(s.chain) \cup Input(b)
    BY <1>1, <2>1, AppendedList
  <2> QED BY <2>1, <2>2, <2>3
<1>3. CASE s.pending = {}
    BY <1>1, <1>3, Waiting DEF Sane
<1>4. CASE s.pending # {}
    BY <1>1, <1>2, <1>4 DEF Sane
<1> QED BY <1>1, <1>2, <1>3, <1>4

(* Applied is what the blocks carry. *)
LEMMA AppliedIs ==
    ASSUME NEW s, Sane(s)
    PROVE  Applied(s) = InputOf(Blocks(s))
<1>1. s.chain \in Seq(BlockRec) /\ Len(s.chain) \in Nat /\ DOMAIN s.chain = 1..Len(s.chain)
    BY SaneParts
<1>2. UNION {Input(b) : b \in Range(s.chain)} = InputOf(s.chain)
    BY <1>1 DEF Range, InputOf, InputUpTo
<1>3. CASE s.pending = {}
    BY <1>2, <1>3, Waiting DEF Applied
<1>4. CASE s.pending # {}
  <2>1. PICK b : s.pending = {b}
    BY <1>4 DEF Sane
  <2>2. InputOf(Blocks(s)) = InputOf(s.chain) \cup Input(b)
    BY <2>1, SaneParts
  <2> QED BY <1>2, <2>1, <2>2 DEF Applied
<1> QED BY <1>3, <1>4

LEMMA BlockAborted ==
    ASSUME NEW s, Sane(s)
    PROVE  LET u == abort_block(s)
           IN  /\ Sane(u) /\ u.pending = {} /\ u.chain = s.chain /\ Frame(s, u) /\ Kept(u) = Kept(s)
               /\ u.refused = s.refused
<1> DEFINE u == abort_block(s)
           undone == UNION {Input(b) : b \in s.pending}
<1>0. s \in NodeRec
    BY DEF Sane
<1>1. /\ u.pending = {} /\ u.unapplied = s.unapplied \cup undone /\ u.chain = s.chain /\ u.refused = s.refused
      /\ u.answer = s.answer /\ u.incoming = s.incoming /\ u.persisted = s.persisted /\ u.weight = s.weight
    BY <1>0 DEF abort_block, NodeRec
<1>2. s.chain \in Seq(BlockRec) /\ Good(s.chain) /\ Blocks(u) = s.chain
    BY <1>1, SaneParts, Waiting
<1>3. undone \subseteq Trx
    <2>1. \A b \in s.pending : b \in BlockRec
      BY <1>0, StateFields
    <2>2. \A b \in s.pending : Input(b) \subseteq Trx
      BY <2>1, InputIs
    <2> QED BY <2>2
<1>4. u \in NodeRec
  <2>1. s.unapplied \cup undone \in SUBSET Trx
    BY <1>0, <1>3, StateFields
  <2>2. u = [s EXCEPT !.pending = {}, !.unapplied = s.unapplied \cup undone]
    BY DEF abort_block
  <2> HIDE DEF u, undone
  <2> QED BY <1>0, <2>1, <2>2 DEF NodeRec
<1> HIDE DEF u
<1>5. CASE s.pending = {}
  <2>1. undone = {}
    BY <1>5
  <2>2. Blocks(s) = s.chain
    BY <1>5, Waiting
  <2> QED BY <1>1, <1>2, <1>4, <2>1, <2>2 DEF Sane, Kept, Frame, u
<1>6. CASE s.pending # {}
  <2>1. PICK b : s.pending = {b}
    BY <1>6 DEF Sane
  <2>2. undone = Input(b)
    BY <2>1
  <2>3. InputOf(Blocks(s)) = InputOf(s.chain) \cup Input(b) /\ Fits(s.chain, b)
    BY <2>1, SaneParts
  <2>4. Input(b) \cap InputOf(s.chain) = {}
    BY <2>3 DEF Fits
  <2>5. (s.unapplied \cup undone) \cap InputOf(s.chain) = {}
    BY <2>2, <2>3, <2>4 DEF Sane
  <2>6. Kept(u) = Kept(s)
    BY <1>1, <1>2, <2>2, <2>3 DEF Kept
  <2> QED BY <1>1, <1>2, <1>4, <2>5, <2>6 DEF Sane, Frame, u
<1> QED BY <1>5, <1>6

LEMMA BlockStarted ==
    ASSUME NEW s, Sane(s), s.pending = {}, NEW time \in Nat, Last(s.chain).time < time, NEW mode \in Mode
    PROVE  LET u == controller_start_block(s, time, mode)
           IN  /\ Sane(u) /\ u.chain = s.chain /\ Frame(s, u) /\ Kept(u) = Kept(s)
               /\ u.refused = s.refused /\ u.unapplied = s.unapplied
               /\ \E b : u.pending = {b} /\ b.time = time /\ b.mode = mode
<1> DEFINE u == controller_start_block(s, time, mode)
           C == s.chain
           n == Len(C)
           b == [time |-> time, own |-> TRUE, mode |-> mode, receipts |-> <<>>,
                 index |-> clear_expired_input_transactions(Last(C).index, time),
                 generated |-> Last(C).generated]
<1>0. s \in NodeRec /\ C \in Seq(BlockRec) /\ Good(C) /\ n > 0 /\ n \in Nat
    BY SaneParts DEF Sane
<1>1. Last(C) = C[n] /\ C[n] \in BlockRec
    BY <1>0 DEF Last
<1>2. b \in BlockRec
  <2>1. clear_expired_input_transactions(Last(C).index, time) \in SUBSET Trx /\ Last(C).generated \in SUBSET Entry
    BY <1>1 DEF clear_expired_input_transactions, BlockRec
  <2>2. <<>> \in Seq(Rcpt)
    OBVIOUS
  <2> HIDE DEF C
  <2> QED BY <2>1, <2>2, Zenon DEF BlockRec
<1>3. /\ b.time = time /\ b.mode = mode /\ b.receipts = <<>> /\ b.generated = C[n].generated
      /\ b.index = {t \in C[n].index : Expiration[t] >= b.time}
    BY <1>1 DEF clear_expired_input_transactions
<1> HIDE DEF b
<1>4. /\ u.pending = {b} /\ u.chain = C /\ u.refused = s.refused /\ u.unapplied = s.unapplied
      /\ u.answer = s.answer /\ u.incoming = s.incoming /\ u.persisted = s.persisted /\ u.weight = s.weight
      /\ u = [s EXCEPT !.pending = {b}]
    BY <1>0 DEF controller_start_block, NodeRec, b
<1>5. u \in NodeRec
  <2> HIDE DEF u
  <2> QED BY <1>0, <1>2, <1>4 DEF NodeRec
<1> HIDE DEF u, C, n
<1>6. Fits(C, b) /\ Input(b) = {}
    BY <1>0, <1>1, <1>2, <1>3, FreshFits DEF n, C
<1>7. Good(Append(C, b)) /\ InputOf(Append(C, b)) = InputOf(C) /\ Blocks(u) = Append(C, b)
  <2>1. Good(Append(C, b))
    BY <1>0, <1>2, <1>6, AppendGood
  <2>2. InputOf(Append(C, b)) = InputOf(C) \cup Input(b)
    BY <1>0, <1>2, AppendedList
  <2>3. Blocks(u) = Append(C, b)
    BY <1>4, Speculating
  <2> QED BY <1>6, <2>1, <2>2, <2>3
<1>8. Blocks(s) = C
    BY Waiting DEF C
<1>9. u.unapplied \cap InputOf(Blocks(u)) = {} /\ Kept(u) = Kept(s)
    BY <1>4, <1>7, <1>8 DEF Sane, Kept
<1>10. Sane(u)
    BY <1>0, <1>4, <1>5, <1>7, <1>9 DEF Sane, n
<1> QED BY <1>3, <1>4, <1>9, <1>10 DEF Frame, u, C

\* u is s with its pending block as the head.
Committed(s, u) ==
    /\ Sane(u) /\ u.pending = {} /\ Frame(s, u) /\ Kept(u) = Kept(s)
    /\ Len(u.chain) = Len(s.chain) + 1 /\ \A i \in 1..Len(s.chain) : u.chain[i] = s.chain[i]
    /\ \A b \in s.pending : Last(u.chain).time = b.time

LEMMA BlockCommitted ==
    ASSUME NEW s, Sane(s), s.pending # {}, NEW own \in BOOLEAN
    PROVE  Committed(s, commit_block(s, own))
<1>b. PICK b : s.pending = {b}
    BY DEF Sane
<1> DEFINE u == commit_block(s, own)
           C == s.chain
           c == [b EXCEPT !.own = own, !.mode = "none"]
<1>0. s \in NodeRec /\ C \in Seq(BlockRec) /\ Good(C) /\ b \in BlockRec /\ Fits(C, b) /\ Len(C) > 0
      /\ InputOf(Blocks(s)) = InputOf(C) \cup Input(b)
    BY <1>b, SaneParts DEF Sane
<1>1. /\ c.time = b.time /\ c.receipts = b.receipts /\ c.index = b.index /\ c.generated = b.generated
    BY <1>0 DEF BlockRec
<1>2. c \in BlockRec
    BY <1>0, Zenon DEF BlockRec, Mode
<1> HIDE DEF c
<1>3. Fits(C, c) /\ Input(c) = Input(b)
    BY <1>0, <1>1, SameFits
<1>4. /\ u.pending = {} /\ u.chain = Append(C, c) /\ u.refused = s.refused /\ u.unapplied = s.unapplied
      /\ u.answer = s.answer /\ u.incoming = s.incoming /\ u.persisted = s.persisted /\ u.weight = s.weight
      /\ u = [s EXCEPT !.chain = Append(C, c), !.pending = {}]
  <2>1. Pending(s) = b
    BY <1>b, Speculating
  <2> QED BY <1>0, <2>1 DEF commit_block, NodeRec, c
<1> HIDE DEF u, C
<1>5. /\ Append(C, c) \in Seq(BlockRec) /\ Len(Append(C, c)) = Len(C) + 1 /\ Len(C) \in Nat
      /\ \A i \in 1..Len(C) : Append(C, c)[i] = C[i]
      /\ Append(C, c)[Len(C) + 1] = c
      /\ InputOf(Append(C, c)) = InputOf(C) \cup Input(c)
    BY <1>0, <1>2, AppendedList
<1>6. Good(Append(C, c))
    BY <1>0, <1>2, <1>3, AppendGood
<1>7. u \in NodeRec
    BY <1>0, <1>4, <1>5 DEF NodeRec
<1>8. Blocks(u) = Append(C, c)
    BY <1>4, Waiting
<1>9. InputOf(Blocks(u)) = InputOf(Blocks(s))
    BY <1>0, <1>3, <1>5, <1>8
<1>10. Sane(u)
  <2>1. u.unapplied \cap InputOf(Blocks(u)) = {}
    BY <1>4, <1>9 DEF Sane
  <2>2. Len(u.chain) > 0
    BY <1>4, <1>5
  <2>3. Good(Blocks(u)) /\ u.pending = {}
    BY <1>4, <1>6, <1>8
  <2> QED BY <1>7, <2>1, <2>2, <2>3 DEF Sane
<1>11. Kept(u) = Kept(s)
    BY <1>4, <1>9 DEF Kept
<1>12. Last(u.chain).time = b.time
    BY <1>1, <1>4, <1>5 DEF Last
<1>13. Committed(s, u)
    BY <1>b, <1>4, <1>5, <1>10, <1>11, <1>12 DEF Frame, Committed, C
<1> QED BY <1>13 DEF u

LEMMA BlockPopped ==
    ASSUME NEW s, Sane(s), s.pending = {}, Len(s.chain) > 1
    PROVE  LET u == pop_block(s)
           IN  /\ Sane(u) /\ u.pending = {} /\ Frame(s, u) /\ u.refused = s.refused
               /\ Last(s.chain).own => Kept(u) = Kept(s)
               /\ Len(u.chain) = Len(s.chain) - 1 /\ \A i \in 1..Len(u.chain) : u.chain[i] = s.chain[i]
<1> DEFINE u == pop_block(s)
           C == s.chain
           n == Len(C)
           b == C[n]
           F == Front(C)
           more == IF Last(C).own THEN s.unapplied \cup Input(Last(C)) ELSE s.unapplied
<1>0. s \in NodeRec /\ C \in Seq(BlockRec) /\ Good(C) /\ n \in Nat /\ n > 1 /\ Blocks(s) = C
    BY SaneParts, Waiting DEF Sane
<1>1. F \in Seq(BlockRec) /\ Len(F) = n - 1 /\ (\A i \in 1..(n - 1) : F[i] = C[i]) /\ Last(C) = b /\ b \in BlockRec
    BY <1>0 DEF Front, Last
<1>2. C = Append(F, b)
    BY <1>0, <1>1
<1>3. /\ u.pending = {} /\ u.chain = F /\ u.refused = s.refused /\ u.unapplied = more
      /\ u.answer = s.answer /\ u.incoming = s.incoming /\ u.persisted = s.persisted /\ u.weight = s.weight
      /\ u = [s EXCEPT !.chain = F, !.unapplied = more]
    BY <1>0 DEF pop_block, NodeRec
<1> HIDE DEF u, C, b, F, n
<1>4. Good(F) /\ Fits(F, b) /\ InputOf(C) = InputOf(F) \cup Input(b)
  <2>1. Good(Append(F, b))
    BY <1>0, <1>2
  <2>2. Good(F) /\ Fits(F, b)
    BY <1>1, <2>1, GoodAppend
  <2>3. InputOf(Append(F, b)) = InputOf(F) \cup Input(b)
    BY <1>1, AppendedList
  <2> QED BY <1>2, <2>2, <2>3
<1>5. Input(b) \subseteq Trx /\ Input(b) \cap InputOf(F) = {}
    BY <1>1, <1>4, InputIs DEF Fits
<1>6. s.unapplied \in SUBSET Trx /\ s.unapplied \cap InputOf(C) = {}
    BY <1>0, StateFields DEF Sane
<1>7. more \in SUBSET Trx /\ more \cap InputOf(F) = {} /\ (b.own => more = s.unapplied \cup Input(b))
    BY <1>1, <1>4, <1>5, <1>6
<1> HIDE DEF more
<1>8. u \in NodeRec
    BY <1>0, <1>1, <1>3, <1>7 DEF NodeRec
<1>9. Blocks(u) = F
    BY <1>3, Waiting
<1>10. Sane(u)
    BY <1>0, <1>1, <1>3, <1>4, <1>7, <1>8, <1>9 DEF Sane
<1>11. b.own => Kept(u) = Kept(s)
    BY <1>0, <1>3, <1>4, <1>7, <1>9 DEF Kept
<1> QED BY <1>1, <1>3, <1>10, <1>11 DEF Frame, u, C, n

LEMMA BlockReapplied ==
    ASSUME NEW s, Sane(s), s.pending = {}, NEW b \in BlockRec, Good(Append(s.chain, b))
    PROVE  LET u == reapply(s, b)
           IN  /\ Sane(u) /\ u.pending = {} /\ Frame(s, u) /\ u.chain = Append(s.chain, b)
               /\ Kept(s) \subseteq Kept(u)
<1> DEFINE u == reapply(s, b)
           C == s.chain
<1>0. s \in NodeRec /\ C \in Seq(BlockRec) /\ Blocks(s) = C
    BY SaneParts, Waiting DEF Sane
<1>1. /\ u.pending = {} /\ u.chain = Append(C, b) /\ u.unapplied = s.unapplied \ Input(b)
      /\ u.answer = s.answer /\ u.incoming = s.incoming /\ u.persisted = s.persisted /\ u.weight = s.weight
      /\ u.refused = s.refused
      /\ u = [s EXCEPT !.chain = Append(C, b), !.unapplied = s.unapplied \ Input(b)]
    BY <1>0 DEF reapply, NodeRec
<1>g. Good(Append(C, b)) /\ s.unapplied \cap InputOf(C) = {}
    BY <1>0 DEF Sane
<1> HIDE DEF u, C
<1>2. /\ Append(C, b) \in Seq(BlockRec) /\ Len(Append(C, b)) = Len(C) + 1 /\ Len(C) \in Nat
      /\ InputOf(Append(C, b)) = InputOf(C) \cup Input(b)
    BY <1>0, AppendedList
<1>3. s.unapplied \ Input(b) \in SUBSET Trx
    BY <1>0, StateFields
<1>4. u \in NodeRec
    BY <1>0, <1>1, <1>2, <1>3 DEF NodeRec
<1>5. Blocks(u) = Append(C, b)
    BY <1>1, Waiting
<1>6. u.unapplied \cap InputOf(Blocks(u)) = {}
    BY <1>1, <1>2, <1>5, <1>g
<1>7. Sane(u)
  <2>2. Len(u.chain) > 0
    BY <1>1, <1>2
  <2>3. Good(Blocks(u)) /\ u.pending = {}
    BY <1>1, <1>5, <1>g
  <2> QED BY <1>4, <1>6, <2>2, <2>3 DEF Sane
<1>8. Kept(s) \subseteq Kept(u)
    BY <1>0, <1>1, <1>2, <1>5 DEF Kept
<1> QED BY <1>1, <1>7, <1>8 DEF Frame, u, C

(* u is s with more in its pending block. *)
Ahead(s, u) ==
    /\ Sane(u)
    /\ \E c : u.pending = {c} /\ c.time = Pending(s).time /\ c.mode = Pending(s).mode
    /\ u.chain = s.chain
    /\ InputOf(Blocks(s)) \subseteq InputOf(Blocks(u)) /\ s.refused \subseteq u.refused

LEMMA AheadItself ==
    ASSUME NEW s, Sane(s), s.pending # {}
    PROVE  Ahead(s, s)
<1>1. PICK b : s.pending = {b}
    BY DEF Sane
<1>2. Pending(s) = b
    BY <1>1, Speculating
<1> QED BY <1>1, <1>2 DEF Ahead

LEMMA AheadTwice ==
    ASSUME NEW s, NEW u, NEW v, Ahead(s, u), Ahead(u, v)
    PROVE  Ahead(s, v) /\ Pending(u).time = Pending(s).time /\ Pending(u).mode = Pending(s).mode
<1>1. PICK b : u.pending = {b} /\ b.time = Pending(s).time /\ b.mode = Pending(s).mode
    BY DEF Ahead
<1>2. Pending(u) = b
    BY <1>1, Speculating
<1> QED BY <1>1, <1>2 DEF Ahead

LEMMA AheadTime ==
    ASSUME NEW s, NEW u, Ahead(s, u)
    PROVE  /\ Pending(u).time = Pending(s).time /\ Pending(u).mode = Pending(s).mode
           /\ Sane(u) /\ u.pending # {}
<1>1. PICK b : u.pending = {b} /\ b.time = Pending(s).time /\ b.mode = Pending(s).mode
    BY DEF Ahead
<1>2. Pending(u) = b
    BY <1>1, Speculating
<1> QED BY <1>1, <1>2 DEF Ahead

(* The pending block is replaced by one that fits and carries at least as much. *)
LEMMA PendingReplaced ==
    ASSUME NEW s, Sane(s), NEW b, s.pending = {b}, NEW c \in BlockRec, Fits(s.chain, c),
           Input(b) \subseteq Input(c), c.time = b.time, c.mode = b.mode,
           NEW u \in NodeRec, u.chain = s.chain, u.pending = {c}, s.refused \subseteq u.refused,
           u.unapplied \cap (InputOf(s.chain) \cup Input(c)) = {}
    PROVE  Ahead(s, u) /\ InputOf(Blocks(u)) = InputOf(s.chain) \cup Input(c)
<1> DEFINE C == s.chain
<1>0. C \in Seq(BlockRec) /\ Good(C) /\ InputOf(Blocks(s)) = InputOf(C) \cup Input(b) /\ Len(C) > 0
    BY SaneParts DEF Sane
<1>1. Pending(s) = b /\ Blocks(u) = Append(C, c)
    BY Speculating
<1>h. Fits(C, c) /\ u.chain = C /\ u.unapplied \cap (InputOf(C) \cup Input(c)) = {}
    OBVIOUS
<1> HIDE DEF C
<1>2. Good(Append(C, c))
    BY <1>0, <1>h, AppendGood
<1>3. InputOf(Append(C, c)) = InputOf(C) \cup Input(c)
    BY <1>0, AppendedList
<1>4. Sane(u)
  <2>1. u.unapplied \cap InputOf(Blocks(u)) = {}
    BY <1>1, <1>3, <1>h
  <2>2. Good(Blocks(u)) /\ Len(u.chain) > 0
    BY <1>0, <1>1, <1>2, <1>h
  <2> QED BY <2>1, <2>2 DEF Sane
<1>5. InputOf(Blocks(s)) \subseteq InputOf(Blocks(u))
    BY <1>0, <1>1, <1>3
<1> QED BY <1>1, <1>3, <1>4, <1>5 DEF Ahead, C

Verdict == {"ok", "invalid", "subjective", "slow"}

LEMMA VerdictIs ==
    ASSUME NEW s, NEW t, NEW e
    PROVE  /\ verdict(s, t, e) \in Verdict
           /\ verdict(s, t, e) = "ok" => ~ (Expiration[t] < Pending(s).time) /\ t \notin Pending(s).index
BY DEF verdict, Verdict

LEMMA TransactionPushed ==
    ASSUME NEW s, Sane(s), s.pending # {}, NEW t \in Trx, NEW v \in Verdict,
           v = "ok" => ~ (Expiration[t] < Pending(s).time) /\ t \notin Pending(s).index
    PROVE  LET u == push_transaction(s, t, v)
           IN  /\ Ahead(s, u) /\ Frame(s, u) /\ Kept(s) \subseteq Kept(u)
               /\ v = "ok" => t \in InputOf(Blocks(u))
               /\ v = "invalid" => t \in u.refused
               /\ Pending(s).generated \subseteq Pending(u).generated
<1> DEFINE u == push_transaction(s, t, v)
           C == s.chain
<1>1. PICK b : s.pending = {b}
    BY DEF Sane
<1>2. /\ s \in NodeRec /\ C \in Seq(BlockRec) /\ Good(C) /\ b \in BlockRec /\ Fits(C, b) /\ Pending(s) = b
      /\ InputOf(Blocks(s)) = InputOf(C) \cup Input(b) /\ s.unapplied \cap InputOf(Blocks(s)) = {}
    BY <1>1, SaneParts, Speculating DEF Sane
<1>3. CASE v = "ok"
  <2> DEFINE c == with_input(b, t)
  <2>1. Expiration[t] >= b.time
    <3>1. Expiration[t] \in Nat /\ b.time \in Nat
      BY <1>2, FlowAssumption DEF BlockRec
    <3> QED BY <1>2, <1>3, <3>1
  <2>2. c \in BlockRec /\ Fits(C, c) /\ Input(c) = Input(b) \cup {t} /\ c.time = b.time /\ c.mode = b.mode
        /\ b.generated \subseteq c.generated
    BY <1>2, <1>3, <2>1, InputFits
  <2>3. {with_input(e, t) : e \in s.pending} = {c}
    BY <1>1
  <2> HIDE DEF c
  <2>4. u = [s EXCEPT !.pending = {c}, !.unapplied = s.unapplied \ {t}]
    BY <1>3, <2>3 DEF push_transaction
  <2> HIDE DEF u, C
  <2>5. /\ u.pending = {c} /\ u.chain = s.chain /\ u.unapplied = s.unapplied \ {t} /\ u.refused = s.refused
        /\ u.answer = s.answer /\ u.incoming = s.incoming /\ u.persisted = s.persisted /\ u.weight = s.weight
    BY <1>2, <2>4 DEF NodeRec
  <2>6. u \in NodeRec
    BY <1>2, <2>2, <2>4 DEF NodeRec
  <2>7. u.unapplied \cap (InputOf(s.chain) \cup Input(c)) = {}
    BY <1>2, <2>2, <2>5 DEF C
  <2>8. Ahead(s, u) /\ InputOf(Blocks(u)) = InputOf(s.chain) \cup Input(c)
    BY <1>1, <2>2, <2>5, <2>6, <2>7, PendingReplaced DEF C
  <2>9. t \in InputOf(Blocks(u)) /\ Kept(s) \subseteq Kept(u)
    BY <1>2, <2>2, <2>5, <2>8 DEF Kept, C
  <2>10. Pending(u) = c
    BY <2>5, Speculating
  <2> QED BY <1>2, <1>3, <2>2, <2>5, <2>8, <2>9, <2>10 DEF Frame, u
<1>4. CASE v = "invalid"
  <2>4. u = [s EXCEPT !.unapplied = s.unapplied \ {t}, !.refused = s.refused \cup {t}]
    BY <1>4 DEF push_transaction
  <2> HIDE DEF u
  <2>5. /\ u.pending = s.pending /\ u.chain = s.chain /\ u.unapplied = s.unapplied \ {t}
        /\ u.refused = s.refused \cup {t}
        /\ u.answer = s.answer /\ u.incoming = s.incoming /\ u.persisted = s.persisted /\ u.weight = s.weight
    BY <1>2, <2>4 DEF NodeRec
  <2>6. u \in NodeRec
    BY <1>2, <2>4 DEF NodeRec
  <2>7. u.unapplied \cap (InputOf(s.chain) \cup Input(b)) = {}
    BY <1>2, <2>5
  <2>8. Ahead(s, u) /\ InputOf(Blocks(u)) = InputOf(s.chain) \cup Input(b)
    <3>1. /\ b \in BlockRec /\ Fits(s.chain, b) /\ u.pending = {b} /\ u.chain = s.chain
          /\ s.refused \subseteq u.refused /\ Input(b) \subseteq Input(b)
      BY <1>1, <1>2, <2>5
    <3> QED BY <1>1, <2>6, <2>7, <3>1, PendingReplaced
  <2>9. t \in u.refused /\ Kept(s) \subseteq Kept(u)
    BY <1>2, <2>5, <2>8 DEF Kept
  <2>10. Pending(u) = Pending(s)
    BY <2>5 DEF Pending
  <2> QED BY <1>4, <2>5, <2>8, <2>9, <2>10 DEF Frame, u
<1>5. CASE v \notin {"ok", "invalid"}
  <2>1. u = s
    BY <1>5 DEF push_transaction
  <2> QED BY <1>5, <2>1, AheadItself DEF Frame
<1> QED BY <1>3, <1>4, <1>5

LEMMA ScheduledPushed ==
    ASSUME NEW s, Sane(s), s.pending # {}, NEW g \in Pending(s).generated,
           NEW v \in {"subjective", "slow"} \cup (Status \ {"input"})
    PROVE  LET u == push_scheduled_transaction(s, g, v)
           IN  /\ Ahead(s, u) /\ Frame(s, u) /\ Kept(s) \subseteq Kept(u)
               /\ Pending(s).generated \ {g} \subseteq Pending(u).generated
<1> DEFINE u == push_scheduled_transaction(s, g, v)
           C == s.chain
<1>1. PICK b : s.pending = {b}
    BY DEF Sane
<1>2. /\ s \in NodeRec /\ C \in Seq(BlockRec) /\ Good(C) /\ b \in BlockRec /\ Fits(C, b) /\ Pending(s) = b
      /\ InputOf(Blocks(s)) = InputOf(C) \cup Input(b) /\ s.unapplied \cap InputOf(Blocks(s)) = {}
    BY <1>1, SaneParts, Speculating DEF Sane
<1>3. CASE v \notin {"subjective", "slow"}
  <2> DEFINE c == retired(b, g, v)
  <2>1. v \in Status \ {"input"} /\ g \in b.generated
    BY <1>2, <1>3
  <2>2. c \in BlockRec /\ Fits(C, c) /\ Input(c) = Input(b) /\ c.time = b.time /\ c.mode = b.mode
        /\ c.generated = b.generated \ {g}
    BY <1>2, <2>1, RetireFits
  <2>3. {[e EXCEPT !.receipts = Append(@, Receipt(g.id, v)), !.generated = @ \ {g}] : e \in s.pending} = {c}
    BY <1>1 DEF retired
  <2> HIDE DEF c
  <2>4. u = [s EXCEPT !.pending = {c}]
    BY <1>3, <2>3 DEF push_scheduled_transaction
  <2> HIDE DEF u, C
  <2>5. /\ u.pending = {c} /\ u.chain = s.chain /\ u.unapplied = s.unapplied /\ u.refused = s.refused
        /\ u.answer = s.answer /\ u.incoming = s.incoming /\ u.persisted = s.persisted /\ u.weight = s.weight
    BY <1>2, <2>4 DEF NodeRec
  <2>6. u \in NodeRec
    BY <1>2, <2>2, <2>4 DEF NodeRec
  <2>7. u.unapplied \cap (InputOf(s.chain) \cup Input(c)) = {}
    BY <1>2, <2>2, <2>5 DEF C
  <2>8. Ahead(s, u) /\ InputOf(Blocks(u)) = InputOf(s.chain) \cup Input(c)
    BY <1>1, <2>2, <2>5, <2>6, <2>7, PendingReplaced DEF C
  <2>9. Kept(s) \subseteq Kept(u)
    BY <1>2, <2>2, <2>5, <2>8 DEF Kept, C
  <2>10. Pending(u) = c
    BY <2>5, Speculating
  <2> QED BY <1>2, <2>2, <2>5, <2>8, <2>9, <2>10 DEF Frame, u
<1>4. CASE v \in {"subjective", "slow"}
  <2>1. u = s
    BY <1>4 DEF push_scheduled_transaction
  <2> QED BY <2>1, AheadItself DEF Frame
<1> QED BY <1>3, <1>4

-----------------------------------------------------------------------------
(* Submissions *)

\* A submission is in one place; P are those whose keys are being recovered.
Tidy(s, P) ==
    /\ IsInjective(s.incoming)
    /\ \A x \in Range(s.incoming) : s.answer[x] = "none" /\ x \notin P
    /\ \A x \in P : s.answer[x] = "none"

Done(s) == InputOf(Blocks(s)) \cup s.refused

\* What was accepted is kept, and what is to be persisted is remembered.
Promises(s) ==
    /\ \A x \in Submission : s.answer[x] = "ok" /\ setup.producers /\ Expiration[TrxOf[x]] > now + 1
          => TrxOf[x] \in Kept(s)
    /\ \A x \in Persist : s.answer[x] = "ok" /\ Expiration[TrxOf[x]] > now + 2 => TrxOf[x] \in s.persisted
    /\ s.persisted \subseteq Kept(s)

SameBlocks(u, v) ==
    v.chain = u.chain /\ v.pending = u.pending /\ v.unapplied = u.unapplied /\ v.refused = u.refused

LEMMA BlocksSame ==
    ASSUME NEW u, NEW v, SameBlocks(u, v)
    PROVE  /\ Blocks(v) = Blocks(u) /\ Pending(v) = Pending(u) /\ Kept(v) = Kept(u) /\ Done(v) = Done(u)
           /\ Sane(u) /\ v \in NodeRec => Sane(v)
           /\ \A s : Ahead(s, u) /\ v \in NodeRec => Ahead(s, v)
<1>1. Blocks(v) = Blocks(u) /\ Pending(v) = Pending(u)
    BY DEF SameBlocks, Blocks, Pending
<1>2. Kept(v) = Kept(u) /\ Done(v) = Done(u)
    BY <1>1 DEF SameBlocks, Kept, Done
<1>3. Sane(u) /\ v \in NodeRec => Sane(v)
    BY <1>1 DEF SameBlocks, Sane
<1>4. ASSUME NEW s, Ahead(s, u), v \in NodeRec PROVE Ahead(s, v)
    BY <1>1, <1>3, <1>4 DEF SameBlocks, Ahead
<1> QED BY <1>1, <1>2, <1>3, <1>4

(* Nothing is broken by having more. *)
LEMMA PromisesKept ==
    ASSUME NEW s, NEW u, Promises(s), Kept(s) \subseteq Kept(u), u.answer = s.answer,
           u.persisted = s.persisted
    PROVE  Promises(u)
BY DEF Promises

LEMMA Responded ==
    ASSUME NEW u \in NodeRec, NEW x \in Submission, NEW a \in Answer
    PROVE  LET v == respond(u, x, a)
           IN  /\ v \in NodeRec /\ SameBlocks(u, v)
               /\ v.incoming = u.incoming /\ v.persisted = u.persisted /\ v.weight = u.weight
               /\ v.answer[x] = a /\ \A y \in Submission \ {x} : v.answer[y] = u.answer[y]
<1> DEFINE v == respond(u, x, a)
           w == [u.answer EXCEPT ![x] = a]
<1>1. v = [u EXCEPT !.answer = w]
    BY DEF respond
<1>2. w \in [Submission -> Answer] /\ w[x] = a /\ \A y \in Submission \ {x} : w[y] = u.answer[y]
    BY DEF NodeRec
<1> HIDE DEF w, v
<1>3. v \in NodeRec
    BY <1>1, <1>2 DEF NodeRec
<1>4. /\ v.chain = u.chain /\ v.pending = u.pending /\ v.unapplied = u.unapplied /\ v.refused = u.refused
      /\ v.incoming = u.incoming /\ v.persisted = u.persisted /\ v.weight = u.weight /\ v.answer = w
    BY <1>1 DEF NodeRec
<1> QED BY <1>2, <1>3, <1>4 DEF SameBlocks, v

LEMMA TidyAnswered ==
    ASSUME NEW u \in NodeRec, NEW P \in SUBSET Submission, Tidy(u, P), NEW x \in Submission,
           x \notin Range(u.incoming), x \notin P,
           NEW v, v.incoming = u.incoming, \A y \in Submission \ {x} : v.answer[y] = u.answer[y]
    PROVE  Tidy(v, P)
<1>1. Range(u.incoming) \subseteq Submission
    BY StateFields DEF Range
<1> QED BY <1>1 DEF Tidy

LEMMA TidyQueued ==
    ASSUME NEW u \in NodeRec, NEW P \in SUBSET Submission, Tidy(u, P), NEW x \in Submission,
           x \notin Range(u.incoming), x \notin P, u.answer[x] = "none",
           NEW v, v.incoming = Append(u.incoming, x), v.answer = u.answer
    PROVE  Tidy(v, P) /\ Len(v.incoming) = Len(u.incoming) + 1
<1> DEFINE q == u.incoming
           n == Len(q)
           r == Append(q, x)
<1>1. /\ q \in Seq(Submission) /\ n \in Nat /\ DOMAIN q = 1..n /\ DOMAIN r = 1..(n + 1)
      /\ Len(r) = n + 1 /\ r[n + 1] = x /\ \A i \in 1..n : r[i] = q[i]
    BY StateFields
<1>2. \A i \in 1..(n + 1) : i \in 1..n \/ i = n + 1
    BY <1>1
<1>h. v.incoming = r /\ x \notin Range(q) /\ IsInjective(q) /\ \A y \in Range(q) : u.answer[y] = "none" /\ y \notin P
    BY DEF Tidy
<1> HIDE DEF r, q, n
<1>3. \A i \in 1..n : q[i] # x /\ q[i] \in Range(q)
    BY <1>1, <1>h DEF Range
<1>4. IsInjective(r)
    BY <1>1, <1>2, <1>3, <1>h DEF IsInjective
<1>5. \A y \in Range(r) : y \in Range(q) \/ y = x
    BY <1>1, <1>2 DEF Range
<1> QED BY <1>1, <1>4, <1>5, <1>h DEF Tidy, q, n

Handled(s, u, P) ==
    /\ Tidy(u, P)
    /\ Kept(s) \subseteq Kept(u)
    /\ Promises(s) => Promises(u)
    /\ s.persisted \subseteq Done(s) => u.persisted \subseteq Done(u)
    /\ u.weight = s.weight
    /\ Len(u.incoming) >= Len(s.incoming)

LEMMA NotProcessed ==
    ASSUME NEW s, Sane(s), NEW P \in SUBSET Submission, Tidy(s, P), NEW x \in Submission,
           x \notin Range(s.incoming), x \notin P, s.answer[x] = "none", NEW e, s.pending = {}
    PROVE  LET u == process_incoming_transaction_async(s, x, e)
           IN  Sane(u) /\ u.pending = {} /\ Handled(s, u, P)
<1> DEFINE u == process_incoming_transaction_async(s, x, e)
<1>0. s \in NodeRec /\ Len(s.incoming) \in Nat /\ s.incoming \in Seq(Submission)
    BY StateFields DEF Sane
<1>1. u = [s EXCEPT !.incoming = Append(s.incoming, x)]
    BY DEF process_incoming_transaction_async
<1> HIDE DEF u
<1>2. /\ u.chain = s.chain /\ u.pending = s.pending /\ u.unapplied = s.unapplied /\ u.refused = s.refused
      /\ u.incoming = Append(s.incoming, x) /\ u.persisted = s.persisted /\ u.weight = s.weight
      /\ u.answer = s.answer
    BY <1>0, <1>1 DEF NodeRec
<1>3. u \in NodeRec
  <2>1. Append(s.incoming, x) \in Seq(Submission)
    BY <1>0
  <2> QED BY <1>0, <1>1, <2>1 DEF NodeRec
<1>4. SameBlocks(s, u)
    BY <1>2 DEF SameBlocks
<1>5. Kept(u) = Kept(s) /\ Done(u) = Done(s) /\ Sane(u)
    BY <1>3, <1>4, BlocksSame
<1>6. Tidy(u, P) /\ Len(u.incoming) = Len(s.incoming) + 1
    BY <1>0, <1>2, TidyQueued
<1>7. Promises(s) => Promises(u)
    BY <1>2, <1>5, PromisesKept
<1> QED BY <1>0, <1>2, <1>5, <1>6, <1>7 DEF Handled, u

(* A submission that is answered: u is s after its transaction was pushed, or s
   itself, w the same with more persisted, and x gets its answer. *)
LEMMA AnsweredHandled ==
    ASSUME NEW s, Sane(s), NEW P \in SUBSET Submission, Tidy(s, P), NEW x \in Submission,
           x \notin Range(s.incoming), x \notin P,
           NEW u, Ahead(s, u), Kept(s) \subseteq Kept(u),
           u.answer = s.answer, u.incoming = s.incoming, u.weight = s.weight,
           s.persisted \subseteq u.persisted, u.persisted \subseteq s.persisted \cup Done(u),
           NEW a \in {"ok", "error"},
           a = "ok" => TrxOf[x] \in Done(u) /\ (x \in Persist => TrxOf[x] \in u.persisted)
    PROVE  LET v == respond(u, x, a) IN Ahead(s, v) /\ Handled(s, v, P) /\ Pending(v) = Pending(u)
<1> DEFINE v == respond(u, x, a)
           t == TrxOf[x]
<1>0. u \in NodeRec /\ s \in NodeRec /\ a \in Answer /\ Len(s.incoming) \in Nat
    BY StateFields DEF Ahead, Sane, Answer
<1>1. /\ v \in NodeRec /\ SameBlocks(u, v)
      /\ v.incoming = u.incoming /\ v.persisted = u.persisted /\ v.weight = u.weight
      /\ v.answer[x] = a /\ \A y \in Submission \ {x} : v.answer[y] = u.answer[y]
    BY <1>0, Responded
<1> HIDE DEF v
<1>2. Kept(v) = Kept(u) /\ Done(v) = Done(u) /\ Ahead(s, v) /\ Pending(v) = Pending(u)
    BY <1>1, BlocksSame
<1>3. Tidy(v, P)
    BY <1>0, <1>1, TidyAnswered
<1>4. Done(u) \subseteq Kept(u) /\ Done(s) \subseteq Done(u)
    BY DEF Done, Kept, Ahead
<1>5. ASSUME Promises(s) PROVE Promises(v)
  <2>1. v.persisted \subseteq Kept(v)
    BY <1>1, <1>2, <1>4, <1>5 DEF Promises
  <2>2. ASSUME NEW y \in Submission, v.answer[y] = "ok", setup.producers, Expiration[TrxOf[y]] > now + 1
        PROVE  TrxOf[y] \in Kept(v)
    <3>1. CASE y = x
      BY <1>1, <1>2, <1>4, <2>2, <3>1
    <3>2. CASE y # x
      BY <1>1, <1>2, <1>5, <2>2, <3>2 DEF Promises
    <3> QED BY <3>1, <3>2
  <2>3. ASSUME NEW y \in Persist, v.answer[y] = "ok", Expiration[TrxOf[y]] > now + 2
        PROVE  TrxOf[y] \in v.persisted
    <3>1. CASE y = x
      BY <1>1, <2>3, <3>1
    <3>2. CASE y # x
      <4>1. y \in Submission \ {x}
        BY <3>2, FlowAssumption
      <4> QED BY <1>1, <1>5, <2>3, <4>1 DEF Promises
    <3> QED BY <3>1, <3>2
  <2> QED BY <2>1, <2>2, <2>3 DEF Promises
<1>6. s.persisted \subseteq Done(s) => v.persisted \subseteq Done(v)
    BY <1>1, <1>2, <1>4
<1>7. Len(v.incoming) >= Len(s.incoming) /\ v.weight = s.weight /\ Kept(s) \subseteq Kept(v)
    BY <1>0, <1>1, <1>2
<1> QED BY <1>2, <1>3, <1>5, <1>6, <1>7 DEF Handled, v

LEMMA Processed ==
    ASSUME NEW s, Sane(s), NEW P \in SUBSET Submission, Tidy(s, P), NEW x \in Submission,
           x \notin Range(s.incoming), x \notin P, s.answer[x] = "none", NEW e, s.pending # {}
    PROVE  LET u == process_incoming_transaction_async(s, x, e)
           IN  Ahead(s, u) /\ Handled(s, u, P) /\ Pending(s).generated \subseteq Pending(u).generated
<1> DEFINE t == TrxOf[x]
           v == verdict(s, t, e)
           pushed == push_transaction(s, t, v)
           kept == [pushed EXCEPT !.persisted = IF x \in Persist THEN @ \cup {t} ELSE @]
           queued == [pushed EXCEPT !.incoming = Append(@, x)]
           u == process_incoming_transaction_async(s, x, e)
<1>0. t \in Trx
    BY FlowAssumption
<1>1. v \in Verdict /\ (v = "ok" => ~ (Expiration[t] < Pending(s).time) /\ t \notin Pending(s).index)
    BY VerdictIs
<1>2. u = IF Expiration[t] < Pending(s).time \/ t \in Pending(s).index THEN respond(s, x, "error")
          ELSE IF v = "ok" THEN respond(kept, x, "ok")
          ELSE IF v = "subjective" THEN queued
          ELSE respond(pushed, x, "error")
    BY DEF process_incoming_transaction_async
<1> HIDE DEF v, u
<1>3. /\ Ahead(s, pushed) /\ Frame(s, pushed) /\ Kept(s) \subseteq Kept(pushed)
      /\ v = "ok" => t \in InputOf(Blocks(pushed))
      /\ Pending(s).generated \subseteq Pending(pushed).generated
    BY <1>0, <1>1, TransactionPushed
<1>s. Ahead(s, s)
    BY AheadItself
<1> HIDE DEF pushed
<1>4. pushed \in NodeRec /\ pushed.persisted \in SUBSET Trx /\ pushed.incoming \in Seq(Submission)
      /\ s \in NodeRec /\ Len(s.incoming) \in Nat
    BY <1>3, StateFields DEF Ahead, Sane
<1>5. Ahead(s, respond(s, x, "error")) /\ Handled(s, respond(s, x, "error"), P)
      /\ Pending(respond(s, x, "error")) = Pending(s)
    BY <1>s, AnsweredHandled
<1>6. Ahead(s, respond(pushed, x, "error")) /\ Handled(s, respond(pushed, x, "error"), P)
      /\ Pending(respond(pushed, x, "error")) = Pending(pushed)
  <2>1. /\ pushed.answer = s.answer /\ pushed.incoming = s.incoming /\ pushed.weight = s.weight
        /\ s.persisted \subseteq pushed.persisted /\ pushed.persisted \subseteq s.persisted \cup Done(pushed)
    BY <1>3 DEF Frame
  <2> QED BY <1>3, <2>1, AnsweredHandled
<1>7. CASE v = "ok"
  <2> DEFINE more == IF x \in Persist THEN pushed.persisted \cup {t} ELSE pushed.persisted
  <2>1. kept = [pushed EXCEPT !.persisted = more]
    OBVIOUS
  <2>2. more \in SUBSET Trx /\ pushed.persisted \subseteq more /\ more \subseteq pushed.persisted \cup {t}
        /\ (x \in Persist => t \in more)
    BY <1>0, <1>4
  <2> HIDE DEF more, kept
  <2>3. kept \in NodeRec
    BY <1>4, <2>1, <2>2 DEF NodeRec
  <2>4. /\ kept.chain = pushed.chain /\ kept.pending = pushed.pending /\ kept.unapplied = pushed.unapplied
        /\ kept.refused = pushed.refused /\ kept.incoming = pushed.incoming /\ kept.answer = pushed.answer
        /\ kept.weight = pushed.weight /\ kept.persisted = more
    BY <1>4, <2>1 DEF NodeRec
  <2>5. SameBlocks(pushed, kept)
    BY <2>4 DEF SameBlocks
  <2>6. Ahead(s, kept) /\ Kept(kept) = Kept(pushed) /\ Done(kept) = Done(pushed) /\ Pending(kept) = Pending(pushed)
    BY <1>3, <2>3, <2>5, BlocksSame
  <2>7. t \in Done(pushed)
    BY <1>3, <1>7 DEF Done
  <2>8. /\ kept.answer = s.answer /\ kept.incoming = s.incoming /\ kept.weight = s.weight
        /\ s.persisted \subseteq kept.persisted /\ kept.persisted \subseteq s.persisted \cup Done(kept)
    BY <1>3, <2>2, <2>4, <2>6, <2>7 DEF Frame
  <2>9. t \in Done(kept) /\ (x \in Persist => t \in kept.persisted) /\ Kept(s) \subseteq Kept(kept)
    BY <1>3, <2>2, <2>4, <2>6, <2>7
  <2>10. Ahead(s, respond(kept, x, "ok")) /\ Handled(s, respond(kept, x, "ok"), P)
         /\ Pending(respond(kept, x, "ok")) = Pending(kept)
    BY <2>6, <2>8, <2>9, AnsweredHandled
  <2> QED BY <1>1, <1>2, <1>3, <1>7, <2>6, <2>10 DEF u
<1>8. CASE v = "subjective"
  <2>1. queued = [pushed EXCEPT !.incoming = Append(pushed.incoming, x)]
    OBVIOUS
  <2>2. Append(pushed.incoming, x) \in Seq(Submission)
    BY <1>4
  <2> HIDE DEF queued
  <2>3. queued \in NodeRec
    BY <1>4, <2>1, <2>2 DEF NodeRec
  <2>4. /\ queued.chain = pushed.chain /\ queued.pending = pushed.pending /\ queued.unapplied = pushed.unapplied
        /\ queued.refused = pushed.refused /\ queued.incoming = Append(pushed.incoming, x)
        /\ queued.answer = pushed.answer /\ queued.weight = pushed.weight /\ queued.persisted = pushed.persisted
    BY <1>4, <2>1 DEF NodeRec
  <2>5. SameBlocks(pushed, queued)
    BY <2>4 DEF SameBlocks
  <2>6. Ahead(s, queued) /\ Kept(queued) = Kept(pushed) /\ Done(queued) = Done(pushed)
        /\ Pending(queued) = Pending(pushed)
    BY <1>3, <2>3, <2>5, BlocksSame
  <2>7. queued.incoming = Append(s.incoming, x) /\ queued.answer = s.answer
        /\ queued.persisted = s.persisted /\ queued.weight = s.weight
    BY <1>3, <2>4 DEF Frame
  <2>8. Tidy(queued, P) /\ Len(queued.incoming) = Len(s.incoming) + 1
    BY <1>4, <2>7, TidyQueued
  <2>9. Kept(s) \subseteq Kept(queued) /\ Done(s) \subseteq Done(queued)
    BY <1>3, <2>6 DEF Ahead, Done
  <2>10. Promises(s) => Promises(queued)
    BY <2>7, <2>9, PromisesKept
  <2>11. Handled(s, queued, P)
    BY <1>4, <2>7, <2>8, <2>9, <2>10 DEF Handled
  <2> QED BY <1>2, <1>3, <1>5, <1>8, <2>6, <2>11 DEF u
<1>9. CASE v \notin {"ok", "subjective"}
    BY <1>2, <1>3, <1>5, <1>6, <1>9 DEF u
<1> QED BY <1>7, <1>8, <1>9

-----------------------------------------------------------------------------
(* A pass of start_block *)

Pass == [s : NodeRec, budget : Nat, scheduled : Nat, exhausted : BOOLEAN, left : Nat]

\* Persisted transactions are applied, if there was time.
Settled(w) == ~ w.exhausted => w.s.persisted \subseteq Done(w.s)

Running(w, P) ==
    /\ w \in Pass /\ Sane(w.s) /\ w.s.pending # {} /\ Tidy(w.s, P)
    /\ w.left <= Len(w.s.incoming)

Onward(w, u, P) ==
    /\ Running(u, P) /\ Ahead(w.s, u.s)
    /\ Promises(w.s) => Promises(u.s)
    /\ Settled(w) => Settled(u)

LEMMA OnwardItself ==
    ASSUME NEW w, NEW P, Running(w, P)
    PROVE  Onward(w, w, P)
<1>1. Ahead(w.s, w.s)
    BY AheadItself DEF Running
<1> QED BY <1>1 DEF Onward

LEMMA OnwardTwice ==
    ASSUME NEW w, NEW u, NEW v, NEW P, Onward(w, u, P), Onward(u, v, P)
    PROVE  Onward(w, v, P)
<1>1. Ahead(w.s, v.s)
    BY AheadTwice DEF Onward
<1> QED BY <1>1 DEF Onward

LEMMA PassFields ==
    ASSUME NEW w \in Pass
    PROVE  w.s \in NodeRec /\ w.budget \in Nat /\ w.scheduled \in Nat /\ w.left \in Nat
           /\ w.exhausted \in BOOLEAN
BY DEF Pass

LEMMA Spent ==
    ASSUME NEW w \in Pass
    PROVE  /\ spend(w) \in Pass /\ spend(w).s = w.s /\ spend(w).left = w.left
           /\ spend(w).scheduled = Higher(w.scheduled - 1, 0)
           /\ spend(w).exhausted = w.exhausted
           /\ \A a \in NodeRec : /\ [spend(w) EXCEPT !.s = a] \in Pass
                                 /\ [spend(w) EXCEPT !.s = a].s = a
                                 /\ [spend(w) EXCEPT !.s = a].left = w.left
                                 /\ [spend(w) EXCEPT !.s = a].exhausted = w.exhausted
<1> DEFINE b == Higher(w.budget - 1, 0)
           c == Higher(w.scheduled - 1, 0)
           u == [w EXCEPT !.budget = b, !.scheduled = c]
<1>1. b \in Nat /\ c \in Nat
    BY DEF Pass, Higher
<1>2. spend(w) = u
    BY DEF spend
<1> HIDE DEF b, c
<1>3. /\ u \in Pass /\ u.s = w.s /\ u.left = w.left /\ u.scheduled = c
      /\ u.exhausted = w.exhausted
    BY <1>1 DEF Pass
<1> HIDE DEF u
<1>4. \A a \in NodeRec : /\ [u EXCEPT !.s = a] \in Pass
                         /\ [u EXCEPT !.s = a].s = a
                         /\ [u EXCEPT !.s = a].left = w.left
                         /\ [u EXCEPT !.s = a].exhausted = w.exhausted
    BY <1>3 DEF Pass
<1> QED BY <1>2, <1>3, <1>4 DEF c

LEMMA QueueShorter ==
    ASSUME NEW s, Sane(s), NEW P \in SUBSET Submission, Tidy(s, P), Len(s.incoming) > 0
    PROVE  LET x == Head(s.incoming)
               u == [s EXCEPT !.incoming = Tail(@)]
           IN  /\ u \in NodeRec /\ Sane(u) /\ SameBlocks(s, u) /\ u.persisted = s.persisted /\ u.weight = s.weight
               /\ u.answer = s.answer
               /\ Tidy(u, P) /\ Len(u.incoming) = Len(s.incoming) - 1
               /\ x \in Submission /\ x \notin P /\ x \notin Range(u.incoming) /\ u.answer[x] = "none"
<1> DEFINE q == s.incoming
           n == Len(q)
           r == Tail(q)
           x == Head(q)
           u == [s EXCEPT !.incoming = Tail(@)]
<1>0. s \in NodeRec
    BY DEF Sane
<1>1. /\ q \in Seq(Submission) /\ n \in Nat /\ n > 0 /\ DOMAIN q = 1..n
      /\ r \in Seq(Submission) /\ Len(r) = n - 1 /\ DOMAIN r = 1..(n - 1)
      /\ x = q[1] /\ x \in Submission /\ \A i \in 1..(n - 1) : r[i] = q[i + 1]
    BY <1>0, StateFields
<1>2. u = [s EXCEPT !.incoming = r]
    OBVIOUS
<1>h. IsInjective(q) /\ (\A y \in Range(q) : s.answer[y] = "none" /\ y \notin P) /\ \A y \in P : s.answer[y] = "none"
    BY DEF Tidy
<1> HIDE DEF u, r, q, x, n
<1>3. /\ u.chain = s.chain /\ u.pending = s.pending /\ u.unapplied = s.unapplied /\ u.refused = s.refused
      /\ u.incoming = r /\ u.persisted = s.persisted /\ u.weight = s.weight /\ u.answer = s.answer
    BY <1>0, <1>2 DEF NodeRec
<1>4. u \in NodeRec
    BY <1>0, <1>1, <1>2 DEF NodeRec
<1>5. SameBlocks(s, u)
    BY <1>3 DEF SameBlocks
<1>6. Sane(u)
    BY <1>4, <1>5, BlocksSame
<1>7. \A i \in 1..(n - 1) : i + 1 \in 1..n /\ i + 1 # 1 /\ 1 \in 1..n
    BY <1>1
<1>8. x \notin Range(r) /\ x \in Range(q) /\ Range(r) \subseteq Range(q)
  <2>1. \A i \in 1..(n - 1) : q[i + 1] # q[1]
    BY <1>1, <1>7, <1>h DEF IsInjective
  <2>2. 1 \in 1..n
    BY <1>1
  <2>3. Range(q) = {q[i] : i \in 1..n} /\ Range(r) = {r[i] : i \in 1..(n - 1)}
    BY <1>1 DEF Range
  <2>4. \A i \in 1..(n - 1) : r[i] = q[i + 1] /\ i + 1 \in 1..n
    BY <1>1, <1>7
  <2> QED BY <1>1, <2>1, <2>2, <2>3, <2>4
<1>9. IsInjective(r)
  <2> SUFFICES ASSUME NEW i \in 1..(n - 1), NEW j \in 1..(n - 1), r[i] = r[j] PROVE i = j
    BY <1>1 DEF IsInjective
  <2>0. i + 1 \in DOMAIN q /\ j + 1 \in DOMAIN q /\ q[i + 1] = q[j + 1]
    BY <1>1, <1>7
  <2>1. i + 1 = j + 1
    BY <1>h, <2>0 DEF IsInjective
  <2> QED BY <1>1, <2>1
<1>10. Tidy(u, P)
    BY <1>3, <1>8, <1>9, <1>h DEF Tidy
<1>11. x \notin P /\ u.answer[x] = "none"
    BY <1>3, <1>8, <1>h
<1> QED BY <1>1, <1>3, <1>4, <1>5, <1>6, <1>8, <1>10, <1>11 DEF u, q, n, x, r

LEMMA Taken ==
    ASSUME NEW P \in SUBSET Submission, NEW w, Running(w, P), w.left > 0, NEW e
    PROVE  LET u == take_incoming(w, e)
           IN  /\ Onward(w, u, P) /\ u.left = w.left - 1 /\ u.s.weight = w.s.weight
               /\ u.exhausted = w.exhausted /\ u.scheduled = Higher(w.scheduled - 1, 0)
               /\ Pending(w.s).generated \subseteq Pending(u.s).generated
<1> DEFINE s == w.s
           x == Head(s.incoming)
           t == [s EXCEPT !.incoming = Tail(@)]
           a == process_incoming_transaction_async(t, x, e)
           u == take_incoming(w, e)
           l == w.left - 1
<1>0. w \in Pass /\ Sane(s) /\ s.pending # {} /\ Tidy(s, P) /\ w.left \in Nat /\ Len(s.incoming) \in Nat
      /\ Len(s.incoming) > 0 /\ w.left <= Len(s.incoming)
    BY PassFields, StateFields DEF Running
<1>1. u = [spend(w) EXCEPT !.left = spend(w).left - 1, !.s = a]
    BY DEF take_incoming
<1>2. /\ t \in NodeRec /\ Sane(t) /\ SameBlocks(s, t) /\ t.persisted = s.persisted /\ t.weight = s.weight
      /\ t.answer = s.answer
      /\ Tidy(t, P) /\ Len(t.incoming) = Len(s.incoming) - 1
      /\ x \in Submission /\ x \notin P /\ x \notin Range(t.incoming) /\ t.answer[x] = "none"
    BY <1>0, QueueShorter
<1> HIDE DEF s, t, x, u
<1>3. t.pending # {}
    BY <1>0, <1>2 DEF SameBlocks
<1>4. Ahead(t, a) /\ Handled(t, a, P) /\ Pending(t).generated \subseteq Pending(a).generated
    BY <1>2, <1>3, Processed
<1> HIDE DEF a
<1>5. Blocks(t) = Blocks(s) /\ Pending(t) = Pending(s) /\ Kept(t) = Kept(s) /\ Done(t) = Done(s)
    BY <1>2, BlocksSame
<1>6. Ahead(s, a)
    BY <1>2, <1>4, <1>5 DEF Ahead, SameBlocks
<1>7. a \in NodeRec /\ Sane(a) /\ a.pending # {} /\ Len(a.incoming) \in Nat
  <2>1. Sane(a) /\ a.pending # {} /\ a \in NodeRec
    BY <1>6, AheadTime DEF Sane
  <2>2. a.incoming \in Seq(Submission)
    BY <2>1, StateFields
  <2> QED BY <2>1, <2>2
<1>8. Promises(s) => Promises(a)
    BY <1>2, <1>4, <1>5 DEF Handled, Promises
<1>9. s.persisted \subseteq Done(s) => a.persisted \subseteq Done(a)
    BY <1>2, <1>4, <1>5 DEF Handled
<1>10. l \in Nat /\ l <= Len(a.incoming)
    BY <1>0, <1>2, <1>4, <1>7 DEF Handled
<1>11. /\ u \in Pass /\ u.s = a /\ u.left = l /\ u.exhausted = w.exhausted
       /\ u.scheduled = Higher(w.scheduled - 1, 0)
  <2> DEFINE z == spend(w)
  <2>1. /\ z \in Pass /\ z.left = w.left /\ z.scheduled = Higher(w.scheduled - 1, 0)
        /\ z.exhausted = w.exhausted
    BY <1>0, Spent
  <2> HIDE DEF z
  <2>2. u = [z EXCEPT !.left = l, !.s = a]
    BY <1>1, <2>1 DEF z
  <2> HIDE DEF l
  <2> QED BY <1>7, <1>10, <2>1, <2>2 DEF Pass
<1>12. Running(u, P)
    BY <1>4, <1>7, <1>10, <1>11 DEF Running, Handled
<1>13. Settled(w) => Settled(u)
    BY <1>9, <1>11 DEF Settled, s
<1>14. Onward(w, u, P)
    BY <1>6, <1>8, <1>11, <1>12, <1>13 DEF Onward, s
<1>15. u.s.weight = w.s.weight /\ Pending(w.s).generated \subseteq Pending(u.s).generated
    BY <1>2, <1>4, <1>5, <1>11 DEF Handled, s
<1> QED BY <1>11, <1>14, <1>15 DEF u

LEMMA TakenOften ==
    ASSUME NEW P \in SUBSET Submission, NEW w, Running(w, P), NEW e, NEW N \in Nat, N <= w.left
    PROVE  LET u == take_some(w, N, e)
           IN  Onward(w, u, P) /\ u.left = w.left - N /\ u.s.weight = w.s.weight
               /\ u.exhausted = w.exhausted
<1> DEFINE There(u, n) == /\ Onward(w, u, P) /\ u.left = w.left - n /\ u.s.weight = w.s.weight
                          /\ u.exhausted = w.exhausted
           D == [n \in 0..N |-> {u \in Pass : There(u, n)}]
           step(u) == take_incoming(u, e)
           g == [n \in 1..N |-> [d \in D[n - 1] |-> step(d)]]
           Eq(f) == f = [n \in 0..N |-> IF n = 0 THEN w ELSE step(f[n - 1])]
           h == CHOOSE f : Eq(f)
<1>0. w \in Pass /\ w.left \in Nat
    BY PassFields DEF Running
<1>1. ASSUME NEW n \in 1..N, NEW d \in D[n - 1] PROVE step(d) \in D[n] /\ g[n][d] = step(d)
  <2>0. n - 1 \in 0..N /\ n \in 0..N /\ n \in Nat
    OBVIOUS
  <2>1. d \in Pass /\ There(d, n - 1)
    BY <2>0
  <2>2. Running(d, P) /\ d.left = w.left - (n - 1)
    BY <2>1 DEF Onward
  <2>3. d.left > 0
    BY <1>0, <2>0, <2>2
  <2>4. /\ Onward(d, step(d), P) /\ step(d).left = d.left - 1 /\ step(d).s.weight = d.s.weight
        /\ step(d).exhausted = d.exhausted
    BY <2>2, <2>3, Taken
  <2> HIDE DEF step
  <2>5. Onward(w, step(d), P)
    BY <2>1, <2>4, OnwardTwice
  <2>6. step(d).left = w.left - n
    BY <1>0, <2>0, <2>2, <2>4
  <2>7. There(step(d), n) /\ step(d) \in Pass
    BY <2>1, <2>4, <2>5, <2>6 DEF Onward, Running
  <2> HIDE DEF There
  <2> QED BY <2>0, <2>7
<1>2. w \in D[0]
  <2>1. There(w, 0)
    BY <1>0, OnwardItself
  <2> QED BY <1>0, <2>1
<1> HIDE DEF step
<1>3. PICK f : Rounds(f, N, D, w, g)
  <2> HIDE DEF D, g
  <2> QED BY <1>1, <1>2, RoundsExist
<1>4. Eq(f)
  <2>1. /\ f = [n \in 0..N |-> f[n]] /\ f[0] = w /\ \A n \in 1..N : f[n] = g[n][f[n - 1]]
        /\ \A n \in 0..N : f[n] \in D[n]
    BY <1>3 DEF Rounds
  <2> HIDE DEF D, g
  <2>2. \A n \in 0..N : n # 0 => n \in 1..N /\ n - 1 \in 0..N
    OBVIOUS
  <2>3. \A n \in 0..N : f[n] = IF n = 0 THEN w ELSE step(f[n - 1])
    BY <1>1, <2>1, <2>2
  <2> QED BY <2>1, <2>3
<1>5. Eq(h)
    BY <1>4
<1>6. take_some(w, N, e) = h[N]
    BY DEF take_some, Repeat, step
<1> HIDE DEF h
<1>7. h[0] = w /\ \A n \in 1..N : h[n] = step(h[n - 1])
    BY <1>5
<1>8. \A n \in 0..N : h[n] \in D[n]
  <2> HIDE DEF D, g
  <2>1. \A n \in 1..N : h[n - 1] \in D[n - 1] => h[n] \in D[n]
    BY <1>1, <1>7
  <2> QED BY <1>2, <1>7, <2>1, RoundsKeep
<1>9. There(h[N], N)
    BY <1>8
<1> QED BY <1>6, <1>9

(* The node of a pass is changed where it does not matter. *)
LEMMA NodeReplaced ==
    ASSUME NEW P, NEW w, Running(w, P), NEW a \in NodeRec, SameBlocks(w.s, a),
           a.incoming = w.s.incoming, a.answer = w.s.answer, a.persisted = w.s.persisted
    PROVE  LET u == [w EXCEPT !.s = a]
           IN  /\ Onward(w, u, P) /\ u.s = a /\ u.left = w.left /\ u.scheduled = w.scheduled
               /\ u.budget = w.budget /\ u.exhausted = w.exhausted /\ Pending(a) = Pending(w.s)
<1> DEFINE u == [w EXCEPT !.s = a]
<1>0. w \in Pass
    BY DEF Running
<1>1. /\ u \in Pass /\ u.s = a /\ u.left = w.left /\ u.scheduled = w.scheduled /\ u.exhausted = w.exhausted
      /\ u.budget = w.budget
    BY <1>0 DEF Pass
<1> HIDE DEF u
<1>2. /\ Pending(a) = Pending(w.s) /\ Kept(a) = Kept(w.s) /\ Done(a) = Done(w.s) /\ Sane(a)
      /\ a.pending # {}
    BY BlocksSame DEF Running, SameBlocks
<1>3. Ahead(w.s, w.s)
    BY AheadItself DEF Running
<1>4. Ahead(w.s, a)
    BY <1>3, BlocksSame
<1>5. Tidy(a, P)
    BY DEF Running, Tidy
<1>6. Running(u, P)
    BY <1>1, <1>2, <1>5 DEF Running
<1>7. Promises(w.s) => Promises(a)
    BY <1>2, PromisesKept
<1>8. Settled(w) => Settled(u)
    BY <1>1, <1>2 DEF Settled
<1> QED BY <1>1, <1>2, <1>4, <1>6, <1>7, <1>8 DEF Onward, u

reweighed(w, k) == [w EXCEPT !.s.weight = k]

LEMMA Reweighed ==
    ASSUME NEW P, NEW w, Running(w, P), NEW k \in Int
    PROVE  LET u == reweighed(w, k)
           IN  /\ Onward(w, u, P) /\ u.s.weight = k /\ u.left = w.left /\ u.scheduled = w.scheduled
               /\ u.budget = w.budget /\ u.exhausted = w.exhausted /\ Pending(u.s) = Pending(w.s)
<1> DEFINE a == [w.s EXCEPT !.weight = k]
           u == reweighed(w, k)
<1>0. w \in Pass /\ w.s \in NodeRec
    BY PassFields DEF Running
<1>1. u = [w EXCEPT !.s = a]
    BY DEF reweighed
<1>2. a \in NodeRec
    BY <1>0 DEF NodeRec
<1>3. /\ a.chain = w.s.chain /\ a.pending = w.s.pending /\ a.unapplied = w.s.unapplied
      /\ a.refused = w.s.refused /\ a.weight = k
      /\ a.incoming = w.s.incoming /\ a.answer = w.s.answer /\ a.persisted = w.s.persisted
    BY <1>0 DEF NodeRec
<1> HIDE DEF a
<1>4. SameBlocks(w.s, a)
    BY <1>3 DEF SameBlocks
<1>5. LET v == [w EXCEPT !.s = a]
      IN  /\ Onward(w, v, P) /\ v.s = a /\ v.left = w.left /\ v.scheduled = w.scheduled
          /\ v.budget = w.budget /\ v.exhausted = w.exhausted /\ Pending(a) = Pending(w.s)
    BY <1>2, <1>3, <1>4, NodeReplaced
<1> HIDE DEF u
<1> QED BY <1>1, <1>3, <1>5 DEF u

LEMMA SharesTaken ==
    ASSUME NEW P \in SUBSET Submission, NEW w, Running(w, P), NEW e, NEW N \in Nat, N <= w.left,
           N <= w.scheduled
    PROVE  LET u == take_shares(w, N, e)
           IN  Onward(w, u, P) /\ u.left = w.left - N /\ u.s.weight = w.s.weight - N
               /\ u.scheduled = w.scheduled - N /\ u.exhausted = w.exhausted
               /\ Pending(w.s).generated \subseteq Pending(u.s).generated
<1> DEFINE There(u, n) == /\ Onward(w, u, P) /\ u.left = w.left - n /\ u.s.weight = w.s.weight - n
                          /\ u.scheduled = w.scheduled - n /\ u.exhausted = w.exhausted
                          /\ Pending(w.s).generated \subseteq Pending(u.s).generated
           D == [n \in 0..N |-> {u \in Pass : There(u, n)}]
           step(u) == [take_incoming(u, e) EXCEPT !.s.weight = @ - 1]
           g == [n \in 1..N |-> [d \in D[n - 1] |-> step(d)]]
           Eq(f) == f = [n \in 0..N |-> IF n = 0 THEN w ELSE step(f[n - 1])]
           h == CHOOSE f : Eq(f)
<1>0. w \in Pass /\ w.left \in Nat /\ w.scheduled \in Nat /\ w.s.weight \in Int
    BY PassFields, StateFields DEF Running
<1>1. ASSUME NEW n \in 1..N, NEW d \in D[n - 1] PROVE step(d) \in D[n] /\ g[n][d] = step(d)
  <2> DEFINE k == take_incoming(d, e)
  <2>0. n - 1 \in 0..N /\ n \in 0..N /\ n \in Nat
    OBVIOUS
  <2>1. d \in Pass /\ There(d, n - 1)
    BY <2>0
  <2>2. Running(d, P) /\ d.left = w.left - (n - 1) /\ d.scheduled = w.scheduled - (n - 1)
        /\ d.s.weight = w.s.weight - (n - 1)
    BY <2>1 DEF Onward
  <2>3. d.left > 0 /\ d.scheduled > 0 /\ d.scheduled \in Int
    BY <1>0, <2>0, <2>2
  <2>4. /\ Onward(d, k, P) /\ k.left = d.left - 1 /\ k.s.weight = d.s.weight
        /\ k.exhausted = d.exhausted /\ k.scheduled = Higher(d.scheduled - 1, 0)
        /\ Pending(d.s).generated \subseteq Pending(k.s).generated
    BY <2>2, <2>3, Taken
  <2>5. k.scheduled = d.scheduled - 1
    BY <2>3, <2>4 DEF Higher
  <2> HIDE DEF k
  <2>6. Running(k, P) /\ k.s.weight - 1 \in Int
    BY <1>0, <2>0, <2>2, <2>4 DEF Onward
  <2> DEFINE m == k.s.weight - 1
             r == reweighed(k, m)
  <2>m. m \in Int
    BY <2>6
  <2>8. step(d) = r
    BY DEF k, reweighed
  <2> HIDE DEF m
  <2>7. /\ Onward(k, r, P) /\ r.s.weight = m /\ r.left = k.left /\ r.scheduled = k.scheduled
        /\ r.exhausted = k.exhausted /\ Pending(r.s) = Pending(k.s)
    BY <2>6, <2>m, Reweighed
  <2> HIDE DEF step, r
  <2>9. Onward(w, r, P)
    BY <2>1, <2>4, <2>7, OnwardTwice
  <2>10. r.left = w.left - n /\ r.s.weight = w.s.weight - n /\ r.scheduled = w.scheduled - n
    BY <1>0, <2>0, <2>2, <2>4, <2>5, <2>7 DEF m
  <2>11. There(r, n) /\ r \in Pass
    BY <2>1, <2>4, <2>7, <2>9, <2>10 DEF Onward, Running
  <2> HIDE DEF There
  <2> QED BY <2>0, <2>8, <2>11
<1>2. w \in D[0]
  <2>1. There(w, 0)
    BY <1>0, OnwardItself
  <2> QED BY <1>0, <2>1
<1> HIDE DEF step
<1>3. PICK f : Rounds(f, N, D, w, g)
  <2> HIDE DEF D, g
  <2> QED BY <1>1, <1>2, RoundsExist
<1>4. Eq(f)
  <2>1. /\ f = [n \in 0..N |-> f[n]] /\ f[0] = w /\ \A n \in 1..N : f[n] = g[n][f[n - 1]]
        /\ \A n \in 0..N : f[n] \in D[n]
    BY <1>3 DEF Rounds
  <2> HIDE DEF D, g
  <2>2. \A n \in 0..N : n # 0 => n \in 1..N /\ n - 1 \in 0..N
    OBVIOUS
  <2>3. \A n \in 0..N : f[n] = IF n = 0 THEN w ELSE step(f[n - 1])
    BY <1>1, <2>1, <2>2
  <2> QED BY <2>1, <2>3
<1>5. Eq(h)
    BY <1>4
<1>6. take_shares(w, N, e) = h[N]
    BY DEF take_shares, Repeat, step
<1> HIDE DEF h
<1>7. h[0] = w /\ \A n \in 1..N : h[n] = step(h[n - 1])
    BY <1>5
<1>8. \A n \in 0..N : h[n] \in D[n]
  <2> HIDE DEF D, g
  <2>1. \A n \in 1..N : h[n - 1] \in D[n - 1] => h[n] \in D[n]
    BY <1>1, <1>7
  <2> QED BY <1>2, <1>7, <2>1, RoundsKeep
<1>9. There(h[N], N)
    BY <1>8
<1> QED BY <1>6, <1>9

LEMMA RunOut ==
    ASSUME NEW P, NEW w, Running(w, P)
    PROVE  LET u == [w EXCEPT !.exhausted = TRUE]
           IN  Onward(w, u, P) /\ u.s = w.s /\ u.exhausted
<1> DEFINE u == [w EXCEPT !.exhausted = TRUE]
<1>0. w \in Pass
    BY DEF Running
<1>1. u.s = w.s /\ u.left = w.left /\ u.exhausted
    BY <1>0 DEF Pass
<1>2. u \in Pass
    BY <1>0, Zenon DEF Pass
<1> HIDE DEF u
<1>3. Running(u, P)
    BY <1>1, <1>2 DEF Running
<1>4. Ahead(w.s, w.s)
    BY AheadItself DEF Running
<1>5. Settled(u)
    BY <1>1 DEF Settled
<1> QED BY <1>1, <1>3, <1>4, <1>5 DEF Onward, u

(* Another allowance for scheduled transactions changes nothing else. *)
LEMMA Allowed ==
    ASSUME NEW P, NEW w, Running(w, P), NEW n \in Nat
    PROVE  LET u == [w EXCEPT !.scheduled = n]
           IN  Onward(w, u, P) /\ u.s = w.s
<1> DEFINE u == [w EXCEPT !.scheduled = n]
<1>0. w \in Pass
    BY DEF Running
<1>1. u.s = w.s /\ u.left = w.left /\ u.exhausted = w.exhausted
    BY <1>0 DEF Pass
<1>2. u \in Pass
    BY <1>0, Zenon DEF Pass
<1> HIDE DEF u
<1>3. Running(u, P)
    BY <1>1, <1>2 DEF Running
<1>4. Ahead(w.s, w.s)
    BY AheadItself DEF Running
<1>5. Settled(w) => Settled(u)
    BY <1>1 DEF Settled
<1> QED BY <1>1, <1>3, <1>4, <1>5 DEF Onward, u

(* A pass goes on with the node a, which is ahead of its own. *)
LEMMA NodeAdvanced ==
    ASSUME NEW P, NEW w, Running(w, P), NEW a, Ahead(w.s, a), Frame(w.s, a),
           Kept(w.s) \subseteq Kept(a), NEW b \in NodeRec, SameBlocks(a, b),
           b.incoming = a.incoming, b.answer = a.answer, b.persisted = a.persisted
    PROVE  LET u == [spend(w) EXCEPT !.s = b]
           IN  Onward(w, u, P) /\ u.s = b /\ u.exhausted = w.exhausted /\ Pending(b) = Pending(a)
<1> DEFINE u == [spend(w) EXCEPT !.s = b]
<1>0. w \in Pass
    BY DEF Running
<1>1. u \in Pass /\ u.s = b /\ u.left = w.left /\ u.exhausted = w.exhausted
    BY <1>0, Spent
<1> HIDE DEF u
<1>2. Ahead(w.s, b) /\ Kept(b) = Kept(a) /\ Done(b) = Done(a) /\ Pending(b) = Pending(a)
    BY BlocksSame
<1>3. /\ b.incoming = w.s.incoming /\ b.answer = w.s.answer /\ b.persisted = w.s.persisted
      /\ Sane(b) /\ b.pending # {}
    BY <1>2, AheadTime DEF Frame
<1>4. Tidy(b, P)
    BY <1>3 DEF Running, Tidy
<1>5. Running(u, P)
    BY <1>1, <1>3, <1>4 DEF Running
<1>6. Promises(w.s) => Promises(b)
    BY <1>2, <1>3, PromisesKept
<1>7. Done(w.s) \subseteq Done(b)
    BY <1>2 DEF Ahead, Done
<1>8. Settled(w) => Settled(u)
    BY <1>1, <1>3, <1>7 DEF Settled
<1> QED BY <1>1, <1>2, <1>5, <1>6, <1>8 DEF Onward, u

\* After g was tried, the other generated transactions are still there.
Tried(w, u, g, P) ==
    /\ Onward(w, u, P) /\ u.s.weight \in 0..1
    /\ \A h \in Pending(w.s).generated : h # g => h \in Pending(u.s).generated

LEMMA ScheduledTried ==
    ASSUME NEW P \in SUBSET Submission, NEW w, Running(w, P), NEW e, NEW g \in Pending(w.s).generated,
           w.s.weight \in 0..1, now \in Nat
    PROVE  Tried(w, try_scheduled(w, g, e), g, P)
<1> DEFINE turns == Lower(Lower(w.s.weight, w.left), w.scheduled)
           taken == take_shares(w, turns, e)
           v == scheduled_verdict(taken.s, g, e)
           pushed == push_scheduled_transaction(taken.s, g, v)
           weight == IF taken.left = 0 THEN 0 ELSE taken.s.weight + 1
           black == IF v \in {"slow", "hard_fail"} THEN {[id |-> g.id, expiry |-> now + Window]} ELSE {}
           last == [spend(taken) EXCEPT !.s = [pushed EXCEPT !.weight = weight, !.blacklisted = @ \cup black]]
           out == [taken EXCEPT !.exhausted = TRUE]
           stop == [taken EXCEPT !.exhausted = TRUE, !.scheduled = 0]
           over == [w EXCEPT !.exhausted = TRUE]
           u == try_scheduled(w, g, e)
<1>0. w \in Pass /\ w.left \in Nat /\ w.scheduled \in Nat /\ w.s.weight \in Nat /\ w.s.weight <= 1
    BY PassFields DEF Running
<1>1. \/ u = w \/ u = over
      \/ taken.scheduled = 0 /\ u = out
      \/ taken.scheduled # 0 /\ v = "subjective" /\ u = stop
      \/ taken.scheduled # 0 /\ v # "subjective" /\ u = last
    BY DEF try_scheduled
<1> HIDE DEF u
<1>2. turns \in Nat /\ turns <= w.left /\ turns <= w.scheduled /\ turns <= w.s.weight
      /\ (turns = w.s.weight \/ turns = w.left \/ turns = w.scheduled)
    BY <1>0 DEF Lower
<1> HIDE DEF turns
<1>3. /\ Onward(w, taken, P) /\ taken.left = w.left - turns /\ taken.s.weight = w.s.weight - turns
      /\ taken.scheduled = w.scheduled - turns /\ taken.exhausted = w.exhausted
      /\ Pending(w.s).generated \subseteq Pending(taken.s).generated
    BY <1>2, SharesTaken
<1> HIDE DEF taken
<1>4. Running(taken, P) /\ Sane(taken.s) /\ taken.s.pending # {} /\ g \in Pending(taken.s).generated
      /\ taken.s.weight \in 0..1
  <2>1. Running(taken, P)
    BY <1>3 DEF Onward
  <2>2. taken.s.weight \in 0..1
    BY <1>0, <1>2, <1>3
  <2> QED BY <1>3, <2>1, <2>2 DEF Running
<1> HIDE DEF v, last
<1>5. Tried(w, w, g, P)
    BY <1>0, OnwardItself DEF Tried
<1>6. Tried(w, over, g, P)
  <2>1. Onward(w, over, P) /\ over.s = w.s
    BY RunOut
  <2> HIDE DEF over
  <2> QED BY <2>1 DEF Tried
<1>7. Tried(w, out, g, P)
  <2>1. Onward(taken, out, P) /\ out.s = taken.s
    BY <1>4, RunOut
  <2> HIDE DEF out
  <2>2. Onward(w, out, P)
    BY <1>3, <2>1, OnwardTwice
  <2>3. out.s.weight \in 0..1 /\ Pending(w.s).generated \subseteq Pending(out.s).generated
    BY <1>3, <1>4, <2>1
  <2> QED BY <2>2, <2>3 DEF Tried
<1>9. Tried(w, stop, g, P)
  <2>1. Onward(taken, out, P) /\ out.s = taken.s
    BY <1>4, RunOut
  <2>2. stop = [out EXCEPT !.scheduled = 0]
    BY <1>4, Zenon DEF Running, Pass
  <2> HIDE DEF out
  <2>3. Onward(out, stop, P) /\ stop.s = out.s
    BY <2>1, <2>2, Allowed DEF Onward
  <2> HIDE DEF stop
  <2>4. Onward(w, stop, P)
    BY <1>3, <2>1, <2>3, OnwardTwice
  <2>5. stop.s.weight \in 0..1 /\ Pending(w.s).generated \subseteq Pending(stop.s).generated
    BY <1>3, <1>4, <2>1, <2>3
  <2> QED BY <2>4, <2>5 DEF Tried
<1>8. ASSUME taken.scheduled # 0 PROVE Tried(w, last, g, P)
  <2>1. v \in {"subjective", "slow"} \cup (Status \ {"input"})
    BY DEF v, scheduled_verdict, Status
  <2>2. /\ Ahead(taken.s, pushed) /\ Frame(taken.s, pushed) /\ Kept(taken.s) \subseteq Kept(pushed)
        /\ Pending(taken.s).generated \ {g} \subseteq Pending(pushed).generated
    BY <1>4, <2>1, ScheduledPushed
  <2> HIDE DEF pushed
  <2>3. weight \in 0..1
    <3>1. turns # w.scheduled
      BY <1>0, <1>2, <1>3, <1>8
    <3>2. CASE turns = w.left
      BY <1>0, <1>3, <3>2
    <3>3. CASE turns = w.s.weight
      BY <1>0, <1>3, <3>3
    <3> QED BY <1>2, <3>1, <3>2, <3>3
  <2>4. black \in SUBSET [id : Trx, expiry : Nat]
    <3>1. Pending(taken.s) \in BlockRec
      <4>1. PICK b : taken.s.pending = {b}
        BY <1>4 DEF Sane
      <4> QED BY <1>4, <4>1, SaneParts, Speculating
    <3>2. g.id \in Trx /\ now + Window \in Nat
      BY <1>4, <3>1, FlowAssumption DEF BlockRec, Entry
    <3>3. [id |-> g.id, expiry |-> now + Window] \in [id : Trx, expiry : Nat]
      BY <3>2
    <3> QED BY <3>3
  <2> DEFINE more == pushed.blacklisted \cup black
             b == [pushed EXCEPT !.weight = weight, !.blacklisted = more]
  <2>5. last = [spend(taken) EXCEPT !.s = b]
    BY DEF last
  <2>6. pushed \in NodeRec
    BY <2>2 DEF Ahead, Sane
  <2>7. more \in SUBSET [id : Trx, expiry : Nat] /\ weight \in Int
    BY <2>3, <2>4, <2>6, StateFields
  <2> HIDE DEF more, black, weight
  <2>8. b \in NodeRec
    BY <2>6, <2>7 DEF NodeRec
  <2>9. /\ b.chain = pushed.chain /\ b.pending = pushed.pending /\ b.unapplied = pushed.unapplied
        /\ b.refused = pushed.refused /\ b.weight = weight
        /\ b.incoming = pushed.incoming /\ b.answer = pushed.answer /\ b.persisted = pushed.persisted
    BY <2>6 DEF NodeRec
  <2> HIDE DEF b
  <2>10. SameBlocks(pushed, b)
    BY <2>9 DEF SameBlocks
  <2>11. Onward(taken, last, P) /\ last.s = b /\ Pending(b) = Pending(pushed)
    BY <1>4, <2>2, <2>5, <2>8, <2>9, <2>10, NodeAdvanced
  <2>12. Onward(w, last, P)
    BY <1>3, <2>11, OnwardTwice
  <2>13. last.s.weight \in 0..1
    BY <2>3, <2>9, <2>11
  <2>14. \A k \in Pending(w.s).generated : k # g => k \in Pending(last.s).generated
    BY <1>3, <2>2, <2>11
  <2> QED BY <2>12, <2>13, <2>14 DEF Tried
<1> HIDE DEF over, out, stop
<1> QED BY <1>1, <1>5, <1>6, <1>7, <1>8, <1>9 DEF u

LEMMA EarliestIsThere ==
    ASSUME NEW S \in SUBSET Entry, S # {}
    PROVE  earliest(S) \in S
<1> DEFINE U == {h.delay_until : h \in S}
<1>1. \A h \in S : h.delay_until \in Nat /\ h.id \in Nat
    BY FlowAssumption DEF Entry
<1>2. PICK d \in U : \A y \in U : d <= y
  <2>1. U \subseteq Nat /\ U # {}
    BY <1>1
  <2> QED BY <2>1, LeastExists
<1> DEFINE V == {h.id : h \in {k \in S : k.delay_until = d}}
<1>3. PICK i \in V : \A y \in V : i <= y
  <2>1. V \subseteq Nat /\ V # {}
    BY <1>1, <1>2
  <2> QED BY <2>1, LeastExists
<1>4. PICK g \in S : g.delay_until = d /\ g.id = i
    BY <1>3
<1>5. ASSUME NEW h \in S
      PROVE  g.delay_until < h.delay_until \/ (g.delay_until = h.delay_until /\ g.id <= h.id)
  <2>1. d <= h.delay_until /\ d \in Nat /\ h.delay_until \in Nat
    BY <1>1, <1>2, <1>4
  <2>2. CASE h.delay_until = d
    BY <1>3, <1>4, <2>2
  <2>3. CASE h.delay_until # d
    BY <1>4, <2>1, <2>3
  <2> QED BY <2>2, <2>3
<1> QED BY <1>5 DEF earliest

LEMMA BlacklistExpired ==
    ASSUME NEW P, NEW w, Running(w, P)
    PROVE  LET u == expire_blacklisted(w)
           IN  Onward(w, u, P) /\ u.s.weight = w.s.weight /\ Pending(u.s) = Pending(w.s)
<1> DEFINE rest == {y \in w.s.blacklisted : y.expiry > now}
           a == [w.s EXCEPT !.blacklisted = rest]
           u == expire_blacklisted(w)
<1>0. w \in Pass /\ w.s \in NodeRec
    BY PassFields DEF Running
<1>1. u = w \/ u = [w EXCEPT !.s = a]
    BY DEF expire_blacklisted
<1>2. rest \in SUBSET [id : Trx, expiry : Nat]
    BY <1>0, StateFields
<1> HIDE DEF rest
<1>3. a \in NodeRec
    BY <1>0, <1>2 DEF NodeRec
<1>4. /\ a.chain = w.s.chain /\ a.pending = w.s.pending /\ a.unapplied = w.s.unapplied
      /\ a.refused = w.s.refused /\ a.weight = w.s.weight
      /\ a.incoming = w.s.incoming /\ a.answer = w.s.answer /\ a.persisted = w.s.persisted
    BY <1>0 DEF NodeRec
<1> HIDE DEF a
<1>5. SameBlocks(w.s, a)
    BY <1>4 DEF SameBlocks
<1>6. LET v == [w EXCEPT !.s = a] IN Onward(w, v, P) /\ v.s = a /\ Pending(a) = Pending(w.s)
    BY <1>3, <1>4, <1>5, NodeReplaced
<1> HIDE DEF u
<1>7. CASE u = w
    BY <1>7, OnwardItself DEF u
<1>8. CASE u = [w EXCEPT !.s = a]
    BY <1>4, <1>6, <1>8 DEF u
<1> QED BY <1>1, <1>7, <1>8

\* What a block generated is finite.
LEMMA GeneratedFinite ==
    ASSUME NEW s, Sane(s), s.pending # {}
    PROVE  /\ Pending(s) \in BlockRec /\ Pending(s).time \in Nat
           /\ Pending(s).generated \in SUBSET Entry /\ IsFiniteSet(Pending(s).generated)
<1>1. PICK b : s.pending = {b}
    BY DEF Sane
<1>2. b \in BlockRec /\ Fits(s.chain, b) /\ Pending(s) = b
    BY <1>1, SaneParts, Speculating
<1> QED BY <1>2 DEF BlockRec, Fits

LEMMA AllScheduledTried ==
    ASSUME NEW P \in SUBSET Submission, NEW v, Running(v, P), NEW e, v.s.weight \in 0..1, now \in Nat
    PROVE  LET u == try_all_scheduled(v, e) IN Onward(v, u, P) /\ u.s.weight \in 0..1
<1> DEFINE due == {z \in Pending(v.s).generated : z.delay_until <= Pending(v.s).time}
           N == Cardinality(due)
           kept == expire_blacklisted(v)
           w == [kept EXCEPT !.scheduled = Lower(v.budget, ScheduledBudget)]
           start == [x |-> w, left |-> due]
           There(k, n) == /\ Onward(v, k.x, P) /\ k.x.s.weight \in 0..1
                          /\ k.left \subseteq Pending(k.x.s).generated
                          /\ Cardinality(k.left) = N - n
           D == [n \in 0..N |-> {k \in [x : Pass, left : SUBSET due] : There(k, n)}]
           step(k) == [x |-> try_scheduled(k.x, earliest(k.left), e), left |-> k.left \ {earliest(k.left)}]
           g == [n \in 1..N |-> [d \in D[n - 1] |-> step(d)]]
           Eq(f) == f = [n \in 0..N |-> IF n = 0 THEN start ELSE step(f[n - 1])]
           h == CHOOSE f : Eq(f)
<1>s. Sane(v.s) /\ v.s.pending # {}
    BY DEF Running
<1>0. due \in SUBSET Entry /\ IsFiniteSet(due) /\ N \in Nat /\ due \subseteq Pending(v.s).generated
  <2>1. Pending(v.s).generated \in SUBSET Entry /\ IsFiniteSet(Pending(v.s).generated)
    BY <1>s, GeneratedFinite
  <2>2. IsFiniteSet(due)
    BY <2>1, FS_Subset
  <2> QED BY <2>1, <2>2, FS_CardinalityType
<1>w. Onward(v, w, P) /\ w.s.weight \in 0..1 /\ Pending(w.s) = Pending(v.s) /\ w \in Pass
  <2>1. Onward(v, kept, P) /\ kept.s.weight = v.s.weight /\ Pending(kept.s) = Pending(v.s)
    BY BlacklistExpired
  <2>2. Lower(v.budget, ScheduledBudget) \in Nat
    BY FlowAssumption, PassFields DEF Running, Lower
  <2> HIDE DEF kept
  <2>3. Onward(kept, w, P) /\ w.s = kept.s
    BY <2>1, <2>2, Allowed DEF Onward
  <2> HIDE DEF w
  <2>4. Onward(v, w, P)
    BY <2>1, <2>3, OnwardTwice
  <2> QED BY <2>1, <2>3, <2>4 DEF Onward, Running
<1> HIDE DEF kept, w, due
<1>1. ASSUME NEW n \in 1..N, NEW d \in D[n - 1] PROVE step(d) \in D[n] /\ g[n][d] = step(d)
  <2>0. n - 1 \in 0..N /\ n \in 0..N /\ n \in Nat
    <3> HIDE DEF N
    <3> QED BY <1>0
  <2> DEFINE x == d.x
             c == earliest(d.left)
             y == try_scheduled(x, c, e)
             rest == d.left \ {c}
  <2>1. x \in Pass /\ d.left \subseteq due /\ There(d, n - 1)
    BY <2>0
  <2>2. IsFiniteSet(d.left) /\ Cardinality(d.left) = N - (n - 1) /\ d.left # {} /\ d.left \in SUBSET Entry
    <3>1. IsFiniteSet(d.left)
      BY <1>0, <2>1, FS_Subset
    <3>2. Cardinality(d.left) # 0
      BY <1>0, <2>0, <2>1
    <3> QED BY <1>0, <2>1, <3>1, <3>2, FS_EmptySet
  <2>3. c \in d.left
    BY <2>2, EarliestIsThere
  <2>4. Running(x, P) /\ c \in Pending(x.s).generated /\ x.s.weight \in 0..1
    BY <2>1, <2>3 DEF Onward
  <2>5. Tried(x, y, c, P)
    BY <2>4, ScheduledTried
  <2>6. step(d) = [x |-> y, left |-> rest]
    OBVIOUS
  <2>7. Cardinality(rest) = N - n
    <3>1. Cardinality(rest) = Cardinality(d.left) - 1
      <4> DEFINE S == d.left
      <4>1. IsFiniteSet(S) /\ c \in S
        BY <2>2, <2>3
      <4> HIDE DEF c, S
      <4>2. Cardinality(S \ {c}) = Cardinality(S) - 1
        BY <4>1, FS_RemoveElement
      <4> QED BY <4>2 DEF S
    <3> HIDE DEF rest
    <3> QED BY <1>0, <2>0, <2>2, <3>1
  <2> HIDE DEF y, c
  <2>8. rest \subseteq Pending(y.s).generated
    BY <2>1, <2>5 DEF Tried
  <2>9. Onward(v, y, P) /\ y.s.weight \in 0..1 /\ y \in Pass
    <3>1. Onward(x, y, P) /\ y.s.weight \in 0..1
      BY <2>5 DEF Tried
    <3>2. Onward(v, y, P)
      BY <2>1, <3>1, OnwardTwice
    <3> QED BY <3>1, <3>2 DEF Onward, Running
  <2>10. rest \subseteq due
    BY <2>1
  <2> HIDE DEF rest, step
  <2>11. /\ step(d) \in [x : Pass, left : SUBSET due]
         /\ step(d).x = y /\ step(d).left = rest
    BY <2>6, <2>9, <2>10
  <2>12. There(step(d), n)
    BY <2>7, <2>8, <2>9, <2>11
  <2> HIDE DEF There
  <2> QED BY <2>0, <2>11, <2>12
<1>2. start \in D[0]
  <2>1. /\ start \in [x : Pass, left : SUBSET due] /\ start.x = w /\ start.left = due
    BY <1>w
  <2>2. There(start, 0)
    BY <1>0, <1>w, <2>1
  <2> HIDE DEF There, start
  <2> QED BY <1>0, <2>1, <2>2
<1> HIDE DEF step, start
<1>3. PICK f : Rounds(f, N, D, start, g)
  <2> HIDE DEF D, g, N
  <2> QED BY <1>0, <1>1, <1>2, RoundsExist
<1>4. Eq(f)
  <2>1. /\ f = [n \in 0..N |-> f[n]] /\ f[0] = start /\ \A n \in 1..N : f[n] = g[n][f[n - 1]]
        /\ \A n \in 0..N : f[n] \in D[n]
    BY <1>3 DEF Rounds
  <2> HIDE DEF D, g, N
  <2>2. \A n \in 0..N : n # 0 => n \in 1..N /\ n - 1 \in 0..N
    BY <1>0
  <2>3. \A n \in 0..N : f[n] = IF n = 0 THEN start ELSE step(f[n - 1])
    BY <1>1, <2>1, <2>2
  <2> QED BY <2>1, <2>3
<1>5. Eq(h)
    BY <1>4
<1>6. try_all_scheduled(v, e) = v \/ try_all_scheduled(v, e) = h[N].x
    BY DEF try_all_scheduled, ForEach, Repeat, step, start, due, w, kept
<1> HIDE DEF h
<1>7. h[0] = start /\ \A n \in 1..N : h[n] = step(h[n - 1])
  <2> HIDE DEF N
  <2> QED BY <1>0, <1>5
<1>8. \A n \in 0..N : h[n] \in D[n]
  <2> HIDE DEF D, g, N
  <2>1. \A n \in 1..N : h[n - 1] \in D[n - 1] => h[n] \in D[n]
    BY <1>1, <1>7
  <2> QED BY <1>0, <1>2, <1>7, <2>1, RoundsKeep
<1>9. There(h[N], N)
  <2> HIDE DEF There
  <2> QED BY <1>0, <1>8
<1>10. Onward(v, v, P)
    BY OnwardItself
<1> QED BY <1>6, <1>9, <1>10

LEMMA IncomingProcessed ==
    ASSUME NEW P \in SUBSET Submission, NEW w, Running(w, P), NEW e, w.s.weight \in 0..1
    PROVE  LET u == process_incoming(w, e) IN Onward(w, u, P) /\ u.s.weight \in 0..1
<1> DEFINE turns == Lower(w.left, w.budget)
           fresh == reweighed(w, 0)
           taken == take_some(fresh, turns, e)
           over == [w EXCEPT !.exhausted = TRUE]
           last == [taken EXCEPT !.exhausted = taken.left > 0]
           u == process_incoming(w, e)
<1>1. u = over \/ (~ w.exhausted /\ u = last)
    BY DEF process_incoming, reweighed
<1>2. w \in Pass /\ w.left \in Nat /\ w.budget \in Nat /\ w.exhausted \in BOOLEAN
    BY PassFields DEF Running
<1> HIDE DEF u
<1>3. turns \in Nat /\ turns <= w.left
    BY <1>2 DEF Lower
<1>4. /\ Onward(w, fresh, P) /\ fresh.s.weight = 0 /\ fresh.left = w.left
      /\ fresh.exhausted = w.exhausted
    BY Reweighed
<1> HIDE DEF fresh, turns
<1>5. Running(fresh, P)
    BY <1>4 DEF Onward
<1>6. /\ Onward(fresh, taken, P) /\ taken.s.weight = 0 /\ taken.exhausted = w.exhausted
    BY <1>3, <1>4, <1>5, TakenOften
<1> HIDE DEF taken
<1>7. Onward(w, taken, P) /\ taken \in Pass /\ taken.left \in Nat
  <2>1. Onward(w, taken, P)
    BY <1>4, <1>6, OnwardTwice
  <2>2. taken \in Pass
    BY <2>1 DEF Onward, Running
  <2> QED BY <2>1, <2>2, PassFields
<1>8. Onward(w, over, P) /\ over.s = w.s
    BY RunOut
<1> HIDE DEF over
<1>9. ASSUME ~ w.exhausted PROVE Onward(w, last, P) /\ last.s = taken.s
  <2>1. last.s = taken.s /\ last.left = taken.left
    BY <1>7 DEF Pass
  <2>2. last \in Pass
    <3>1. (taken.left > 0) \in BOOLEAN
      BY <1>7
    <3> QED BY <1>7, <3>1, Zenon DEF Pass
  <2> HIDE DEF last
  <2>3. Running(last, P) /\ Ahead(w.s, last.s) /\ (Promises(w.s) => Promises(last.s))
    BY <1>7, <2>1, <2>2 DEF Onward, Running
  <2>4. Settled(w) => Settled(last)
    BY <1>6, <1>7, <1>9, <2>1 DEF Onward, Settled
  <2> QED BY <2>1, <2>3, <2>4 DEF Onward
<1> HIDE DEF last
<1> QED BY <1>1, <1>6, <1>8, <1>9 DEF u

-----------------------------------------------------------------------------
(* Persisted and unapplied transactions *)

\* What is persisted is valid in the pending block, if there was time to look.
Fresh(w) == ~ w.exhausted => \A t \in w.s.persisted : Expiration[t] > Pending(w.s).time

LEMMA PersistedExpired ==
    ASSUME NEW P, NEW w, Running(w, P), now \in Nat, Pending(w.s).time <= now + 2, w.exhausted = FALSE
    PROVE  LET u == expire_persisted(w)
           IN  /\ Onward(w, u, P) /\ u.s.weight = w.s.weight /\ Fresh(u)
               /\ Pending(u.s) = Pending(w.s)
<1> DEFINE due == {t \in w.s.persisted : Expiration[t] <= Pending(w.s).time}
           rest == w.s.persisted \ due
           a == [w.s EXCEPT !.persisted = rest]
           u == expire_persisted(w)
           v == [w EXCEPT !.s = a]
           over == [w EXCEPT !.exhausted = TRUE]
<1>0. w \in Pass /\ w.s \in NodeRec /\ Sane(w.s) /\ w.s.pending # {} /\ w.s.persisted \in SUBSET Trx
    BY PassFields, StateFields DEF Running
<1>1. (due = {} /\ u = w) \/ u = over \/ u = v
    BY DEF expire_persisted
<1>2. Pending(w.s).time \in Nat /\ \A t \in w.s.persisted : Expiration[t] \in Nat
    BY <1>0, GeneratedFinite, FlowAssumption
<1>3. rest \in SUBSET Trx /\ rest \subseteq w.s.persisted
      /\ \A t \in w.s.persisted : t \in rest <=> Expiration[t] > Pending(w.s).time
    BY <1>0, <1>2
<1>d. due = {} => rest = w.s.persisted
    OBVIOUS
<1> HIDE DEF rest, due, u
<1>4. /\ a.chain = w.s.chain /\ a.pending = w.s.pending /\ a.unapplied = w.s.unapplied
      /\ a.refused = w.s.refused /\ a.weight = w.s.weight
      /\ a.incoming = w.s.incoming /\ a.answer = w.s.answer /\ a.persisted = rest
      /\ a \in NodeRec
    BY <1>0, <1>3 DEF NodeRec
<1> HIDE DEF a
<1>5. v \in Pass /\ v.s = a /\ v.left = w.left /\ v.exhausted = FALSE
    BY <1>0, <1>4 DEF Pass
<1> HIDE DEF v
<1>6. SameBlocks(w.s, a)
    BY <1>4 DEF SameBlocks
<1>7. /\ Pending(a) = Pending(w.s) /\ Kept(a) = Kept(w.s) /\ Done(a) = Done(w.s) /\ Sane(a)
      /\ a.pending # {}
    BY <1>0, <1>4, <1>6, BlocksSame
<1>8. Ahead(w.s, a)
  <2>1. Ahead(w.s, w.s)
    BY <1>0, AheadItself
  <2> QED BY <1>4, <1>6, <2>1, BlocksSame
<1>9. Running(v, P)
  <2>1. Tidy(a, P)
    BY <1>4 DEF Running, Tidy
  <2> QED BY <1>4, <1>5, <1>7, <2>1 DEF Running
<1>10. ASSUME Promises(w.s) PROVE Promises(a)
  <2>1. ASSUME NEW x \in Persist, a.answer[x] = "ok", Expiration[TrxOf[x]] > now + 2
        PROVE  TrxOf[x] \in a.persisted
    <3>1. TrxOf[x] \in w.s.persisted
      BY <1>4, <1>10, <2>1 DEF Promises
    <3>2. Expiration[TrxOf[x]] > Pending(w.s).time
      BY <1>2, <2>1, <3>1
    <3> QED BY <1>3, <1>4, <3>1, <3>2
  <2>2. a.persisted \subseteq Kept(a)
    BY <1>3, <1>4, <1>7, <1>10 DEF Promises
  <2> QED BY <1>4, <1>7, <1>10, <2>1, <2>2 DEF Promises
<1>11. Settled(w) => Settled(v)
    BY <1>3, <1>4, <1>5, <1>7 DEF Settled
<1>12. Onward(w, v, P) /\ Fresh(v)
    BY <1>3, <1>4, <1>5, <1>7, <1>8, <1>9, <1>10, <1>11 DEF Onward, Fresh
<1>13. Onward(w, over, P) /\ over.s = w.s /\ over.exhausted
    BY RunOut
<1> HIDE DEF over
<1>14. Onward(w, w, P)
    BY OnwardItself
<1>15. CASE u = over
    BY <1>13, <1>15 DEF Fresh, u
<1>16. CASE u = v
    BY <1>4, <1>5, <1>7, <1>12, <1>16 DEF u
<1>17. CASE due = {} /\ u = w
  <2>1. Fresh(w)
    BY <1>3, <1>d, <1>17 DEF Fresh
  <2> QED BY <1>14, <1>17, <2>1 DEF u
<1> QED BY <1>1, <1>15, <1>16, <1>17

dropped(w, R) == [w EXCEPT !.s.unapplied = R]

(* Unapplied transactions are dropped that nobody was promised. *)
LEMMA UnappliedDropped ==
    ASSUME NEW P, NEW w, Running(w, P), NEW R, R \subseteq w.s.unapplied,
           \A t \in w.s.unapplied \ R :
               t \notin w.s.persisted /\ (setup.producers => ~ (Expiration[t] > now + 1))
    PROVE  LET u == dropped(w, R)
           IN  /\ Onward(w, u, P) /\ u.s.weight = w.s.weight /\ u.s.persisted = w.s.persisted
               /\ u.exhausted = w.exhausted /\ Done(u.s) = Done(w.s)
<1> DEFINE a == [w.s EXCEPT !.unapplied = R]
           u == dropped(w, R)
<1>0. w \in Pass /\ w.s \in NodeRec /\ Sane(w.s) /\ w.s.pending # {} /\ R \in SUBSET Trx
    BY PassFields, StateFields DEF Running
<1>1. u = [w EXCEPT !.s = a]
    BY DEF dropped
<1>2. /\ a.chain = w.s.chain /\ a.pending = w.s.pending /\ a.unapplied = R
      /\ a.refused = w.s.refused /\ a.weight = w.s.weight
      /\ a.incoming = w.s.incoming /\ a.answer = w.s.answer /\ a.persisted = w.s.persisted
      /\ a \in NodeRec
    BY <1>0 DEF NodeRec
<1> HIDE DEF a, u
<1>3. u \in Pass /\ u.s = a /\ u.left = w.left /\ u.exhausted = w.exhausted
    BY <1>0, <1>1, <1>2 DEF Pass
<1>4. Blocks(a) = Blocks(w.s) /\ Pending(a) = Pending(w.s)
    BY <1>2 DEF Blocks, Pending
<1>5. Sane(a)
  <2>1. a.unapplied \cap InputOf(Blocks(a)) = {}
    BY <1>0, <1>2, <1>4 DEF Sane
  <2> QED BY <1>0, <1>2, <1>4, <2>1 DEF Sane
<1>6. Ahead(w.s, a)
  <2>1. Ahead(w.s, w.s)
    BY <1>0, AheadItself
  <2> QED BY <1>2, <1>4, <1>5, <2>1 DEF Ahead
<1>7. Done(a) = Done(w.s) /\ Kept(a) = Done(w.s) \cup R /\ Kept(w.s) = Done(w.s) \cup w.s.unapplied
    BY <1>2, <1>4 DEF Done, Kept
<1>8. \A t \in Kept(w.s) : t \in Kept(a) \/ (t \notin w.s.persisted /\ (setup.producers => ~ (Expiration[t] > now + 1)))
    BY <1>7
<1>9. ASSUME Promises(w.s) PROVE Promises(a)
    BY <1>2, <1>8, <1>9 DEF Promises
<1>10. Running(u, P)
  <2>1. Tidy(a, P)
    BY <1>2 DEF Running, Tidy
  <2> QED BY <1>0, <1>2, <1>3, <1>5, <2>1 DEF Running
<1>11. Settled(w) => Settled(u)
    BY <1>2, <1>3, <1>7 DEF Settled
<1>12. Onward(w, u, P)
    BY <1>3, <1>6, <1>9, <1>10, <1>11 DEF Onward
<1> QED BY <1>2, <1>3, <1>7, <1>12 DEF u

\* t was looked at: it is applied or has failed, unless it need not be.
Looked(w, u, t, P) ==
    /\ Onward(w, u, P) /\ u.s.persisted = w.s.persisted /\ u.s.weight = w.s.weight
    /\ ~ u.exhausted => ~ w.exhausted /\ (t \in u.s.persisted => t \in Done(u.s))

LEMMA UnappliedTried ==
    ASSUME NEW P, NEW w, Running(w, P), NEW t \in Trx, NEW e, now \in Nat,
           Pending(w.s).time <= now + 2, Fresh(w)
    PROVE  Looked(w, retry_unapplied(w, t, e), t, P)
<1> DEFINE s == w.s
           drop == Expiration[t] < Pending(s).time \/ (t \notin s.persisted /\ ~ setup.producers)
           v == verdict(s, t, e)
           pushed == push_transaction(s, t, v)
           failed == push_transaction(pushed, t, "invalid")
           over == [w EXCEPT !.exhausted = TRUE]
           full == [spend(w) EXCEPT !.s = pushed, !.exhausted = TRUE]
           rest == dropped(w, s.unapplied \ {t})
           done == [spend(w) EXCEPT !.s = pushed]
           lost == [spend(w) EXCEPT !.s = failed]
           u == retry_unapplied(w, t, e)
<1>0. w \in Pass /\ Sane(s) /\ s.pending # {} /\ s \in NodeRec /\ s.persisted \in SUBSET Trx
    BY PassFields, StateFields DEF Running
<1>a. failed = [pushed EXCEPT !.unapplied = @ \ {t}, !.refused = @ \cup {t}]
    BY DEF push_transaction
<1>b. u = IF w.exhausted \/ w.budget = 0 THEN over
          ELSE IF drop THEN rest
          ELSE IF ~ (t \in s.persisted \/ Pending(s).mode = "producing") THEN w
          ELSE IF v = "subjective" THEN full
          ELSE IF v = "ok" THEN done
          ELSE [spend(w) EXCEPT !.s = [pushed EXCEPT !.unapplied = @ \ {t}, !.refused = @ \cup {t}]]
    BY DEF retry_unapplied, dropped
<1>1. \/ u = over
      \/ ~ w.exhausted /\ drop /\ u = rest
      \/ t \notin s.persisted /\ u = w
      \/ v = "subjective" /\ u = full
      \/ ~ w.exhausted /\ v = "ok" /\ u = done
      \/ ~ w.exhausted /\ v \notin {"ok", "subjective"} /\ u = lost
  <2> HIDE DEF u, v, pushed, failed, over, full, rest
  <2> QED BY <1>a, <1>b
<1>2. v \in Verdict /\ (v = "ok" => ~ (Expiration[t] < Pending(s).time) /\ t \notin Pending(s).index)
    BY VerdictIs
<1> HIDE DEF u, v
<1>3. /\ Ahead(s, pushed) /\ Frame(s, pushed) /\ Kept(s) \subseteq Kept(pushed)
      /\ v = "ok" => t \in InputOf(Blocks(pushed))
    BY <1>0, <1>2, TransactionPushed
<1> HIDE DEF pushed
<1>4. pushed \in NodeRec /\ Sane(pushed) /\ pushed.pending # {}
    BY <1>3, AheadTime DEF Sane
<1>5. /\ Ahead(pushed, failed) /\ Frame(pushed, failed) /\ Kept(pushed) \subseteq Kept(failed)
      /\ t \in failed.refused
  <2>1. "invalid" \in Verdict
    BY DEF Verdict
  <2> QED BY <1>4, <2>1, TransactionPushed
<1> HIDE DEF failed
<1>6. /\ Ahead(s, failed) /\ Frame(s, failed) /\ Kept(s) \subseteq Kept(failed) /\ failed \in NodeRec
    BY <1>3, <1>5, AheadTwice DEF Frame, Ahead, Sane
<1>7. ASSUME NEW a, Ahead(s, a), Frame(s, a), Kept(s) \subseteq Kept(a), t \in Done(a), a \in NodeRec,
             ~ w.exhausted
      PROVE  Looked(w, [spend(w) EXCEPT !.s = a], t, P)
  <2> DEFINE z == [spend(w) EXCEPT !.s = a]
  <2>1. SameBlocks(a, a)
    BY DEF SameBlocks
  <2>2. Onward(w, z, P) /\ z.s = a /\ z.exhausted = w.exhausted
    BY <1>7, <2>1, NodeAdvanced
  <2> HIDE DEF z
  <2>3. Looked(w, z, t, P)
    BY <1>7, <2>2 DEF Looked, Frame
  <2> QED BY <2>3 DEF z
<1>8. Looked(w, over, t, P)
  <2>1. Onward(w, over, P) /\ over.s = w.s /\ over.exhausted
    BY RunOut
  <2> HIDE DEF over
  <2> QED BY <2>1 DEF Looked
<1>f. Looked(w, full, t, P)
  <2>1. SameBlocks(pushed, pushed)
    BY DEF SameBlocks
  <2>2. Onward(w, done, P) /\ done.s = pushed
    BY <1>3, <1>4, <2>1, NodeAdvanced
  <2>3. full = [done EXCEPT !.exhausted = TRUE]
    BY <1>0, Zenon DEF spend, Pass
  <2> HIDE DEF done
  <2>4. Onward(done, full, P) /\ full.s = done.s /\ full.exhausted
    BY <2>2, <2>3, RunOut DEF Onward
  <2> HIDE DEF full
  <2>5. Onward(w, full, P)
    BY <2>2, <2>4, OnwardTwice
  <2> QED BY <1>3, <2>2, <2>4, <2>5 DEF Looked, Frame
<1> HIDE DEF full
<1>9. CASE ~ w.exhausted /\ drop /\ u = rest
  <2>1. Pending(s).time \in Nat /\ Expiration[t] \in Nat
    BY <1>0, GeneratedFinite, FlowAssumption
  <2>2. t \notin s.persisted /\ (setup.producers => ~ (Expiration[t] > now + 1))
    <3>1. Expiration[t] < Pending(s).time => t \notin s.persisted
      BY <1>9, <2>1 DEF Fresh
    <3>2. Expiration[t] < Pending(s).time => ~ (Expiration[t] > now + 1)
      BY <2>1
    <3> QED BY <1>9, <3>1, <3>2
  <2>3. s.unapplied \ {t} \subseteq w.s.unapplied
    OBVIOUS
  <2>4. \A y \in w.s.unapplied \ (s.unapplied \ {t}) : y = t
    OBVIOUS
  <2>5. /\ Onward(w, rest, P) /\ rest.s.weight = w.s.weight /\ rest.s.persisted = w.s.persisted
        /\ rest.exhausted = w.exhausted
    BY <2>2, <2>3, <2>4, UnappliedDropped
  <2> HIDE DEF rest
  <2> QED BY <1>9, <2>2, <2>5 DEF Looked, u
<1>10. CASE t \notin s.persisted /\ u = w
  <2>1. Onward(w, w, P)
    BY OnwardItself
  <2> QED BY <1>10, <2>1 DEF Looked, u
<1>11. CASE ~ w.exhausted /\ v = "ok" /\ u = done
  <2>1. t \in Done(pushed)
    BY <1>3, <1>11 DEF Done
  <2> QED BY <1>3, <1>4, <1>7, <1>11, <2>1 DEF u
<1>12. CASE ~ w.exhausted /\ u = lost
  <2>1. t \in Done(failed)
    BY <1>5 DEF Done
  <2> QED BY <1>6, <1>7, <1>12, <2>1 DEF u
<1> HIDE DEF over, done, lost, rest
<1> QED BY <1>1, <1>f, <1>8, <1>9, <1>10, <1>11, <1>12 DEF u

LEMMA UnappliedRetried ==
    ASSUME NEW P, NEW w, Running(w, P), NEW e, now \in Nat, Pending(w.s).time <= now + 2, Fresh(w)
    PROVE  LET u == retry_all_unapplied(w, e)
           IN  /\ Onward(w, u, P) /\ u.s.weight = w.s.weight
               /\ Promises(w.s) => Settled(u)
<1> DEFINE S == w.s.unapplied
           N == Cardinality(S)
           start == [x |-> w, left |-> S]
           There(k, n) == /\ Onward(w, k.x, P) /\ k.x.s.weight = w.s.weight
                          /\ k.x.s.persisted = w.s.persisted /\ (~ k.x.exhausted => ~ w.exhausted)
                          /\ ~ k.x.exhausted => \A t \in S : t \in w.s.persisted => t \in k.left \/ t \in Done(k.x.s)
                          /\ Cardinality(k.left) = N - n
           D == [n \in 0..N |-> {k \in [x : Pass, left : SUBSET S] : There(k, n)}]
           step(k) == [x |-> retry_unapplied(k.x, Min(k.left), e), left |-> k.left \ {Min(k.left)}]
           g == [n \in 1..N |-> [d \in D[n - 1] |-> step(d)]]
           Eq(f) == f = [n \in 0..N |-> IF n = 0 THEN start ELSE step(f[n - 1])]
           h == CHOOSE f : Eq(f)
           u == retry_all_unapplied(w, e)
           cleared == dropped(w, {})
<1>0. S \in SUBSET Trx /\ IsFiniteSet(S) /\ N \in Nat /\ w \in Pass
  <2>1. w \in Pass /\ S \in SUBSET Trx
    BY PassFields, StateFields DEF Running
  <2>2. IsFiniteSet(S)
    BY <2>1, FS_Subset, FlowAssumption
  <2> QED BY <2>1, <2>2, FS_CardinalityType
<1> HIDE DEF S
<1>1. ASSUME NEW n \in 1..N, NEW d \in D[n - 1] PROVE step(d) \in D[n] /\ g[n][d] = step(d)
  <2>0. n - 1 \in 0..N /\ n \in 0..N /\ n \in Nat
    <3> HIDE DEF N
    <3> QED BY <1>0
  <2> DEFINE x == d.x
             L == d.left
             c == Min(L)
             y == retry_unapplied(x, c, e)
             rest == L \ {c}
  <2>1. x \in Pass /\ L \subseteq S /\ There(d, n - 1)
    BY <2>0
  <2>2. IsFiniteSet(L) /\ Cardinality(L) = N - (n - 1) /\ L # {} /\ L \in SUBSET Trx
    <3>1. IsFiniteSet(L)
      BY <1>0, <2>1, FS_Subset
    <3>2. Cardinality(L) # 0
      BY <1>0, <2>0, <2>1
    <3> QED BY <1>0, <2>1, <3>1, <3>2, FS_EmptySet
  <2>h. /\ Onward(w, x, P) /\ x.s.weight = w.s.weight /\ x.s.persisted = w.s.persisted
        /\ (~ x.exhausted => ~ w.exhausted)
        /\ ~ x.exhausted => \A t \in S : t \in w.s.persisted => t \in L \/ t \in Done(x.s)
    BY <2>1
  <2> HIDE DEF L
  <2>3. c \in L /\ c \in Trx
    <3>1. L \subseteq Nat
      BY <2>2, FlowAssumption
    <3>2. \E a \in L : \A b \in L : a <= b
      BY <2>2, <3>1, LeastExists
    <3> QED BY <2>2, <3>2 DEF Min
  <2> HIDE DEF c, x
  <2>4. Running(x, P) /\ Pending(x.s).time = Pending(w.s).time
    BY <2>h, AheadTime DEF Onward
  <2>5. Fresh(x) /\ Pending(x.s).time <= now + 2
    BY <2>4, <2>h DEF Fresh
  <2>6. Looked(x, y, c, P)
    BY <2>3, <2>4, <2>5, UnappliedTried
  <2> HIDE DEF y
  <2>7. Cardinality(rest) = N - n
    <3>1. Cardinality(rest) = Cardinality(L) - 1
      BY <2>2, <2>3, FS_RemoveElement
    <3> HIDE DEF rest, N
    <3> QED BY <1>0, <2>0, <2>2, <3>1
  <2>8. /\ Onward(x, y, P) /\ y.s.persisted = x.s.persisted /\ y.s.weight = x.s.weight
        /\ ~ y.exhausted => ~ x.exhausted /\ (c \in y.s.persisted => c \in Done(y.s))
    BY <2>6 DEF Looked
  <2>9. Onward(w, y, P) /\ y \in Pass /\ Done(x.s) \subseteq Done(y.s)
    <3>1. Onward(w, y, P)
      BY <2>8, <2>h, OnwardTwice
    <3>2. y \in Pass
      BY <2>8 DEF Onward, Running
    <3>3. Done(x.s) \subseteq Done(y.s)
      BY <2>8 DEF Onward, Ahead, Done
    <3> QED BY <3>1, <3>2, <3>3
  <2>10. ~ y.exhausted => \A t \in S : t \in w.s.persisted => t \in rest \/ t \in Done(y.s)
    BY <2>8, <2>9, <2>h
  <2>11. rest \subseteq S
    BY <2>1 DEF L
  <2>12. step(d) = [x |-> y, left |-> rest]
    BY DEF x, y, c, L
  <2> HIDE DEF rest, step
  <2>13. /\ step(d) \in [x : Pass, left : SUBSET S]
         /\ step(d).x = y /\ step(d).left = rest
    BY <2>9, <2>11, <2>12
  <2>14. There(step(d), n)
    BY <2>7, <2>8, <2>9, <2>10, <2>13, <2>h
  <2> HIDE DEF There
  <2> QED BY <2>0, <2>13, <2>14
<1>2. start \in D[0]
  <2>1. /\ start \in [x : Pass, left : SUBSET S] /\ start.x = w /\ start.left = S
    BY <1>0
  <2>2. Onward(w, w, P)
    BY OnwardItself
  <2> HIDE DEF start
  <2>3. There(start, 0)
    BY <1>0, <2>1, <2>2
  <2> HIDE DEF There
  <2> QED BY <1>0, <2>1, <2>3
<1> HIDE DEF step, start
<1>3. PICK f : Rounds(f, N, D, start, g)
  <2> HIDE DEF D, g, N
  <2> QED BY <1>0, <1>1, <1>2, RoundsExist
<1>4. Eq(f)
  <2>1. /\ f = [n \in 0..N |-> f[n]] /\ f[0] = start /\ \A n \in 1..N : f[n] = g[n][f[n - 1]]
        /\ \A n \in 0..N : f[n] \in D[n]
    BY <1>3 DEF Rounds
  <2> HIDE DEF D, g, N
  <2>2. \A n \in 0..N : n # 0 => n \in 1..N /\ n - 1 \in 0..N
    BY <1>0
  <2>3. \A n \in 0..N : f[n] = IF n = 0 THEN start ELSE step(f[n - 1])
    BY <1>1, <2>1, <2>2
  <2> QED BY <2>1, <2>3
<1>5. Eq(h)
    BY <1>4
<1>6. (w.s.persisted = {} /\ ~ setup.producers /\ u = cleared) \/ u = h[N].x
    BY DEF retry_all_unapplied, dropped, ForEach, Repeat, step, start, S
<1> HIDE DEF h, u
<1>7. h[0] = start /\ \A n \in 1..N : h[n] = step(h[n - 1])
  <2> HIDE DEF N
  <2> QED BY <1>0, <1>5
<1>8. \A n \in 0..N : h[n] \in D[n]
  <2> HIDE DEF D, g, N
  <2>1. \A n \in 1..N : h[n - 1] \in D[n - 1] => h[n] \in D[n]
    BY <1>1, <1>7
  <2> QED BY <1>0, <1>2, <1>7, <2>1, RoundsKeep
<1> DEFINE k == h[N]
<1>9. There(k, N) /\ k \in [x : Pass, left : SUBSET S]
  <2> HIDE DEF There
  <2> QED BY <1>0, <1>8
<1> HIDE DEF k
<1>10. k.left = {}
  <2>1. k.left \subseteq S /\ Cardinality(k.left) = 0
    BY <1>0, <1>9
  <2>2. IsFiniteSet(k.left)
    BY <1>0, <2>1, FS_Subset
  <2> QED BY <2>1, <2>2, FS_EmptySet
<1>11. CASE u = k.x
  <2>1. /\ Onward(w, u, P) /\ u.s.weight = w.s.weight /\ u.s.persisted = w.s.persisted
        /\ ~ u.exhausted => \A t \in S : t \in w.s.persisted => t \in Done(u.s)
    BY <1>9, <1>10, <1>11
  <2>2. ASSUME Promises(w.s) PROVE Settled(u)
    <3>1. w.s.persisted \subseteq Done(w.s) \cup S
      BY <2>2 DEF Promises, Kept, Done, S
    <3>2. Done(w.s) \subseteq Done(u.s)
      BY <2>1 DEF Onward, Ahead, Done
    <3> QED BY <2>1, <3>1, <3>2 DEF Settled
  <2> QED BY <2>1, <2>2 DEF u
<1>12. CASE w.s.persisted = {} /\ ~ setup.producers /\ u = cleared
  <2>1. /\ Onward(w, cleared, P) /\ cleared.s.weight = w.s.weight /\ cleared.s.persisted = w.s.persisted
    BY <1>12, UnappliedDropped
  <2> HIDE DEF cleared
  <2>2. Settled(u)
    BY <1>12, <2>1 DEF Settled
  <2> QED BY <1>12, <2>1, <2>2 DEF u
<1> QED BY <1>6, <1>11, <1>12 DEF k

-----------------------------------------------------------------------------
(* schedule_production_loop *)

\* The loop leaves u after it was entered with s.
Left(s, u, P) ==
    /\ Sane(u) /\ Tidy(u, P) /\ u.weight \in 0..1 /\ u.chain = s.chain
    /\ Promises(s) => Promises(u) /\ (u.result = "succeeded" => u.persisted \subseteq Done(u))

LEMMA FrameKept ==
    ASSUME NEW s, NEW u, NEW P, Frame(s, u), Tidy(s, P)
    PROVE  Tidy(u, P)
BY DEF Frame, Tidy

LEMMA ResultNoted ==
    ASSUME NEW u \in NodeRec, NEW r \in {"none", "exhausted", "succeeded"}
    PROVE  LET v == [u EXCEPT !.result = r]
           IN  v \in NodeRec /\ SameBlocks(u, v) /\ Frame(u, v) /\ v.result = r
<1> DEFINE v == [u EXCEPT !.result = r]
<1>1. v \in NodeRec
    BY DEF NodeRec
<1>2. /\ v.chain = u.chain /\ v.pending = u.pending /\ v.unapplied = u.unapplied /\ v.refused = u.refused
      /\ v.incoming = u.incoming /\ v.persisted = u.persisted /\ v.weight = u.weight /\ v.answer = u.answer
      /\ v.result = r
    BY DEF NodeRec
<1> HIDE DEF v
<1> QED BY <1>1, <1>2 DEF SameBlocks, Frame, v

LEMMA StartedBlock ==
    ASSUME NEW P \in SUBSET Submission, NEW s, Sane(s), Tidy(s, P), s.weight \in 0..1,
           now \in Nat, Last(s.chain).time <= now + 1, NEW mode \in Mode, NEW budget \in Nat, NEW e
    PROVE  Left(s, start_block(s, mode, budget, e), P)
<1> DEFINE time == Higher(now, Last(s.chain).time) + 1
           a == abort_block(s)
           b == controller_start_block(a, time, mode)
           fresh == pass(b, budget)
           w == expire_persisted(fresh)
           x == retry_all_unapplied(w, e)
           y == try_all_scheduled(x, e)
           done == process_incoming(y, e)
           r == IF done.exhausted THEN "exhausted" ELSE "succeeded"
           u == start_block(s, mode, budget, e)
<1>0. s \in NodeRec /\ s.chain \in Seq(BlockRec) /\ Len(s.chain) > 0
    BY SaneParts DEF Sane
<1>1. Last(s.chain).time \in Nat
  <2>1. Last(s.chain) \in BlockRec
    BY <1>0 DEF Last
  <2> QED BY <2>1 DEF BlockRec
<1>2. time \in Nat /\ Last(s.chain).time < time /\ time <= now + 2
    BY <1>1 DEF Higher
<1>u. u = [done.s EXCEPT !.result = r]
    BY DEF start_block
<1> HIDE DEF u, time
<1>3. /\ Sane(a) /\ a.pending = {} /\ a.chain = s.chain /\ Frame(s, a) /\ Kept(a) = Kept(s)
    BY BlockAborted
<1> HIDE DEF a
<1>4. /\ Sane(b) /\ b.chain = a.chain /\ Frame(a, b) /\ Kept(b) = Kept(a)
      /\ \E c : b.pending = {c} /\ c.time = time /\ c.mode = mode
    BY <1>2, <1>3, BlockStarted
<1> HIDE DEF b
<1>5. b.pending # {} /\ Pending(b).time = time /\ b \in NodeRec
    BY <1>4, Speculating DEF Sane
<1>6. Tidy(b, P) /\ b.weight \in 0..1 /\ (Promises(s) => Promises(b)) /\ b.chain = s.chain
  <2>1. Tidy(b, P)
    BY <1>3, <1>4, FrameKept
  <2>2. b.weight = s.weight /\ b.answer = s.answer /\ b.persisted = s.persisted
    BY <1>3, <1>4 DEF Frame
  <2>3. Promises(s) => Promises(b)
    BY <1>3, <1>4, <2>2, PromisesKept
  <2> QED BY <1>3, <1>4, <2>1, <2>2, <2>3
<1>7. /\ fresh.s = b /\ fresh.left = Len(b.incoming) /\ fresh.exhausted = FALSE /\ fresh \in Pass
  <2>1. Len(b.incoming) \in Nat
    BY <1>5, StateFields
  <2>2. Lower(budget, ScheduledBudget) \in Nat
    BY FlowAssumption DEF Lower
  <2> QED BY <1>5, <2>1, <2>2 DEF pass, Pass
<1> HIDE DEF fresh
<1>8. Running(fresh, P)
  <2>1. Len(b.incoming) \in Nat
    BY <1>5, StateFields
  <2>2. fresh.left <= Len(fresh.s.incoming) /\ fresh.s = b /\ fresh \in Pass
    BY <1>7, <2>1
  <2> QED BY <1>4, <1>5, <1>6, <2>2 DEF Running
<1>9. Onward(fresh, w, P) /\ w.s.weight = b.weight /\ Fresh(w) /\ Pending(w.s) = Pending(b)
    BY <1>2, <1>5, <1>7, <1>8, PersistedExpired
<1> HIDE DEF w
<1>10. Running(w, P) /\ (Promises(b) => Promises(w.s))
    BY <1>7, <1>9 DEF Onward
<1>11. Onward(w, x, P) /\ x.s.weight = w.s.weight /\ (Promises(w.s) => Settled(x))
    BY <1>2, <1>5, <1>9, <1>10, UnappliedRetried
<1> HIDE DEF x
<1>12. Onward(x, y, P) /\ y.s.weight \in 0..1
  <2>1. Running(x, P)
    BY <1>11 DEF Onward
  <2> QED BY <1>6, <1>9, <1>11, <2>1, AllScheduledTried
<1> HIDE DEF y
<1>13. Onward(y, done, P) /\ done.s.weight \in 0..1
  <2>1. Running(y, P)
    BY <1>12 DEF Onward
  <2> QED BY <1>12, <2>1, IncomingProcessed
<1> HIDE DEF done
<1>14. Onward(x, done, P)
    BY <1>12, <1>13, OnwardTwice
<1>15. Onward(fresh, done, P)
    BY <1>9, <1>11, <1>14, OnwardTwice
<1>16. /\ Sane(done.s) /\ Tidy(done.s, P) /\ done.s.chain = s.chain /\ done.s \in NodeRec
       /\ Promises(s) => Promises(done.s) /\ Settled(done)
    BY <1>6, <1>7, <1>10, <1>11, <1>14, <1>15 DEF Onward, Running, Ahead, Sane
<1>17. /\ u \in NodeRec /\ SameBlocks(done.s, u) /\ Frame(done.s, u) /\ u.result = r
  <2>1. r \in {"none", "exhausted", "succeeded"}
    OBVIOUS
  <2> HIDE DEF r
  <2> QED BY <1>16, <1>u, <2>1, ResultNoted
<1>18. Sane(u) /\ Kept(u) = Kept(done.s) /\ Done(u) = Done(done.s)
    BY <1>16, <1>17, BlocksSame
<1>19. Tidy(u, P) /\ u.weight \in 0..1 /\ u.chain = s.chain
    BY <1>13, <1>16, <1>17, FrameKept DEF Frame, SameBlocks
<1>20. ASSUME Promises(s) PROVE Promises(u) /\ (u.result = "succeeded" => u.persisted \subseteq Done(u))
  <2>1. Promises(u)
    BY <1>16, <1>17, <1>18, <1>20, PromisesKept DEF Frame
  <2>2. u.result = "succeeded" => ~ done.exhausted
    BY <1>17
  <2> QED BY <1>16, <1>17, <1>18, <1>20, <2>1, <2>2 DEF Settled, Frame
<1>21. Left(s, u, P)
    BY <1>18, <1>19, <1>20 DEF Left
<1> QED BY <1>21 DEF u

LEMMA LoopLeft ==
    ASSUME NEW P \in SUBSET Submission, NEW s, Sane(s), Tidy(s, P), s.weight \in 0..1,
           now \in Nat, Last(s.chain).time <= now + 1, setup \in Settings, NEW u \in Loop(s)
    PROVE  Left(s, u, P)
<1>1. CASE u = [abort_block(s) EXCEPT !.result = "none"]
  <2> DEFINE a == abort_block(s)
  <2>1. /\ Sane(a) /\ a.pending = {} /\ a.chain = s.chain /\ Frame(s, a) /\ Kept(a) = Kept(s)
    BY BlockAborted
  <2> HIDE DEF a
  <2>2. a \in NodeRec
    BY <2>1 DEF Sane
  <2>3. u \in NodeRec /\ SameBlocks(a, u) /\ Frame(a, u) /\ u.result = "none"
    BY <1>1, <2>2, ResultNoted DEF a
  <2>4. Sane(u) /\ Kept(u) = Kept(s)
    BY <2>1, <2>3, BlocksSame
  <2>5. Tidy(u, P)
    BY <2>1, <2>3, FrameKept
  <2>6. u.weight = s.weight /\ u.chain = s.chain /\ u.answer = s.answer /\ u.persisted = s.persisted
    BY <2>1, <2>3 DEF Frame, SameBlocks
  <2>7. Promises(s) => Promises(u)
    BY <2>4, <2>6, PromisesKept
  <2> QED BY <2>3, <2>4, <2>5, <2>6, <2>7 DEF Left
<1>2. CASE u # [abort_block(s) EXCEPT !.result = "none"]
  <2>1. PICK mode \in Modes, budget \in setup.budgets, e \in Environments : u = start_block(s, mode, budget, e)
    BY <1>2 DEF Loop
  <2>2. mode \in Mode
    BY DEF Modes, Mode
  <2>3. budget \in Nat
    <3>1. setup.budgets \in SUBSET (0..9)
      BY FlowAssumption DEF Setting
    <3> QED BY <3>1
  <2> QED BY <2>1, <2>2, <2>3, StartedBlock
<1> QED BY <1>1, <1>2

-----------------------------------------------------------------------------
(* Blocks of peers and fork switches *)

\* u carries on from s with the next block at this time.
Run(s, u, time) ==
    /\ Sane(u) /\ u.chain = s.chain /\ Frame(s, u) /\ Kept(s) \subseteq Kept(u)
    /\ \E c : u.pending = {c} /\ c.time = time

LEMMA BlockRun ==
    ASSUME NEW s, Sane(s), s.pending = {}, NEW time \in Nat, Last(s.chain).time < time,
           setup \in Settings, NEW b \in PeerBlocks, applicable(s, time, b)
    PROVE  Run(s, run_block(s, time, b), time)
<1> DEFINE t == controller_start_block(s, time, "none")
           Gen(g) == g \in Pending(t).generated /\ g.id = b.id
           gen == CHOOSE g \in Pending(t).generated : g.id = b.id
           v == scheduled_verdict(t, gen, NoTrouble)
           put == push_transaction(t, b.id, "ok")
           ran == push_scheduled_transaction(t, gen, v)
           u == run_block(s, time, b)
<1>1. /\ Sane(t) /\ t.chain = s.chain /\ Frame(s, t) /\ Kept(t) = Kept(s)
      /\ \E c : t.pending = {c} /\ c.time = time
  <2>1. "none" \in Mode
    BY DEF Mode
  <2> QED BY <2>1, BlockStarted
<1>2. u = IF b.kind = "input" THEN put ELSE IF b.kind = "scheduled" THEN ran ELSE t
    BY DEF run_block
<1>3. \/ b.kind = "empty"
      \/ b.kind = "input" /\ verdict(t, b.id, NoTrouble) = "ok"
      \/ b.kind = "scheduled" /\ gen \in Pending(t).generated
    BY DEF applicable
<1>4. t.pending # {} /\ Pending(t).time = time
    BY <1>1, Speculating
<1> HIDE DEF u, t, gen
<1>5. ASSUME NEW a, Ahead(t, a), Frame(t, a), Kept(t) \subseteq Kept(a) PROVE Run(s, a, time)
    BY <1>1, <1>4, <1>5 DEF Run, Ahead, Frame
<1>6. CASE b.kind = "empty"
    BY <1>1, <1>2, <1>6 DEF Run, u
<1>7. CASE b.kind = "input" /\ verdict(t, b.id, NoTrouble) = "ok"
  <2>1. b.id \in Trx
    <3>1. setup.peer_trx \subseteq Trx
      BY FlowAssumption DEF Setting
    <3> QED BY <1>7, <3>1 DEF PeerBlocks
  <2>2. ~ (Expiration[b.id] < Pending(t).time) /\ b.id \notin Pending(t).index /\ "ok" \in Verdict
    BY <1>7, VerdictIs DEF Verdict
  <2>3. Ahead(t, put) /\ Frame(t, put) /\ Kept(t) \subseteq Kept(put)
    BY <1>1, <1>4, <2>1, <2>2, TransactionPushed
  <2> QED BY <1>2, <1>5, <1>7, <2>3 DEF u
<1>8. CASE b.kind = "scheduled" /\ gen \in Pending(t).generated
  <2>1. v \in {"subjective", "slow"} \cup (Status \ {"input"})
    BY DEF scheduled_verdict, Status
  <2> HIDE DEF v
  <2>2. Ahead(t, ran) /\ Frame(t, ran) /\ Kept(t) \subseteq Kept(ran)
    BY <1>1, <1>4, <1>8, <2>1, ScheduledPushed
  <2> QED BY <1>2, <1>5, <1>8, <2>2 DEF u
<1> QED BY <1>3, <1>6, <1>7, <1>8

\* u is s without its last n blocks.
Undone(s, u, n) ==
    /\ Sane(u) /\ u.pending = {} /\ Frame(s, u)
    /\ Len(u.chain) = Len(s.chain) - n
    /\ \A i \in 1..Len(u.chain) : u.chain[i] = s.chain[i]
    /\ (\A i \in (Len(u.chain) + 1)..Len(s.chain) : s.chain[i].own) => Kept(u) = Kept(s)

LEMMA BlocksPopped ==
    ASSUME NEW s, Sane(s), s.pending = {}, NEW N \in Nat, N < Len(s.chain)
    PROVE  Undone(s, pop_blocks(s, N), N)
<1> DEFINE There(u, n) == Undone(s, u, n)
           D == [n \in 0..N |-> {u \in NodeRec : There(u, n)}]
           step(u) == pop_block(u)
           g == [n \in 1..N |-> [d \in D[n - 1] |-> step(d)]]
           Eq(f) == f = [n \in 0..N |-> IF n = 0 THEN s ELSE step(f[n - 1])]
           h == CHOOSE f : Eq(f)
<1>0. s \in NodeRec /\ Len(s.chain) \in Nat
    BY SaneParts DEF Sane
<1>1. ASSUME NEW n \in 1..N, NEW d \in D[n - 1] PROVE step(d) \in D[n] /\ g[n][d] = step(d)
  <2>0. n - 1 \in 0..N /\ n \in 0..N /\ n \in Nat
    OBVIOUS
  <2>1. d \in NodeRec /\ There(d, n - 1)
    BY <2>0
  <2>2. Sane(d) /\ d.pending = {} /\ Len(d.chain) = Len(s.chain) - (n - 1) /\ d.chain \in Seq(BlockRec)
    BY <2>1, SaneParts DEF Undone
  <2>3. Len(d.chain) > 1 /\ Len(d.chain) \in Nat
    BY <1>0, <2>0, <2>2
  <2> DEFINE u == step(d)
  <2>4. /\ Sane(u) /\ u.pending = {} /\ Frame(d, u) /\ u.refused = d.refused
        /\ Last(d.chain).own => Kept(u) = Kept(d)
        /\ Len(u.chain) = Len(d.chain) - 1 /\ \A i \in 1..Len(u.chain) : u.chain[i] = d.chain[i]
    BY <2>2, <2>3, BlockPopped
  <2> HIDE DEF u
  <2>5. Frame(s, u) /\ Len(u.chain) = Len(s.chain) - n
    BY <1>0, <2>0, <2>1, <2>2, <2>4 DEF Undone, Frame
  <2>6. \A i \in 1..Len(u.chain) : u.chain[i] = s.chain[i]
    BY <2>1, <2>2, <2>3, <2>4 DEF Undone
  <2>7. ASSUME \A i \in (Len(u.chain) + 1)..Len(s.chain) : s.chain[i].own PROVE Kept(u) = Kept(s)
    <3>0. Len(d.chain) \in 1..Len(d.chain) /\ Last(d.chain) = d.chain[Len(d.chain)]
      BY <2>3 DEF Last
    <3>1. Last(d.chain) = s.chain[Len(d.chain)]
      BY <2>1, <3>0 DEF Undone
    <3>2. Len(d.chain) \in (Len(u.chain) + 1)..Len(s.chain)
      BY <1>0, <2>0, <2>2, <2>3, <2>4
    <3>3. \A i \in (Len(d.chain) + 1)..Len(s.chain) : i \in (Len(u.chain) + 1)..Len(s.chain)
      BY <1>0, <2>3, <2>4
    <3>4. Kept(d) = Kept(s)
      BY <2>1, <2>7, <3>3 DEF Undone
    <3> QED BY <2>4, <2>7, <3>1, <3>2, <3>4
  <2>8. There(u, n) /\ u \in NodeRec
    BY <2>4, <2>5, <2>6, <2>7 DEF Undone, Sane
  <2> HIDE DEF There
  <2> QED BY <2>0, <2>8 DEF u
<1>2. s \in D[0]
  <2>1. There(s, 0)
    BY <1>0 DEF Undone, Frame
  <2> QED BY <1>0, <2>1
<1> HIDE DEF step
<1>3. PICK f : Rounds(f, N, D, s, g)
  <2> HIDE DEF D, g
  <2> QED BY <1>1, <1>2, RoundsExist
<1>4. Eq(f)
  <2>1. /\ f = [n \in 0..N |-> f[n]] /\ f[0] = s /\ \A n \in 1..N : f[n] = g[n][f[n - 1]]
        /\ \A n \in 0..N : f[n] \in D[n]
    BY <1>3 DEF Rounds
  <2> HIDE DEF D, g
  <2>2. \A n \in 0..N : n # 0 => n \in 1..N /\ n - 1 \in 0..N
    OBVIOUS
  <2>3. \A n \in 0..N : f[n] = IF n = 0 THEN s ELSE step(f[n - 1])
    BY <1>1, <2>1, <2>2
  <2> QED BY <2>1, <2>3
<1>5. Eq(h)
    BY <1>4
<1>6. pop_blocks(s, N) = h[N]
    BY DEF pop_blocks, Repeat, step
<1> HIDE DEF h
<1>7. h[0] = s /\ \A n \in 1..N : h[n] = step(h[n - 1])
    BY <1>5
<1>8. \A n \in 0..N : h[n] \in D[n]
  <2> HIDE DEF D, g
  <2>1. \A n \in 1..N : h[n - 1] \in D[n - 1] => h[n] \in D[n]
    BY <1>1, <1>7
  <2> QED BY <1>2, <1>7, <2>1, RoundsKeep
<1>9. There(h[N], N)
  <2> HIDE DEF There
  <2> QED BY <1>8
<1> QED BY <1>6, <1>9

\* u is s with the next n blocks of old.
Again(s, u, old, n) ==
    /\ Sane(u) /\ u.pending = {} /\ Frame(s, u) /\ Kept(s) \subseteq Kept(u)
    /\ Len(u.chain) = Len(s.chain) + n
    /\ \A i \in 1..Len(u.chain) : u.chain[i] = old[i]

LEMMA BlocksReapplied ==
    ASSUME NEW s, Sane(s), s.pending = {}, NEW old, Good(old), NEW N \in Nat,
           Len(s.chain) + N <= Len(old), \A i \in 1..Len(s.chain) : s.chain[i] = old[i]
    PROVE  Again(s, reapply_blocks(s, old, Len(s.chain), N), old, N)
<1> DEFINE F == Len(s.chain)
           There(u, n) == Again(s, u, old, n)
           D == [n \in 0..N |-> {u \in NodeRec : There(u, n)}]
           step(u, n) == reapply(u, old[F + n])
           g == [n \in 1..N |-> [d \in D[n - 1] |-> step(d, n)]]
           Eq(f) == f = [n \in 0..N |-> IF n = 0 THEN s ELSE step(f[n - 1], n)]
           h == CHOOSE f : Eq(f)
<1>0. s \in NodeRec /\ F \in Nat /\ old \in Seq(BlockRec) /\ Len(old) \in Nat
    BY SaneParts DEF Sane, Good
<1>1. ASSUME NEW n \in 1..N, NEW d \in D[n - 1] PROVE step(d, n) \in D[n] /\ g[n][d] = step(d, n)
  <2>0. n - 1 \in 0..N /\ n \in 0..N /\ n \in Nat
    OBVIOUS
  <2>1. d \in NodeRec /\ There(d, n - 1)
    BY <2>0
  <2> DEFINE b == old[F + n]
             u == step(d, n)
  <2>2. /\ Sane(d) /\ d.pending = {} /\ Len(d.chain) = F + (n - 1) /\ d.chain \in Seq(BlockRec)
        /\ \A i \in 1..Len(d.chain) : d.chain[i] = old[i]
    BY <2>1, SaneParts DEF Again
  <2>3. F + n \in 1..Len(old) /\ b \in BlockRec /\ Len(d.chain) + 1 = F + n
    BY <1>0, <2>0, <2>2
  <2> DEFINE A == Append(d.chain, b)
  <2>4. /\ A \in Seq(BlockRec) /\ Len(A) = F + n /\ \A i \in 1..Len(A) : A[i] = old[i]
    <3> HIDE DEF F
    <3> QED BY <1>0, <2>0, <2>2, <2>3
  <2> HIDE DEF b, A, F
  <2>5. Good(A)
    BY <1>0, <2>3, <2>4, GoodPrefix
  <2>6. /\ Sane(u) /\ u.pending = {} /\ Frame(d, u) /\ u.chain = A /\ Kept(d) \subseteq Kept(u)
    BY <2>2, <2>3, <2>5, BlockReapplied DEF A, b
  <2> HIDE DEF u
  <2>7. Frame(s, u) /\ Kept(s) \subseteq Kept(u)
    BY <2>1, <2>6 DEF Again, Frame
  <2>8. There(u, n) /\ u \in NodeRec
    BY <2>4, <2>6, <2>7 DEF Again, Sane, F
  <2> HIDE DEF There
  <2> QED BY <2>0, <2>8 DEF u
<1>2. s \in D[0]
  <2>1. There(s, 0)
    BY <1>0 DEF Again, Frame
  <2> QED BY <1>0, <2>1
<1> HIDE DEF step
<1>3. PICK f : Rounds(f, N, D, s, g)
  <2> HIDE DEF D, g
  <2> QED BY <1>1, <1>2, RoundsExist
<1>4. Eq(f)
  <2>1. /\ f = [n \in 0..N |-> f[n]] /\ f[0] = s /\ \A n \in 1..N : f[n] = g[n][f[n - 1]]
        /\ \A n \in 0..N : f[n] \in D[n]
    BY <1>3 DEF Rounds
  <2> HIDE DEF D, g
  <2>2. \A n \in 0..N : n # 0 => n \in 1..N /\ n - 1 \in 0..N
    OBVIOUS
  <2>3. \A n \in 0..N : f[n] = IF n = 0 THEN s ELSE step(f[n - 1], n)
    BY <1>1, <2>1, <2>2
  <2> QED BY <2>1, <2>3
<1>5. Eq(h)
    BY <1>4
<1>6. reapply_blocks(s, old, F, N) = h[N]
    BY DEF reapply_blocks, Repeat, step
<1> HIDE DEF h
<1>7. h[0] = s /\ \A n \in 1..N : h[n] = step(h[n - 1], n)
    BY <1>5
<1>8. \A n \in 0..N : h[n] \in D[n]
  <2> HIDE DEF D, g
  <2>1. \A n \in 1..N : h[n - 1] \in D[n - 1] => h[n] \in D[n]
    BY <1>1, <1>7
  <2> QED BY <1>2, <1>7, <2>1, RoundsKeep
<1>9. There(h[N], N)
  <2> HIDE DEF There
  <2> QED BY <1>8
<1> QED BY <1>6, <1>9

(* A branch is applied block after block. *)
LEMMA BranchSteps ==
    ASSUME NEW s, NEW times, NEW branch, NEW n \in Nat
    PROVE  /\ with_branch(s, 0, times, branch) = s
           /\ with_branch(s, n + 1, times, branch)
                = apply_block(with_branch(s, n, times, branch), times[n + 1], branch[n + 1])
<1> DEFINE step(u, i) == apply_block(u, times[i], branch[i])
           Eq(f, m) == f = [i \in 0..m |-> IF i = 0 THEN s ELSE step(f[i - 1], i)]
           F(m) == CHOOSE f : Eq(f, m)
           W(m) == with_branch(s, m, times, branch)
<1>6. ASSUME NEW m \in Nat PROVE W(m) = F(m)[m]
    BY DEF with_branch, Repeat
<1> HIDE DEF step, W
<1>1. \A m \in Nat : \E f : Eq(f, m)
  <2> DEFINE T == {m \in Nat : ~ \E f : Eq(f, m)}
  <2> SUFFICES ASSUME T # {} PROVE FALSE
    OBVIOUS
  <2>1. T \subseteq Nat
    OBVIOUS
  <2>2. PICK m \in T : \A y \in T : m <= y
    BY <2>1, LeastExists
  <2>3. m \in Nat /\ ~ \E f : Eq(f, m)
    OBVIOUS
  <2>4. CASE m = 0
    <3> DEFINE f == [i \in 0..m |-> s]
    <3>1. \A i \in 0..m : i = 0
      BY <2>4
    <3>2. Eq(f, m)
      BY <3>1
    <3> QED BY <2>3, <3>2
  <2>5. CASE m # 0
    <3>1. m - 1 \in Nat /\ m - 1 < m
      BY <2>3, <2>5
    <3>2. m - 1 \notin T
      <4> HIDE DEF T, Eq
      <4> QED BY <2>2, <2>3, <3>1
    <3>3. PICK f : Eq(f, m - 1)
      BY <3>1, <3>2
    <3> DEFINE k == [i \in 0..m |-> IF i = m THEN step(f[m - 1], m) ELSE f[i]]
    <3>4. ASSUME NEW i \in 0..m PROVE k[i] = IF i = 0 THEN s ELSE step(k[i - 1], i)
      <4>1. CASE i = m
        <5>1. k[i] = step(f[m - 1], m) /\ m - 1 \in 0..m /\ m - 1 # m
          BY <2>3, <2>5, <3>1, <4>1
        <5>2. k[m - 1] = f[m - 1]
          BY <5>1
        <5> QED BY <2>5, <4>1, <5>1, <5>2
      <4>2. CASE i # m
        <5>1. i \in 0..(m - 1) /\ k[i] = f[i]
          BY <2>3, <4>2
        <5>2. f[i] = IF i = 0 THEN s ELSE step(f[i - 1], i)
          BY <3>3, <5>1
        <5>3. i # 0 => i - 1 \in 0..m /\ i - 1 # m
          BY <2>3, <4>2
        <5> HIDE DEF Eq
        <5>4. i # 0 => k[i - 1] = f[i - 1]
          BY <5>3
        <5> HIDE DEF k
        <5> QED BY <5>1, <5>2, <5>4
      <4> QED BY <4>1, <4>2
    <3>5. k = [i \in 0..m |-> k[i]]
      OBVIOUS
    <3> HIDE DEF k
    <3>6. Eq(k, m)
      BY <3>4, <3>5
    <3> QED BY <2>3, <3>6
  <2> QED BY <2>4, <2>5
<1>2. ASSUME NEW m \in Nat PROVE Eq(F(m), m)
    BY <1>1
<1> HIDE DEF F
<1>3. ASSUME NEW m \in Nat
      PROVE  \A i \in 0..m : F(m)[i] = IF i = 0 THEN s ELSE step(F(m)[i - 1], i)
    BY <1>2
<1> HIDE DEF Eq
<1>4. ASSUME NEW m \in Nat PROVE \A i \in 0..m : F(m + 1)[i] = F(m)[i]
  <2> DEFINE T == {i \in 0..m : F(m + 1)[i] # F(m)[i]}
  <2> SUFFICES ASSUME T # {} PROVE FALSE
    OBVIOUS
  <2>1. T \subseteq Nat
    OBVIOUS
  <2>2. PICK i \in T : \A y \in T : i <= y
    BY <2>1, LeastExists
  <2>3. i \in 0..m /\ F(m + 1)[i] # F(m)[i] /\ m + 1 \in Nat /\ i \in 0..(m + 1)
    OBVIOUS
  <2>4. /\ F(m)[i] = IF i = 0 THEN s ELSE step(F(m)[i - 1], i)
        /\ F(m + 1)[i] = IF i = 0 THEN s ELSE step(F(m + 1)[i - 1], i)
    BY <1>3, <2>3
  <2>5. i # 0
    BY <2>3, <2>4
  <2>6. i - 1 \in 0..m /\ i - 1 < i
    BY <2>3, <2>5
  <2>7. i - 1 \notin T
    BY <2>2, <2>6
  <2>8. F(m + 1)[i - 1] = F(m)[i - 1]
    BY <2>6, <2>7
  <2> QED BY <2>3, <2>4, <2>8
<1>7. W(0) = s
  <2>1. 0 \in Nat /\ 0 \in 0..0
    OBVIOUS
  <2> QED BY <1>3, <1>6, <2>1
<1>8. W(n + 1) = step(W(n), n + 1)
  <2>1. n + 1 \in Nat /\ n + 1 \in 0..(n + 1) /\ n + 1 # 0 /\ (n + 1) - 1 = n /\ n \in 0..n
    OBVIOUS
  <2>2. F(n + 1)[n + 1] = step(F(n + 1)[n], n + 1)
    BY <1>3, <2>1
  <2>3. F(n + 1)[n] = F(n)[n]
    BY <1>4, <2>1
  <2> QED BY <1>6, <2>1, <2>2, <2>3
<1> QED BY <1>7, <1>8 DEF W, step

\* u is s with n blocks of a branch, at the slots after that of its head.
Extended(s, u, n) ==
    /\ Sane(u) /\ u.pending = {} /\ Frame(s, u) /\ Kept(s) \subseteq Kept(u)
    /\ Len(u.chain) = Len(s.chain) + n
    /\ \A i \in 1..Len(s.chain) : u.chain[i] = s.chain[i]
    /\ Last(u.chain).time = Last(s.chain).time + n

LEMMA BranchApplied ==
    ASSUME NEW s, Sane(s), s.pending = {}, setup \in Settings, NEW k \in Nat, NEW times,
           NEW branch, \A n \in 1..k : branch[n] \in PeerBlocks,
           \A n \in 1..k : times[n] = Last(s.chain).time + n,
           \A n \in 0..(k - 1) : applicable(with_branch(s, n, times, branch), times[n + 1], branch[n + 1])
    PROVE  Extended(s, with_branch(s, k, times, branch), k)
<1> DEFINE W(n) == with_branch(s, n, times, branch)
           T == {n \in 0..k : ~ Extended(s, W(n), n)}
<1>0. s.chain \in Seq(BlockRec) /\ Len(s.chain) > 0 /\ Len(s.chain) \in Nat /\ Last(s.chain).time \in Nat
  <2>1. s.chain \in Seq(BlockRec) /\ Len(s.chain) > 0
    BY SaneParts DEF Sane
  <2>2. Last(s.chain) \in BlockRec
    BY <2>1 DEF Last
  <2> QED BY <2>1, <2>2 DEF BlockRec
<1>1. ASSUME NEW n \in Nat
      PROVE  W(0) = s /\ W(n + 1) = apply_block(W(n), times[n + 1], branch[n + 1])
    BY ONLY BranchSteps, n \in Nat
<1>h. \A n \in 0..(k - 1) : applicable(W(n), times[n + 1], branch[n + 1])
    OBVIOUS
<1> HIDE DEF W
<1> SUFFICES ASSUME T # {} PROVE FALSE
  <2>1. k \in 0..k
    OBVIOUS
  <2> QED BY <2>1 DEF W
<1>2. T \subseteq Nat
    OBVIOUS
<1>3. PICK m \in T : \A y \in T : m <= y
    BY <1>2, LeastExists
<1>4. m \in 0..k /\ ~ Extended(s, W(m), m)
    OBVIOUS
<1>5. Extended(s, W(0), 0)
  <2>1. Len(s.chain) = Len(s.chain) + 0 /\ Last(s.chain).time = Last(s.chain).time + 0
    BY <1>0
  <2>2. Extended(s, s, 0)
    BY <2>1 DEF Extended, Frame
  <2>3. W(0) = s
    BY <1>1
  <2> QED BY <2>2, <2>3
<1>6. m # 0
    BY <1>4, <1>5
<1> DEFINE n == m - 1
<1>7. n \in Nat /\ n \in 0..k /\ n < m /\ n + 1 = m /\ n \in 0..(k - 1) /\ m \in 1..k
    BY <1>4, <1>6
<1> HIDE DEF n
<1>8. n \notin T
    BY <1>2, <1>3, <1>7
<1> HIDE DEF T
<1>9. Extended(s, W(n), n)
    BY <1>7, <1>8 DEF T
<1> DEFINE w == W(n)
           time == times[m]
           b == branch[m]
           r == run_block(w, time, b)
           u == commit_block(r, FALSE)
<1>10. /\ Sane(w) /\ w.pending = {} /\ Last(w.chain).time = Last(s.chain).time + n /\ Frame(s, w)
       /\ Kept(s) \subseteq Kept(w) /\ Len(w.chain) = Len(s.chain) + n
       /\ \A i \in 1..Len(s.chain) : w.chain[i] = s.chain[i]
    BY <1>9 DEF Extended
<1>11. b \in PeerBlocks /\ time = Last(s.chain).time + m /\ applicable(w, time, b) /\ W(m) = u
  <2>1. W(n + 1) = apply_block(W(n), times[n + 1], branch[n + 1])
    BY <1>1, <1>7
  <2> QED BY <1>7, <1>h, <2>1 DEF apply_block
<1> HIDE DEF w, b, time, r
<1>12. time \in Nat /\ Last(w.chain).time < time
    BY <1>0, <1>7, <1>10, <1>11
<1>13. Run(w, r, time)
    BY <1>10, <1>11, <1>12, BlockRun DEF r
<1>14. PICK c : r.pending = {c} /\ c.time = time
    BY <1>13 DEF Run
<1>15. Sane(r) /\ r.chain = w.chain /\ Frame(w, r) /\ Kept(w) \subseteq Kept(r)
    BY <1>13 DEF Run
<1>16. /\ Sane(u) /\ u.pending = {} /\ Frame(r, u) /\ Kept(u) = Kept(r)
       /\ Len(u.chain) = Len(r.chain) + 1 /\ \A i \in 1..Len(r.chain) : u.chain[i] = r.chain[i]
       /\ Last(u.chain).time = c.time
  <2>1. r.pending # {}
    BY <1>14
  <2>2. Committed(r, u)
    BY <1>15, <2>1, BlockCommitted, Zenon
  <2> HIDE DEF u
  <2> QED BY <1>14, <2>2 DEF Committed
<1> HIDE DEF u
<1>17. Len(u.chain) = Len(s.chain) + m /\ \A i \in 1..Len(s.chain) : i \in 1..Len(r.chain)
  <2>1. Len(u.chain) = (Len(s.chain) + n) + 1 /\ Len(r.chain) = Len(s.chain) + n
    BY <1>10, <1>15, <1>16
  <2> DEFINE L == Len(s.chain)
  <2>2. m \in Nat /\ n \in Nat /\ n + 1 = m /\ L \in Nat
    BY <1>0, <1>4, <1>7
  <2> HIDE DEF L
  <2>3. (L + n) + 1 = L + m /\ \A i \in 1..L : i \in 1..(L + n)
    BY <2>2
  <2> QED BY <2>1, <2>3 DEF L
<1>18. \A i \in 1..Len(s.chain) : u.chain[i] = s.chain[i]
    BY <1>10, <1>15, <1>16, <1>17
<1>19. Frame(s, u) /\ Kept(s) \subseteq Kept(u) /\ Last(u.chain).time = Last(s.chain).time + m
    BY <1>10, <1>11, <1>14, <1>15, <1>16 DEF Frame
<1>20. Extended(s, u, m)
    BY <1>16, <1>17, <1>18, <1>19 DEF Extended
<1> QED BY <1>4, <1>11, <1>20

Switched(s, u) ==
    Sane(u) /\ u.pending = {} /\ Frame(s, u) /\ Last(u.chain).time <= now + 1

\* When a fork switch loses nothing: it undoes blocks of this node, and succeeds.
Harmless(s, first, k, fails) ==
    (\A i \in (first + 1)..Len(s.chain) : s.chain[i].own) /\ (fails => k = 0)

LEMMA BranchSwitched ==
    ASSUME NEW s, Sane(s), s.pending = {}, setup \in Settings, now \in Nat, NEW k \in Nat,
           NEW branch, \A n \in 1..(k + 1) : branch[n] \in PeerBlocks, NEW fails \in BOOLEAN,
           Last(s.chain).time <= now + 1,
           NEW first, first = Len(s.chain) - k, first >= 1, NEW start, start = s.chain[first].time,
           NEW times, \A n \in 1..k : times[n] = start + n, times[k + 1] = Higher(now, start + k + 1),
           times[k + 1] <= now + 1, appliable(s, k, times, branch)
    PROVE  LET u == switched(s, k, first, times, branch, fails)
           IN  Switched(s, u) /\ (Harmless(s, first, k, fails) => Kept(s) \subseteq Kept(u))
<1> DEFINE p == pop_blocks(s, k)
           applied == with_branch(p, k, times, branch)
           time == times[k + 1]
           last == run_block(applied, time, branch[k + 1])
           won == commit_block(last, FALSE)
           a == abort_block(last)
           undone == pop_blocks(a, k)
           back == reapply_blocks(undone, s.chain, first, k)
           u == switched(s, k, first, times, branch, fails)
<1>0. /\ s.chain \in Seq(BlockRec) /\ Good(s.chain) /\ Len(s.chain) \in Nat /\ first \in Nat
      /\ first \in 1..Len(s.chain) /\ k < Len(s.chain) /\ first + k = Len(s.chain)
    BY SaneParts DEF Sane
<1>1. start \in Nat
  <2>1. s.chain[first] \in BlockRec
    BY <1>0
  <2> QED BY <2>1 DEF BlockRec
<1>u. u = IF fails THEN back ELSE won
    BY DEF switched
<1>a. \A n \in 0..k : applicable(with_branch(p, n, times, branch), times[n + 1], branch[n + 1])
    BY DEF appliable
<1> HIDE DEF u
<1>2. Undone(s, p, k)
    BY <1>0, BlocksPopped
<1> HIDE DEF p
<1>3. /\ Sane(p) /\ p.pending = {} /\ Frame(s, p) /\ Len(p.chain) = first
      /\ \A i \in 1..first : p.chain[i] = s.chain[i]
      /\ (\A i \in (first + 1)..Len(s.chain) : s.chain[i].own) => Kept(p) = Kept(s)
    BY <1>2 DEF Undone
<1>4. Last(p.chain).time = start
  <2>1. first \in 1..first
    BY <1>0
  <2> QED BY <1>3, <2>1 DEF Last
<1>5. Extended(p, applied, k)
  <2>1. /\ \A n \in 1..k : branch[n] \in PeerBlocks
        /\ \A n \in 1..k : times[n] = Last(p.chain).time + n
        /\ \A n \in 0..(k - 1) : applicable(with_branch(p, n, times, branch), times[n + 1], branch[n + 1])
    BY <1>4, <1>a
  <2> QED BY <1>3, <2>1, BranchApplied
<1>6. applicable(applied, time, branch[k + 1]) /\ branch[k + 1] \in PeerBlocks
    BY <1>a
<1> HIDE DEF applied
<1>7. /\ Sane(applied) /\ applied.pending = {} /\ Frame(p, applied) /\ Kept(p) \subseteq Kept(applied)
      /\ Len(applied.chain) = Len(s.chain)
      /\ \A i \in 1..first : applied.chain[i] = s.chain[i]
      /\ Last(applied.chain).time = start + k
    BY <1>0, <1>3, <1>4, <1>5 DEF Extended
<1>8. time \in Nat /\ Last(applied.chain).time < time /\ time <= now + 1
  <2> DEFINE z == start + k
  <2>1. z \in Nat /\ time = Higher(now, z + 1) /\ Last(applied.chain).time = z
    BY <1>1, <1>7
  <2> HIDE DEF z, time
  <2>2. time \in Nat /\ z < time
    BY <2>1 DEF Higher
  <2> QED BY <2>1, <2>2 DEF time
<1> HIDE DEF time
<1>9. Run(applied, last, time)
    BY <1>6, <1>7, <1>8, BlockRun
<1> HIDE DEF last
<1>10. /\ Sane(last) /\ last.chain = applied.chain /\ Frame(applied, last) /\ Kept(applied) \subseteq Kept(last)
       /\ last.pending # {} /\ \A c \in last.pending : c.time = time
    BY <1>9 DEF Run
<1>11. Frame(s, last) /\ Kept(p) \subseteq Kept(last)
    BY <1>3, <1>7, <1>10 DEF Frame
<1>12. Switched(s, won) /\ Kept(won) = Kept(last)
  <2>1. Committed(last, won)
    BY <1>10, BlockCommitted, Zenon
  <2> HIDE DEF won
  <2>2. Last(won.chain).time = time /\ Frame(s, won)
    BY <1>10, <1>11, <2>1 DEF Committed, Frame
  <2> QED BY <1>8, <2>1, <2>2 DEF Committed, Switched
<1>13. Sane(a) /\ a.pending = {} /\ a.chain = last.chain /\ Frame(last, a) /\ Kept(a) = Kept(last)
    BY <1>10, BlockAborted
<1> HIDE DEF a
<1>14. Undone(a, undone, k)
  <2>1. k < Len(a.chain)
    BY <1>0, <1>7, <1>10, <1>13
  <2> QED BY <1>13, <2>1, BlocksPopped
<1> HIDE DEF undone
<1>15. /\ Sane(undone) /\ undone.pending = {} /\ Frame(a, undone) /\ Len(undone.chain) = first
       /\ \A i \in 1..first : undone.chain[i] = s.chain[i]
  <2>1. Len(a.chain) = Len(s.chain) /\ \A i \in 1..first : a.chain[i] = s.chain[i]
    BY <1>7, <1>10, <1>13
  <2>2. /\ Sane(undone) /\ undone.pending = {} /\ Frame(a, undone) /\ Len(undone.chain) = first
        /\ \A i \in 1..first : undone.chain[i] = a.chain[i]
    BY <1>14, <2>1 DEF Undone
  <2> QED BY <2>1, <2>2
<1>16. k = 0 => Kept(undone) = Kept(last)
  <2>1. k = 0 => \A i \in (Len(undone.chain) + 1)..Len(a.chain) : a.chain[i].own
    BY <1>0, <1>7, <1>10, <1>13, <1>15
  <2> QED BY <1>13, <1>14, <2>1 DEF Undone
<1>17. Again(undone, back, s.chain, k)
  <2>1. Len(undone.chain) + k <= Len(s.chain)
    BY <1>0, <1>15
  <2>2. Again(undone, reapply_blocks(undone, s.chain, Len(undone.chain), k), s.chain, k)
    BY <1>0, <1>15, <2>1, BlocksReapplied
  <2> QED BY <1>15, <2>2
<1> HIDE DEF back
<1>18. Switched(s, back) /\ (k = 0 => Kept(last) \subseteq Kept(back))
  <2>1. Len(back.chain) = Len(s.chain) /\ Len(s.chain) \in 1..Len(s.chain)
    BY <1>0, <1>15, <1>17 DEF Again
  <2>2. Last(back.chain) = Last(s.chain)
    BY <1>17, <2>1 DEF Again, Last
  <2>3. Frame(s, back)
    BY <1>11, <1>13, <1>15, <1>17 DEF Again, Frame
  <2> QED BY <1>16, <1>17, <2>2, <2>3 DEF Again, Switched
<1> HIDE DEF won
<1>19. ASSUME Harmless(s, first, k, fails) PROVE Kept(s) \subseteq Kept(u)
  <2>1. Kept(s) \subseteq Kept(last)
    BY <1>3, <1>11, <1>19 DEF Harmless
  <2>2. CASE fails
    BY <1>18, <1>19, <1>u, <2>1, <2>2 DEF Harmless
  <2>3. CASE ~ fails
    BY <1>12, <1>u, <2>1, <2>3
  <2> QED BY <2>2, <2>3
<1>20. Switched(s, u)
    BY <1>12, <1>18, <1>u
<1> QED BY <1>19, <1>20 DEF u

-----------------------------------------------------------------------------
(* The inductive invariant *)

FlowInv ==
    /\ pool \in SUBSET Submission /\ setup \in Settings
    /\ now \in Nat /\ now >= Genesis /\ now <= setup.time
    /\ Sane(node) /\ Tidy(node, pool) /\ node.weight \in 0..1 /\ Last(node.chain).time <= now + 1
    /\ OnlyOwnPopped => /\ Promises(node)
                        /\ node.result = "succeeded" /\ node.pending # {} => node.persisted \subseteq Done(node)

LEMMA InvStarts ==
    Init => FlowInv
<1> SUFFICES ASSUME Init PROVE FlowInv
    OBVIOUS
<1> DEFINE b == [time |-> Genesis, own |-> FALSE, mode |-> "none", receipts |-> <<>>,
                 index |-> {}, generated |-> {}]
           C == <<b>>
           none == [x \in Submission |-> "none"]
<1>1. b \in BlockRec /\ b.receipts = <<>> /\ b.generated = {} /\ b.time = Genesis
  <2>1. Genesis \in Nat /\ <<>> \in Seq(Rcpt) /\ FALSE \in BOOLEAN /\ "none" \in Mode
    BY FlowAssumption DEF Mode
  <2>2. b \in BlockRec
    BY <2>1, Zenon DEF BlockRec
  <2> QED BY <2>2
<1>2. /\ node.chain = C /\ node.pending = {} /\ node.unapplied = {} /\ node.incoming = <<>>
      /\ node.persisted = {} /\ node.weight = 0 /\ node.result = "none" /\ node.answer = none
    BY DEF Init
<1>3. none \in [Submission -> Answer] /\ \A x \in Submission : none[x] = "none"
    BY DEF Answer
<1> HIDE DEF b, none
<1>4. C \in Seq(BlockRec) /\ Len(C) = 1 /\ C[1] = b
    BY <1>1
<1>5. node \in NodeRec
  <2>1. <<>> \in Seq(Submission) /\ 0 \in Int
    OBVIOUS
  <2> HIDE DEF C
  <2>2. node = [chain |-> C, pending |-> {}, unapplied |-> {}, incoming |-> <<>>,
               persisted |-> {}, blacklisted |-> {}, weight |-> 0,
               result |-> "none", answer |-> none, refused |-> {}]
    BY DEF Init, C, b, none
  <2> QED BY <1>3, <1>4, <2>1, <2>2, Zenon DEF NodeRec
<1>6. Good(C)
  <2>1. Input(b) = {} /\ Retired(b) = {}
    BY <1>1 DEF Input, Retired, Range
  <2>2. InputUpTo(C, 1) = {} /\ RetiredUpTo(C, 1) = {}
    <3>1. \A j \in 1..1 : C[j] = b
      BY <1>4
    <3> HIDE DEF C
    <3> QED BY <2>1, <3>1 DEF InputUpTo, RetiredUpTo
  <2> HIDE DEF C
  <2>3. Dedup(C, 1)
    BY <1>1, <1>4, <2>2, FS_EmptySet DEF Dedup
  <2>4. Once(C)
    <3>1. \A i \in 1..Len(C) : DOMAIN C[i].receipts = {}
      BY <1>1, <1>4
    <3> QED BY <3>1 DEF Once
  <2>5. \A i \in 1..Len(C) : i = 1
    BY <1>4
  <2>6. 1..(Len(C) - 1) = {}
    BY <1>4
  <2> QED BY <1>4, <2>3, <2>4, <2>5, <2>6 DEF Good
<1>7. Sane(node) /\ Last(node.chain).time = Genesis
  <2>1. Blocks(node) = C
    BY <1>2, Waiting
  <2> HIDE DEF C
  <2> QED BY <1>1, <1>2, <1>4, <1>5, <1>6, <2>1 DEF Sane, Last
<1>8. Tidy(node, pool)
  <2>1. pool = {} /\ Range(<<>>) = {} /\ IsInjective(<<>>)
    BY DEF Init, Range, IsInjective
  <2> QED BY <1>2, <2>1 DEF Tidy
<1>9. Promises(node)
  <2>1. \A x \in Persist : x \in Submission
    BY FlowAssumption
  <2> QED BY <1>2, <1>3, <2>1 DEF Promises
<1>10. pool = {} /\ now = Genesis /\ setup \in Settings /\ Genesis \in Nat /\ now <= setup.time
  <2>1. pool = {} /\ now = Genesis /\ setup \in Settings
    BY DEF Init
  <2>2. Genesis \in Nat /\ setup.time \in Nat /\ setup.time >= Genesis
    BY <2>1, FlowAssumption DEF Setting
  <2> QED BY <2>1, <2>2
<1>11. node.weight \in 0..1 /\ node.result # "succeeded" /\ now >= Genesis /\ Last(node.chain).time <= now + 1
    BY <1>2, <1>7, <1>10
<1> QED BY <1>7, <1>8, <1>9, <1>10, <1>11 DEF FlowInv

(* The loop is entered with s. *)
LEMMA LoopKeeps ==
    ASSUME FlowInv, NEW s, Sane(s), Frame(node, s), Last(s.chain).time <= now + 1,
           OnlyOwnPopped => Kept(node) \subseteq Kept(s),
           node' \in Loop(s), pool' = pool, now' = now, setup' = setup
    PROVE  FlowInv'
<1>1. /\ pool \in SUBSET Submission /\ setup \in Settings /\ now \in Nat /\ Tidy(node, pool)
      /\ node.weight \in 0..1
    BY DEF FlowInv
<1>2. Tidy(s, pool) /\ s.weight \in 0..1 /\ s.answer = node.answer /\ s.persisted = node.persisted
    BY <1>1, FrameKept DEF Frame
<1>3. Left(s, node', pool)
    BY <1>1, <1>2, LoopLeft
<1>4. ASSUME OnlyOwnPopped PROVE Promises(s)
  <2>1. Promises(node) /\ Kept(node) \subseteq Kept(s)
    BY <1>4 DEF FlowInv
  <2> QED BY <1>2, <2>1, PromisesKept
<1>5. /\ Sane(node') /\ Tidy(node', pool) /\ node'.weight \in 0..1 /\ Last(node'.chain).time <= now + 1
      /\ OnlyOwnPopped => /\ Promises(node')
                          /\ node'.result = "succeeded" => node'.persisted \subseteq Done(node')
    BY <1>3, <1>4 DEF Left
<1> QED BY <1>5 DEF FlowInv, Promises

(* A submission whose keys are recovered. *)
LEMMA ResultSame ==
    ASSUME NEW s, Sane(s), NEW x \in Submission, NEW e, s.pending # {}
    PROVE  process_incoming_transaction_async(s, x, e).result = s.result
<1> DEFINE t == TrxOf[x]
           v == verdict(s, t, e)
           pushed == push_transaction(s, t, v)
           kept == [pushed EXCEPT !.persisted = IF x \in Persist THEN @ \cup {t} ELSE @]
           queued == [pushed EXCEPT !.incoming = Append(@, x)]
           u == process_incoming_transaction_async(s, x, e)
<1>1. \/ u = respond(s, x, "error") \/ u = respond(kept, x, "ok")
      \/ u = queued \/ u = respond(pushed, x, "error")
    BY DEF process_incoming_transaction_async
<1>2. s \in NodeRec
    BY DEF Sane
<1> HIDE DEF v, u
<1>3. pushed.result = s.result /\ pushed \in NodeRec
  <2>1. v \in Verdict /\ (v = "ok" => ~ (Expiration[t] < Pending(s).time) /\ t \notin Pending(s).index)
    BY VerdictIs DEF v
  <2>2. Ahead(s, pushed)
    BY <2>1, TransactionPushed, FlowAssumption
  <2>3. pushed.result = s.result
    BY <1>2 DEF push_transaction, NodeRec
  <2> QED BY <2>2, <2>3 DEF Ahead, Sane
<1> HIDE DEF pushed
<1>4. kept.result = pushed.result /\ queued.result = pushed.result
    BY <1>3 DEF NodeRec
<1>5. ASSUME NEW a, NEW y PROVE respond(a, x, y).result = a.result
    BY DEF respond
<1> HIDE DEF kept, queued
<1> QED BY <1>1, <1>3, <1>4, <1>5 DEF u

LEMMA InvContinues ==
    FlowInv /\ [Next]_vars => FlowInv'
<1> SUFFICES ASSUME FlowInv, [Next]_vars PROVE FlowInv'
    OBVIOUS
<1>1. /\ pool \in SUBSET Submission /\ setup \in Settings /\ now \in Nat /\ Sane(node)
      /\ Tidy(node, pool) /\ node.weight \in 0..1 /\ Last(node.chain).time <= now + 1
    BY DEF FlowInv
<1>2. ASSUME NEW x \in Submission, Submit(x), setup' = setup PROVE FlowInv'
  <2>1. node' = node /\ now' = now /\ pool' = pool \cup {x} /\ node.answer[x] = "none" /\ x \notin Range(node.incoming)
    BY <1>2 DEF Submit
  <2>2. Tidy(node, pool')
    BY <1>1, <2>1 DEF Tidy
  <2> QED BY <1>2, <2>1, <2>2 DEF FlowInv, Promises
<1>3. ASSUME NEW x \in Submission, Recovered(x), setup' = setup PROVE FlowInv'
  <2>1. PICK e \in Environments : node' = process_incoming_transaction_async(node, x, e)
    BY <1>3 DEF Recovered
  <2> DEFINE P == pool \ {x}
  <2>2. x \in pool /\ pool' = P /\ now' = now /\ P \in SUBSET Submission
    BY <1>1, <1>3 DEF Recovered
  <2>3. x \notin P /\ x \notin Range(node.incoming) /\ node.answer[x] = "none" /\ Tidy(node, P)
    BY <1>1, <2>2 DEF Tidy
  <2> HIDE DEF P
  <2>4. Sane(node') /\ node'.chain = node.chain /\ Handled(node, node', P)
        /\ (node'.pending # {} => node.pending # {} /\ node'.result = node.result)
    <3>1. CASE node.pending = {}
      <4>1. Sane(node') /\ node'.pending = {} /\ Handled(node, node', P)
        BY <1>1, <2>1, <2>2, <2>3, <3>1, NotProcessed
      <4>2. node'.chain = node.chain
        BY <1>1, <2>1, <3>1 DEF process_incoming_transaction_async, Sane, NodeRec
      <4> QED BY <4>1, <4>2
    <3>2. CASE node.pending # {}
      <4>1. Ahead(node, node') /\ Handled(node, node', P)
        BY <1>1, <2>1, <2>2, <2>3, <3>2, Processed
      <4>2. node'.result = node.result
        BY <1>1, <2>1, <3>2, ResultSame
      <4> QED BY <3>2, <4>1, <4>2 DEF Ahead
    <3> QED BY <3>1, <3>2
  <2>5. Tidy(node', pool') /\ node'.weight \in 0..1 /\ Last(node'.chain).time <= now + 1
    BY <1>1, <2>2, <2>4 DEF Handled
  <2>6. ASSUME OnlyOwnPopped
        PROVE  Promises(node') /\ (node'.result = "succeeded" /\ node'.pending # {} => node'.persisted \subseteq Done(node'))
    BY <2>4, <2>6 DEF FlowInv, Handled
  <2> QED BY <1>3, <2>2, <2>4, <2>5, <2>6 DEF FlowInv, Promises
<1>4. ASSUME StartBlock, setup' = setup PROVE FlowInv'
  <2>1. node' \in Loop(node) /\ pool' = pool /\ now' = now /\ Frame(node, node)
    BY <1>4 DEF StartBlock, Frame
  <2> QED BY <1>1, <1>4, <2>1, LoopKeeps
<1>5. ASSUME ProduceBlock, setup' = setup PROVE FlowInv'
  <2> DEFINE s == commit_block(node, TRUE)
  <2>1. node' \in Loop(s) /\ pool' = pool /\ now' = now /\ node.pending # {}
    BY <1>5 DEF ProduceBlock
  <2>2. PICK b \in node.pending : b.time <= now + 1
    BY <1>5 DEF ProduceBlock
  <2>3. Committed(node, s)
    BY <1>1, <2>1, BlockCommitted, Zenon
  <2> HIDE DEF s
  <2>4. Sane(s) /\ Frame(node, s) /\ Kept(s) = Kept(node) /\ Last(s.chain).time <= now + 1
    BY <2>2, <2>3 DEF Committed
  <2> QED BY <1>5, <2>1, <2>4, LoopKeeps
<1>6. ASSUME NEW k \in 0..setup.pops, NEW branch \in [1..(k + 1) -> PeerBlocks], NEW fails \in BOOLEAN,
             PushBlock(k, branch, fails), setup' = setup
      PROVE  FlowInv'
  <2> DEFINE s == abort_block(node)
             first == Len(s.chain) - k
             start == s.chain[first].time
             times == [i \in 1..(k + 1) |-> IF i <= k THEN start + i ELSE Higher(now, start + i)]
             u == switched(s, k, first, times, branch, fails)
  <2>1. /\ first >= 1 /\ times[k + 1] <= now + 1
        /\ OnlyOwnPopped => Harmless(s, first, k, fails)
        /\ appliable(s, k, times, branch)
        /\ node' \in Loop(u) /\ pool' = pool /\ now' = now
    BY <1>6 DEF PushBlock, Harmless
  <2>2. Sane(s) /\ s.pending = {} /\ s.chain = node.chain /\ Frame(node, s) /\ Kept(s) = Kept(node)
    BY <1>1, BlockAborted
  <2>3. k \in Nat /\ \A n \in 1..(k + 1) : branch[n] \in PeerBlocks
    <3>1. setup.pops \in Nat
      BY <1>1, FlowAssumption DEF Setting
    <3> QED BY <3>1
  <2> HIDE DEF s, first, start, u
  <2>4. /\ \A n \in 1..k : times[n] = start + n
        /\ times[k + 1] = Higher(now, start + k + 1)
    <3>1. k + 1 \in 1..(k + 1) /\ ~ (k + 1 <= k) /\ \A n \in 1..k : n \in 1..(k + 1) /\ n <= k
      BY <2>3
    <3>2. start \in Nat
      <4>1. s.chain \in Seq(BlockRec) /\ Len(s.chain) \in Nat
        BY <2>2, SaneParts
      <4>2. first \in 1..Len(s.chain)
        BY <2>1, <2>3, <4>1 DEF first
      <4>3. s.chain[first] \in BlockRec
        BY <4>1, <4>2
      <4> QED BY <4>3 DEF BlockRec, start
    <3>3. start + (k + 1) = start + k + 1
      BY <2>3, <3>2
    <3> QED BY <3>1, <3>3
  <2> HIDE DEF times
  <2>5. Last(s.chain).time <= now + 1
    BY <1>1, <2>2
  <2>6. Switched(s, u) /\ (Harmless(s, first, k, fails) => Kept(s) \subseteq Kept(u))
    BY <1>1, <2>1, <2>2, <2>3, <2>4, <2>5, BranchSwitched DEF u, first, start
  <2>7. /\ Sane(u) /\ Frame(node, u) /\ Last(u.chain).time <= now + 1
        /\ OnlyOwnPopped => Kept(node) \subseteq Kept(u)
    BY <2>1, <2>2, <2>6 DEF Switched, Frame
  <2> QED BY <1>6, <2>1, <2>7, LoopKeeps
<1>7. ASSUME Tick, setup' = setup PROVE FlowInv'
  <2>1. node' = node /\ pool' = pool /\ now' = now + 1 /\ now < setup.time /\ setup.time \in Nat
    BY <1>1, <1>7, FlowAssumption DEF Tick, Setting
  <2>2. Last(node.chain).time <= now' + 1 /\ now' \in Nat /\ now' >= Genesis /\ now' <= setup.time
    <3>1. Last(node.chain).time \in Nat
      <4>1. node.chain \in Seq(BlockRec) /\ Len(node.chain) > 0
        BY <1>1, SaneParts DEF Sane
      <4>2. Last(node.chain) \in BlockRec
        BY <4>1 DEF Last
      <4> QED BY <4>2 DEF BlockRec
    <3> QED BY <1>1, <2>1, <3>1, FlowAssumption DEF FlowInv
  <2>3. ASSUME Promises(node) PROVE Promises(node)'
    <3>1. \A x \in Submission : Expiration[TrxOf[x]] \in Nat
      BY FlowAssumption
    <3>2. \A x \in Submission : /\ Expiration[TrxOf[x]] > now' + 1 => Expiration[TrxOf[x]] > now + 1
                                /\ Expiration[TrxOf[x]] > now' + 2 => Expiration[TrxOf[x]] > now + 2
      BY <1>1, <2>1, <3>1
    <3>3. \A x \in Persist : x \in Submission
      BY FlowAssumption
    <3> QED BY <1>7, <2>1, <2>3, <3>2, <3>3 DEF Promises
  <2> QED BY <1>7, <2>1, <2>2, <2>3 DEF FlowInv
<1>8. CASE UNCHANGED vars
    BY <1>8 DEF vars, FlowInv, Promises
<1>9. CASE Next
    BY <1>2, <1>3, <1>4, <1>5, <1>6, <1>7, <1>9 DEF Next
<1> QED BY <1>8, <1>9

(* Everything the handlers do keeps the chain, the lists and the submissions in
   order, and what was promised, for every setting. *)
THEOREM FlowInvHolds ==
    Spec => []FlowInv
<1> QED BY InvStarts, InvContinues, PTL DEF Spec

-----------------------------------------------------------------------------
(* The properties *)

LEMMA InvImpliesOnce ==
    FlowInv => ExecutedOnce
<1> SUFFICES ASSUME FlowInv PROVE ExecutedOnce
    OBVIOUS
<1> DEFINE L == Blocks(node)
<1>1. Good(L)
    BY DEF FlowInv, Sane
<1>2. L \in Seq(BlockRec) /\ Once(L)
    BY <1>1 DEF Good
<1> HIDE DEF L
<1>3. DOMAIN L = 1..Len(L)
    BY <1>2
<1> QED BY <1>2, <1>3 DEF ExecutedOnce, Once, L

LEMMA InvImpliesAnswer ==
    FlowInv => OneAnswer
<1> SUFFICES ASSUME FlowInv PROVE OneAnswer
    OBVIOUS
<1>1. Tidy(node, pool)
    BY DEF FlowInv
<1>2. ASSUME NEW x \in Submission
      PROVE  Cardinality({1 : a \in {x} \cap pool} \cup {2 : a \in {x} \cap Range(node.incoming)}
                         \cup {3 : a \in {node.answer[x]} \ {"none"}}) <= 1
  <2> DEFINE U == {1 : a \in {x} \cap pool} \cup {2 : a \in {x} \cap Range(node.incoming)}
                  \cup {3 : a \in {node.answer[x]} \ {"none"}}
  <2>1. \/ U = {} \/ U = {1} \/ U = {2} \/ U = {3}
    <3>1. CASE x \in pool
      BY <1>1, <3>1 DEF Tidy
    <3>2. CASE x \in Range(node.incoming)
      BY <1>1, <3>2 DEF Tidy
    <3>3. CASE x \notin pool /\ x \notin Range(node.incoming)
      BY <3>3
    <3> QED BY <3>1, <3>2, <3>3
  <2>2. Cardinality({}) = 0 /\ Cardinality({1}) = 1 /\ Cardinality({2}) = 1 /\ Cardinality({3}) = 1
    BY FS_EmptySet, FS_Singleton
  <2> HIDE DEF U
  <2>3. Cardinality(U) <= 1
    BY <2>1, <2>2
  <2> QED BY <2>3 DEF U
<1>3. IsInjective(node.incoming)
    BY <1>1 DEF Tidy
<1> QED BY <1>2, <1>3 DEF OneAnswer

LEMMA InvImpliesTypes ==
    FlowInv => TypeOK /\ UnappliedIsUndone
<1> SUFFICES ASSUME FlowInv PROVE TypeOK /\ UnappliedIsUndone
    OBVIOUS
<1>1. /\ pool \in SUBSET Submission /\ setup \in Settings /\ now \in Nat /\ now >= Genesis /\ now <= setup.time
      /\ Sane(node) /\ node.weight \in 0..1 /\ Genesis \in Nat /\ setup.time \in Nat
    BY FlowAssumption DEF FlowInv, Setting
<1>2. now \in Genesis..setup.time
    BY <1>1
<1>3. /\ node.unapplied \in SUBSET Trx /\ node.persisted \in SUBSET Trx /\ node.incoming \in Seq(Submission)
      /\ node.blacklisted \in SUBSET [id : Trx, expiry : Nat]
    BY <1>1, StateFields DEF Sane
<1>4. Range(node.incoming) \subseteq Submission /\ {e.id : e \in node.blacklisted} \subseteq Trx
    BY <1>3 DEF Range
<1>5. Cardinality(node.pending) <= 1
  <2>1. CASE node.pending = {}
    BY <2>1, FS_EmptySet
  <2>2. CASE node.pending # {}
    <3>1. PICK b : node.pending = {b}
      BY <1>1, <2>2 DEF Sane
    <3>2. Cardinality({b}) = 1
      BY FS_Singleton
    <3> QED BY <3>1, <3>2
  <2> QED BY <2>1, <2>2
<1>6. \A i \in 1..(Len(node.chain) - 1) : node.chain[i].time < node.chain[i + 1].time
    BY <1>1, SaneParts DEF Good
<1>7. node.unapplied \cap Applied(node) = {}
    BY <1>1, AppliedIs DEF Sane
<1> QED BY <1>1, <1>2, <1>3, <1>4, <1>5, <1>6, <1>7 DEF TypeOK, UnappliedIsUndone

LEMMA InvImpliesKept ==
    FlowInv /\ OnlyOwnPopped => AcceptedKept /\ PersistedKept
<1> SUFFICES ASSUME FlowInv, OnlyOwnPopped PROVE AcceptedKept /\ PersistedKept
    OBVIOUS
<1>1. Sane(node) /\ Promises(node)
      /\ (node.result = "succeeded" /\ node.pending # {} => node.persisted \subseteq Done(node))
    BY DEF FlowInv
<1>2. Applied(node) = InputOf(Blocks(node))
    BY <1>1, AppliedIs
<1>3. AcceptedKept
    BY <1>1, <1>2 DEF AcceptedKept, Promises, Kept
<1>4. PersistedRemembered
    BY <1>1 DEF PersistedRemembered, Promises
<1>5. PersistedApplied
    BY <1>1, <1>2 DEF PersistedApplied, Done
<1> QED BY <1>3, <1>4, <1>5 DEF PersistedKept

(* No transaction is executed or retired twice, although the deduplication list is
   cleared by expiration, blocks are undone and applied again, and transactions are
   retried: controller.cpp, clear_expired_input_transactions and push_transaction. *)
THEOREM TransactionsExecutedOnce ==
    Spec => []ExecutedOnce
<1> QED BY FlowInvHolds, InvImpliesOnce, PTL

(* The callback of a submission is called at most once, and a submission that was
   answered is neither queued nor being recovered: on_incoming_transaction_async. *)
THEOREM SubmissionsAnsweredOnce ==
    Spec => []OneAnswer
<1> QED BY FlowInvHolds, InvImpliesAnswer, PTL

(* Unapplied transactions are never in the chain or the pending block, whatever fork
   switches undo: abort_block, pop_block and apply_block of the controller. *)
THEOREM UnappliedAreUndone ==
    Spec => [](TypeOK /\ UnappliedIsUndone)
<1> QED BY FlowInvHolds, InvImpliesTypes, PTL

(* Where fork switches undo blocks of this node only, it loses no transaction that it
   has accepted before it expires or fails. *)
THEOREM AcceptedAreNotLost ==
    ASSUME OnlyOwnPopped
    PROVE  Spec => []NothingLost
<1>1. FlowInv => NothingLost
    BY InvImpliesTypes, InvImpliesKept DEF NothingLost
<1> QED BY <1>1, FlowInvHolds, PTL

(* ... and keeps the persisted ones applied: they are in every block whose start had
   the time for them. *)
THEOREM PersistedAreKept ==
    ASSUME OnlyOwnPopped
    PROVE  Spec => []PersistedKept
<1>1. FlowInv => PersistedKept
    BY InvImpliesKept
<1> QED BY <1>1, FlowInvHolds, PTL

=============================================================================
