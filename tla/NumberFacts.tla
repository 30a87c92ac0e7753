---------------------------- MODULE NumberFacts ----------------------------
(***************************************************************************)
(* Facts about numbers and sums that the proofs of several modules rest    *)
(* on.                                                                     *)
(***************************************************************************)
EXTENDS Integers, FiniteSets, FiniteSetsExt, Functions, FiniteSetTheorems,
        WellFoundedInduction, TLAPS

(* A set of naturals has a least element and, when bounded, a greatest one. *)
LEMMA LeastExists ==
    ASSUME NEW T, T \subseteq Nat, T # {}
    PROVE  \E x \in T : \A y \in T : x <= y
<1>1. IsWellFoundedOn(OpToRel(<, Nat), Nat)
    BY NatLessThanWellFounded
<1>2. \E x \in T : \A y \in T : ~ (<<y, x>> \in OpToRel(<, Nat))
    BY <1>1, WFMin
<1>3. \A x, y \in Nat : ~ (<<y, x>> \in OpToRel(<, Nat)) => x <= y
    BY DEF OpToRel
<1> QED BY <1>2, <1>3

(* The maximum that community operator Max chooses exists for bounded sets. *)
LEMMA GreatestExists ==
    ASSUME NEW T, T \subseteq Nat, T # {}, NEW n \in Nat, \A y \in T : y <= n
    PROVE  Max(T) \in T /\ \A y \in T : y <= Max(T)
<1> DEFINE U == {n - y : y \in T}
<1>0. \A y \in T : n - y \in Nat
    OBVIOUS
<1>1. U \subseteq Nat /\ U # {}
    BY <1>0
<1>2. PICK u \in U : \A v \in U : u <= v
    BY <1>1, LeastExists
<1>3. PICK x \in T : u = n - x
    OBVIOUS
<1>4. \A y \in T : x >= y
  <2> TAKE y \in T
  <2>1. n - y \in U
    OBVIOUS
  <2>2. n - x <= n - y
    BY <1>2, <1>3, <2>1
  <2> QED BY <2>2
<1> QED BY <1>4 DEF Max

(* get_scheduled_producer never reads beyond a schedule of L producers. *)
LEMMA ScheduledInRange ==
    ASSUME NEW L \in Nat \ {0}, NEW R \in Nat \ {0}, NEW t \in Nat
    PROVE  (t % (L * R)) \div R + 1 \in 1 .. L
<1> DEFINE m == L * R
           x == t % m
           q == x \div R
<1>1. m \in Nat \ {0}
    OBVIOUS
<1>2. x \in Nat /\ x < m
    BY <1>1
<1> HIDE DEF x
<1>3. q \in Nat /\ q * R <= x
    BY <1>2
<1> HIDE DEF q
<1>4. q < L
  <2> SUFFICES ASSUME q >= L PROVE FALSE
    BY <1>3
  <2>1. q * R >= L * R
    BY <1>3
  <2> QED BY <2>1, <1>2, <1>3
<1> QED BY <1>3, <1>4 DEF x, q

(* Truncation to 16 bits never raises a count. *)
LEMMA RemainderBelow ==
    ASSUME NEW d \in Nat, NEW u \in Nat \ {0}
    PROVE  d % u \in Nat /\ d % u <= d
<1>1. d % u \in Nat /\ d % u < u
    OBVIOUS
<1>2. CASE d >= u
    BY <1>1, <1>2
<1>3. CASE d < u
    BY <1>1, <1>3
<1> QED BY <1>2, <1>3

(* A quotient is at least what fits into the dividend. *)
LEMMA QuotientAtLeast ==
    ASSUME NEW x \in Nat, NEW h \in Nat, NEW d \in Nat \ {0}, h * d <= x
    PROVE  x \div d \in Nat /\ x \div d >= h
<1> DEFINE q == x \div d
<1>1. q \in Nat /\ x < (q + 1) * d
    OBVIOUS
<1> HIDE DEF q
<1>2. q >= h
  <2> SUFFICES ASSUME q < h PROVE FALSE
    BY <1>1
  <2>1. q + 1 <= h
    BY <1>1
  <2>2. (q + 1) * d <= h * d
    BY <1>1, <2>1
  <2>3. (q + 1) * d \in Nat /\ h * d \in Nat
    BY <1>1
  <2> QED BY <1>1, <2>2, <2>3
<1> QED BY <1>1, <1>2 DEF q

(* Quotient and remainder. *)
LEMMA Division ==
    ASSUME NEW x \in Nat, NEW d \in Nat \ {0}
    PROVE  /\ x \div d \in Nat /\ x % d \in Nat /\ x % d < d
           /\ x = (x \div d) * d + (x % d)
<1>1. x \div d \in Nat /\ x % d \in Nat /\ x % d < d
    OBVIOUS
<1>2. x = d * (x \div d) + (x % d)
    OBVIOUS
<1> DEFINE q == x \div d
<1>3. d * q = q * d
  <2> HIDE DEF q
  <2>1. q \in Nat
    BY <1>1 DEF q
  <2> QED BY <2>1
<1> QED BY <1>1, <1>2, <1>3

LEMMA ProductGrows ==
    ASSUME NEW a \in Nat, NEW b \in Nat, NEW d \in Nat, a <= b
    PROVE  a * d <= b * d /\ a * d \in Nat /\ b * d \in Nat
OBVIOUS

(* They are unique. *)
LEMMA DivisionUnique ==
    ASSUME NEW a \in Nat, NEW d \in Nat \ {0}, NEW e \in Nat, e < d
    PROVE  (a * d + e) \div d = a /\ (a * d + e) % d = e
<1> DEFINE x == a * d + e
           q == x \div d
           r == x % d
<1>1. x \in Nat
    OBVIOUS
<1>2. q \in Nat /\ r \in Nat /\ r < d /\ x = q * d + r
    BY <1>1, Division
<1>3. a * d + e = q * d + r
    BY <1>2
<1> HIDE DEF q, r
<1>4. ASSUME NEW m \in Nat, NEW n \in Nat, NEW f \in Nat, NEW g \in Nat, f < d,
             m * d + f = n * d + g
      PROVE  m >= n
  <2> SUFFICES ASSUME m < n PROVE FALSE
    OBVIOUS
  <2>1. (m + 1) * d <= n * d /\ (m + 1) * d \in Nat /\ n * d \in Nat
    BY ProductGrows
  <2>2. (m + 1) * d = m * d + d /\ m * d \in Nat
    OBVIOUS
  <2> QED BY <1>4, <2>1, <2>2
<1>5. a >= q /\ q >= a
    BY <1>2, <1>3, <1>4
<1>6. a = q
    BY <1>2, <1>5
<1>7. e = r
    BY <1>2, <1>3, <1>6
<1> QED BY <1>6, <1>7 DEF q, r

(* The position in the schedule whose turn a slot is, and how many turns pass
   from position j to position i. *)
TurnOf(slot, L, R) == (slot % (L * R)) \div R
TurnsBetween(j, i, L) == IF i < j THEN i - j + L ELSE i - j

(* With L producers that each have R slots in a row: the first slot from t on
   of the producer whose turn slot s is. *)
LEMMA FirstTurn ==
    ASSUME NEW L \in Nat \ {0}, NEW R \in Nat \ {0}, NEW s \in Nat, NEW t \in Nat, t <= s,
           TurnOf(s, L, R) # TurnOf(t, L, R)
    PROVE  t - (t % R) + TurnsBetween(TurnOf(t, L, R), TurnOf(s, L, R), L) * R <= s
<1> DEFINE i == TurnOf(s, L, R)
           j == TurnOf(t, L, R)
           P == L * R
           q == s \div P
           w == t \div P
           e == (s % P) % R
           f == (t % P) % R
<1>1. P \in Nat \ {0}
    OBVIOUS
<1>2. /\ q \in Nat /\ w \in Nat /\ s % P \in Nat /\ s % P < P /\ t % P \in Nat /\ t % P < P
      /\ s = q * P + (s % P) /\ t = w * P + (t % P)
    BY <1>1, Division
<1>3. /\ i \in Nat /\ e \in Nat /\ e < R /\ s % P = i * R + e
      /\ j \in Nat /\ f \in Nat /\ f < R /\ t % P = j * R + f
    BY <1>2, Division DEF TurnOf
<1>4. i < L /\ j < L
  <2>1. i + 1 \in 1 .. L /\ j + 1 \in 1 .. L
    BY ScheduledInRange DEF TurnOf
  <2> QED BY <1>3, <2>1
<1> HIDE DEF i, j
<1>5. s = q * P + i * R + e /\ t = w * P + j * R + f
  <2> DEFINE x == s % P
             y == t % P
  <2>1. s = q * P + x /\ t = w * P + y /\ x = i * R + e /\ y = j * R + f
    BY <1>2, <1>3
  <2>2. q * P \in Nat /\ w * P \in Nat /\ i * R \in Nat /\ j * R \in Nat
    BY <1>1, <1>2, <1>3
  <2> HIDE DEF x, y, q, w, e, f, P
  <2> QED BY <1>3, <2>1, <2>2
<1>6. t % R = f
  <2> HIDE DEF w, f
  <2>1. w * P + j * R = (w * L + j) * R
    BY <1>2, <1>3
  <2>2. w * L + j \in Nat
    BY <1>2, <1>3
  <2>3. t = (w * L + j) * R + f
    BY <1>5, <2>1
  <2>4. ((w * L + j) * R + f) % R = f
    BY <1>3, <2>2, DivisionUnique
  <2> QED BY <2>3, <2>4
<1> HIDE DEF q, w, e, f
<1>7. /\ q * P \in Nat /\ w * P \in Nat /\ i * R \in Nat /\ j * R \in Nat /\ L * R = P
      /\ (i + 1) * R = i * R + R /\ (i + 1) * R <= P /\ (j + 1) * R <= P
      /\ (j + 1) * R = j * R + R
  <2>1. (i + 1) * R <= L * R /\ (j + 1) * R <= L * R
    BY <1>3, <1>4, ProductGrows
  <2> QED BY <1>1, <1>2, <1>3, <2>1
<1> HIDE DEF P
<1>8. t - (t % R) = w * P + j * R
  <2>1. t - f = w * P + j * R
    BY <1>3, <1>5, <1>7
  <2> QED BY <1>6, <2>1
<1>9. ASSUME i > j PROVE t - (t % R) + (i - j) * R <= s
  <2>1. (i - j) * R = i * R - j * R
    BY <1>3
  <2>2. w <= q
    <3> SUFFICES ASSUME q + 1 <= w PROVE FALSE
      BY <1>2
    <3>1. (q + 1) * P <= w * P /\ (q + 1) * P = q * P + P
      BY <1>1, <1>2, ProductGrows
    <3>2. (q + 1) * P \in Nat
      BY <1>1, <1>2
    <3>3. s < q * P + P /\ t >= w * P
      BY <1>3, <1>5, <1>7
    <3> QED BY <1>1, <1>7, <3>1, <3>2, <3>3
  <2>3. w * P <= q * P
    BY <1>1, <1>2, <2>2, ProductGrows
  <2>4. w * P + j * R + (i * R - j * R) <= s
    BY <1>3, <1>5, <1>7, <2>3
  <2> QED BY <1>8, <2>1, <2>4
<1>10. ASSUME i < j PROVE t - (t % R) + (i - j + L) * R <= s
  <2>1. (i - j + L) * R = i * R - j * R + P
    BY <1>3, <1>7
  <2>2. w + 1 <= q
    <3> SUFFICES ASSUME q <= w PROVE FALSE
      BY <1>2
    <3>1. q * P <= w * P
      BY <1>1, <1>2, ProductGrows
    <3>2. (i + 1) * R <= j * R
      BY <1>3, <1>10, ProductGrows
    <3>3. s < q * P + j * R /\ t >= w * P + j * R
      BY <1>3, <1>5, <1>7, <3>2
    <3> QED BY <1>7, <3>1, <3>3
  <2>3. (w + 1) * P <= q * P /\ (w + 1) * P = w * P + P
    BY <1>1, <1>2, <2>2, ProductGrows
  <2>4. w * P + j * R + (i * R - j * R + P) <= s
    BY <1>1, <1>3, <1>5, <1>7, <2>3
  <2> QED BY <1>8, <2>1, <2>4
<1>11. i # j
    BY DEF i, j
<1>12. t - (t % R) + TurnsBetween(j, i, L) * R <= s
    BY <1>3, <1>9, <1>10, <1>11 DEF TurnsBetween
<1> QED BY <1>12 DEF i, j

(* A number up to a quotient fits into the dividend. *)
LEMMA QuotientAtMost ==
    ASSUME NEW x \in Int, NEW d \in Nat \ {0}, NEW k \in Nat, k <= x \div d
    PROVE  k * d <= x
<1> DEFINE q == x \div d
<1>1. q \in Int /\ d * q <= x
    OBVIOUS
<1> HIDE DEF q
<1>2. q \in Nat /\ k <= q
    BY <1>1 DEF q
<1>3. k * d <= q * d /\ q * d = d * q /\ k * d \in Nat /\ q * d \in Nat
    BY <1>2, ProductGrows
<1> QED BY <1>1, <1>3

-----------------------------------------------------------------------------
(* What the community operator SumFunctionOnSet computes on finite sets: the facts
   behind every balance and quota that must equal a sum over the rows of a table.
   The operator is a recursive function that takes the elements in an order CHOOSE
   fixes; the facts say that the function exists and that the order does not
   matter. *)

Pick(s) == CHOOSE x \in s : TRUE

(* The function inside SumFunctionOnSet, and the equation it has to satisfy. *)
Partial(f, S) == CHOOSE iter : iter = [s \in SUBSET S |->
    IF s = {} THEN 0 ELSE f[Pick(s)] + iter[s \ {Pick(s)}]]

Recurs(iter, f, D) ==
    \A s \in D : iter[s] = IF s = {} THEN 0 ELSE f[Pick(s)] + iter[s \ {Pick(s)}]

IntOn(f, S) == \A x \in S : f[x] \in Int

LEMMA SumIsPartial ==
    ASSUME NEW f, NEW S
    PROVE  SumFunctionOnSet(f, S) = Partial(f, S)[S]
BY DEF SumFunctionOnSet, FoldFunctionOnSet, MapThenFoldSet, Partial, Pick

(* A non-empty collection of subsets of a finite set has a smallest member. *)
LEMMA SmallestSubset ==
    ASSUME NEW S, IsFiniteSet(S), NEW B, B \subseteq SUBSET S, B # {}
    PROVE  \E s \in B : IsFiniteSet(s) /\ \A t \in B : t \subseteq s => t = s
<1>1. B \subseteq FiniteSubsetsOf(S)
    BY FS_Subset DEF FiniteSubsetsOf
<1>2. \E s \in B : \A t \in B : ~ (<<t, s>> \in StrictSubsetOrdering(S))
    BY <1>1, FS_StrictSubsetOrderingWellFounded, WFMin
<1> QED BY <1>1, <1>2 DEF StrictSubsetOrdering, FiniteSubsetsOf

(* The element taken out of a set belongs to it. *)
LEMMA PickIn ==
    ASSUME NEW s, s # {}
    PROVE  Pick(s) \in s
BY DEF Pick

(* The equation has a solution: on the sets of up to n elements, for every n. *)
LEMMA SolutionExists ==
    ASSUME NEW S, IsFiniteSet(S), NEW f, IntOn(f, S)
    PROVE  \E g \in [SUBSET S -> Int] : Recurs(g, f, SUBSET S)
<1> DEFINE Level(n) == {s \in SUBSET S : Cardinality(s) <= n}
           Solved(n) == \E g \in [Level(n) -> Int] : Recurs(g, f, Level(n))
           Bad == {n \in Nat : ~ Solved(n)}
<1>0. \A s \in SUBSET S : IsFiniteSet(s) /\ Cardinality(s) \in Nat
    BY FS_Subset, FS_CardinalityType
<1>1. ASSUME NEW n \in Nat, \A k \in Nat : k < n => Solved(k)
      PROVE  Solved(n)
  <2>1. CASE n = 0
    <3>1. \A s \in Level(n) : s = {}
      BY <1>0, <2>1, FS_EmptySet
    <3> DEFINE g == [s \in Level(n) |-> 0]
    <3>2. g \in [Level(n) -> Int] /\ Recurs(g, f, Level(n))
      BY <3>1 DEF Recurs
    <3> QED BY <3>2
  <2>2. CASE n # 0
    <3>1. PICK h \in [Level(n - 1) -> Int] : Recurs(h, f, Level(n - 1))
      <4>1. n - 1 \in Nat /\ n - 1 < n
        BY <2>2
      <4> HIDE DEF Solved
      <4>2. Solved(n - 1)
        BY <1>1, <4>1
      <4> QED BY <4>2 DEF Solved
    <3> DEFINE g == [s \in Level(n) |-> IF s = {} THEN 0 ELSE f[Pick(s)] + h[s \ {Pick(s)}]]
    <3>2. ASSUME NEW s \in Level(n), s # {}
          PROVE  Pick(s) \in S /\ s \ {Pick(s)} \in Level(n - 1) /\ s \ {Pick(s)} \in Level(n)
      <4>1. Pick(s) \in s /\ Pick(s) \in S
        BY <3>2, PickIn
      <4>2. Cardinality(s \ {Pick(s)}) = Cardinality(s) - 1
        BY <1>0, <4>1, FS_RemoveElement
      <4>3. s \ {Pick(s)} \in SUBSET S /\ Cardinality(s) \in Nat /\ Cardinality(s) <= n
        BY <1>0
      <4> QED BY <4>1, <4>2, <4>3
    <3>3. g \in [Level(n) -> Int]
      <4>1. ASSUME NEW s \in Level(n), s # {}
            PROVE  f[Pick(s)] + h[s \ {Pick(s)}] \in Int
        <5>1. f[Pick(s)] \in Int /\ h[s \ {Pick(s)}] \in Int
          BY <3>1, <3>2, <4>1 DEF IntOn
        <5> QED BY <5>1
      <4> HIDE DEF Level
      <4> QED BY <4>1
    <3>4. \A s \in Level(n - 1) : s \in Level(n)
      BY <1>0
    <3> HIDE DEF Level
    <3>5. \A s \in Level(n - 1) : g[s] = h[s]
      BY <3>1, <3>4 DEF Recurs
    <3>6. Recurs(g, f, Level(n))
      BY <3>2, <3>5 DEF Recurs
    <3> QED BY <3>3, <3>6
  <2> QED BY <2>1, <2>2
<1> HIDE DEF Solved
<1>2. Bad = {}
  <2> SUFFICES ASSUME Bad # {} PROVE FALSE
    OBVIOUS
  <2>1. PICK n \in Bad : \A k \in Bad : n <= k
    BY LeastExists
  <2>2. n \in Nat /\ ~ Solved(n) /\ \A k \in Nat : k < n => Solved(k)
    BY <2>1
  <2> QED BY <1>1, <2>2
<1>3. Cardinality(S) \in Nat
    BY <1>0
<1>4. Solved(Cardinality(S))
    BY <1>2, <1>3
<1>5. Level(Cardinality(S)) = SUBSET S
    BY FS_Subset
<1> HIDE DEF Level
<1> QED BY <1>4, <1>5 DEF Solved

(* Hence the function that CHOOSE names satisfies it. *)
LEMMA PartialRecurs ==
    ASSUME NEW S, IsFiniteSet(S), NEW f, IntOn(f, S)
    PROVE  Recurs(Partial(f, S), f, SUBSET S)
<1> DEFINE F(iter) == [s \in SUBSET S |-> IF s = {} THEN 0 ELSE f[Pick(s)] + iter[s \ {Pick(s)}]]
<1>1. PICK g \in [SUBSET S -> Int] : Recurs(g, f, SUBSET S)
    BY SolutionExists
<1>2. g = F(g)
    BY <1>1 DEF Recurs
<1>3. Partial(f, S) = F(Partial(f, S))
    BY <1>2 DEF Partial
<1> QED BY <1>3 DEF Recurs

(* Two solutions for functions that agree on U agree on the subsets of U. *)
LEMMA SolutionsAgree ==
    ASSUME NEW f, NEW k, NEW S, NEW T, NEW g, NEW h,
           Recurs(g, f, SUBSET S), Recurs(h, k, SUBSET T),
           NEW U, IsFiniteSet(U), U \subseteq S, U \subseteq T,
           IntOn(f, U), \A x \in U : f[x] = k[x]
    PROVE  g[U] = h[U] /\ g[U] \in Int
<1> DEFINE B == {u \in SUBSET U : ~ (g[u] = h[u] /\ g[u] \in Int)}
<1> SUFFICES ASSUME B # {} PROVE FALSE
    OBVIOUS
<1>1. PICK u \in B : \A t \in B : t \subseteq u => t = u
  <2>1. B \subseteq SUBSET U
    OBVIOUS
  <2> HIDE DEF B
  <2> QED BY <2>1, SmallestSubset
<1>2. u \in SUBSET S /\ u \in SUBSET T
    OBVIOUS
<1>3. u # {}
  <2> SUFFICES ASSUME u = {} PROVE FALSE
    OBVIOUS
  <2>1. g[u] = 0 /\ h[u] = 0
    BY <1>2 DEF Recurs
  <2> QED BY <2>1
<1> DEFINE x == Pick(u)
           v == u \ {x}
<1>4. x \in u
    BY <1>3, PickIn
<1>5. g[u] = f[x] + g[v] /\ h[u] = k[x] + h[v]
    BY <1>2, <1>3 DEF Recurs
<1> HIDE DEF x
<1>6. v \notin B
    BY <1>1, <1>4
<1>7. g[v] = h[v] /\ g[v] \in Int
    BY <1>6
<1>8. f[x] = k[x] /\ f[x] \in Int
    BY <1>4 DEF IntOn
<1>9. g[u] = h[u] /\ g[u] \in Int
    BY <1>5, <1>7, <1>8
<1> QED BY <1>9

(* The sum over the empty set. *)
LEMMA SumEmpty ==
    ASSUME NEW f
    PROVE  SumFunctionOnSet(f, {}) = 0
<1>1. IntOn(f, {}) /\ IsFiniteSet({})
    BY FS_EmptySet DEF IntOn
<1>2. Recurs(Partial(f, {}), f, SUBSET {})
    BY <1>1, PartialRecurs
<1> QED BY <1>2, SumIsPartial DEF Recurs

(* Sums are numbers, and equal when the terms are. *)
LEMMA SumSame ==
    ASSUME NEW S, IsFiniteSet(S), NEW f, IntOn(f, S), NEW k, \A x \in S : f[x] = k[x]
    PROVE  SumFunctionOnSet(f, S) = SumFunctionOnSet(k, S) /\ SumFunctionOnSet(f, S) \in Int
<1>1. IntOn(k, S)
    BY DEF IntOn
<1>2. Recurs(Partial(f, S), f, SUBSET S) /\ Recurs(Partial(k, S), k, SUBSET S)
    BY <1>1, PartialRecurs
<1> QED BY <1>2, SolutionsAgree, SumIsPartial

(* The sum in the order of CHOOSE ... *)
LEMMA SumPick ==
    ASSUME NEW S, IsFiniteSet(S), S # {}, NEW f, IntOn(f, S)
    PROVE  SumFunctionOnSet(f, S) = f[Pick(S)] + SumFunctionOnSet(f, S \ {Pick(S)})
<1> DEFINE R == S \ {Pick(S)}
<1>1. IsFiniteSet(R) /\ R \subseteq S /\ IntOn(f, R)
    BY FS_RemoveElement DEF IntOn
<1>2. Recurs(Partial(f, S), f, SUBSET S) /\ Recurs(Partial(f, R), f, SUBSET R)
    BY <1>1, PartialRecurs
<1>3. Partial(f, S)[S] = f[Pick(S)] + Partial(f, S)[R]
    BY <1>2 DEF Recurs
<1> HIDE DEF R
<1>4. Partial(f, S)[R] = Partial(f, R)[R]
  <2> DEFINE g == Partial(f, S)
             h == Partial(f, R)
  <2>1. Recurs(g, f, SUBSET S) /\ Recurs(h, f, SUBSET R)
    BY <1>2
  <2>2. R \subseteq S /\ R \subseteq R /\ IsFiniteSet(R) /\ IntOn(f, R) /\ \A x \in R : f[x] = f[x]
    BY <1>1
  <2> HIDE DEF g, h
  <2>3. g[R] = h[R]
    BY <2>1, <2>2, SolutionsAgree, SMTT(30)
  <2> QED BY <2>3 DEF g, h
<1>5. SumFunctionOnSet(f, S) = f[Pick(S)] + SumFunctionOnSet(f, R)
    BY <1>3, <1>4, SumIsPartial
<1> QED BY <1>5 DEF R

(* ... and in any other. *)
LEMMA SumRemove ==
    ASSUME NEW S, IsFiniteSet(S), NEW f, IntOn(f, S), NEW x \in S
    PROVE  SumFunctionOnSet(f, S) = f[x] + SumFunctionOnSet(f, S \ {x})
<1> DEFINE Sum(s) == SumFunctionOnSet(f, s)
           B == {s \in SUBSET S : \E y \in s : Sum(s) # f[y] + Sum(s \ {y})}
<1>0. \A s \in SUBSET S : IsFiniteSet(s) /\ IntOn(f, s) /\ Sum(s) \in Int
    BY FS_Subset, SumSame DEF IntOn
<1>1. \A s \in SUBSET S : s # {} => Pick(s) \in s /\ Sum(s) = f[Pick(s)] + Sum(s \ {Pick(s)})
    BY <1>0, SumPick, PickIn
<1> HIDE DEF Sum
<1>2. B = {}
  <2> SUFFICES ASSUME B # {} PROVE FALSE
    OBVIOUS
  <2>1. PICK s \in B : \A t \in B : t \subseteq s => t = s
    <3>1. B \subseteq SUBSET S
      OBVIOUS
    <3> HIDE DEF B
    <3> QED BY <3>1, SmallestSubset
  <2>2. PICK y \in s : Sum(s) # f[y] + Sum(s \ {y})
    BY <2>1
  <2> DEFINE z == Pick(s)
             u == s \ {y}
             v == s \ {z}
             w == s \ {y, z}
  <2>3. z \in s /\ Sum(s) = f[z] + Sum(v)
    BY <1>1, <2>2
  <2> HIDE DEF z
  <2>4. y # z
    BY <2>2, <2>3
  <2>5. v \notin B /\ u \notin B
    BY <2>1, <2>2, <2>3
  <2>6. Sum(v) = f[y] + Sum(v \ {y}) /\ Sum(u) = f[z] + Sum(u \ {z})
    BY <2>2, <2>3, <2>4, <2>5
  <2>7. v \ {y} = w /\ u \ {z} = w
    OBVIOUS
  <2>8. Sum(w) \in Int /\ f[y] \in Int /\ f[z] \in Int
    BY <1>0, <2>2, <2>3 DEF IntOn
  <2>9. Sum(s) = f[y] + Sum(u)
    BY <2>3, <2>6, <2>7, <2>8
  <2> QED BY <2>2, <2>9
<1>3. S \notin B
    BY <1>2
<1> QED BY <1>3 DEF Sum

(* A change of one term changes the sum by as much. *)
LEMMA SumUpdate ==
    ASSUME NEW S, IsFiniteSet(S), NEW f, IntOn(f, S), NEW k, IntOn(k, S),
           NEW x \in S, \A y \in S : y # x => k[y] = f[y]
    PROVE  SumFunctionOnSet(k, S) = SumFunctionOnSet(f, S) + (k[x] - f[x])
<1> DEFINE R == S \ {x}
<1>1. IsFiniteSet(R) /\ IntOn(f, R) /\ IntOn(k, R) /\ \A y \in R : f[y] = k[y]
    BY FS_RemoveElement DEF IntOn
<1>2. /\ SumFunctionOnSet(f, S) = f[x] + SumFunctionOnSet(f, R)
      /\ SumFunctionOnSet(k, S) = k[x] + SumFunctionOnSet(k, R)
    BY SumRemove
<1>3. SumFunctionOnSet(f, R) = SumFunctionOnSet(k, R) /\ SumFunctionOnSet(f, R) \in Int
    BY <1>1, SumSame
<1>4. f[x] \in Int /\ k[x] \in Int
    BY DEF IntOn
<1> QED BY <1>2, <1>3, <1>4

(* No term of a sum of naturals exceeds it. *)
LEMMA SumAtLeast ==
    ASSUME NEW S, IsFiniteSet(S), NEW f, \A x \in S : f[x] \in Nat
    PROVE  /\ SumFunctionOnSet(f, S) \in Nat
           /\ \A x \in S : f[x] <= SumFunctionOnSet(f, S)
<1> DEFINE Sum(s) == SumFunctionOnSet(f, s)
           B == {s \in SUBSET S : Sum(s) \notin Nat}
<1>0. IntOn(f, S) /\ \A s \in SUBSET S : IsFiniteSet(s) /\ IntOn(f, s)
    BY FS_Subset DEF IntOn
<1>1. \A s \in SUBSET S : \A x \in s : Sum(s) = f[x] + Sum(s \ {x})
    BY <1>0, SumRemove
<1>2. Sum({}) = 0
    BY SumEmpty
<1> HIDE DEF Sum
<1>3. B = {}
  <2> SUFFICES ASSUME B # {} PROVE FALSE
    OBVIOUS
  <2>1. PICK s \in B : \A t \in B : t \subseteq s => t = s
    <3>1. B \subseteq SUBSET S
      OBVIOUS
    <3> HIDE DEF B
    <3> QED BY <3>1, SmallestSubset
  <2>2. PICK x : x \in s
    BY <1>2
  <2>3. s \ {x} \notin B
    BY <2>1, <2>2
  <2>4. Sum(s \ {x}) \in Nat /\ f[x] \in Nat /\ Sum(s) = f[x] + Sum(s \ {x})
    BY <1>1, <2>2, <2>3
  <2> QED BY <2>4
<1>4. \A s \in SUBSET S : Sum(s) \in Nat
    BY <1>3
<1>5. ASSUME NEW x \in S PROVE f[x] <= Sum(S)
  <2>1. Sum(S) = f[x] + Sum(S \ {x}) /\ Sum(S \ {x}) \in Nat /\ f[x] \in Nat
    BY <1>1, <1>4
  <2> QED BY <2>1
<1>6. Sum(S) \in Nat
    BY <1>4
<1> QED BY <1>5, <1>6 DEF Sum

(* A sum of nothings. *)
LEMMA SumZero ==
    ASSUME NEW S, IsFiniteSet(S), NEW f, \A x \in S : f[x] = 0
    PROVE  SumFunctionOnSet(f, S) = 0
<1> DEFINE Sum(s) == SumFunctionOnSet(f, s)
           B == {s \in SUBSET S : Sum(s) # 0}
<1>0. \A s \in SUBSET S : IsFiniteSet(s) /\ IntOn(f, s)
    BY FS_Subset DEF IntOn
<1>1. \A s \in SUBSET S : \A x \in s : Sum(s) = f[x] + Sum(s \ {x})
    BY <1>0, SumRemove
<1>2. Sum({}) = 0
    BY SumEmpty
<1> HIDE DEF Sum
<1>3. B = {}
  <2> SUFFICES ASSUME B # {} PROVE FALSE
    OBVIOUS
  <2>1. PICK s \in B : \A t \in B : t \subseteq s => t = s
    <3>1. B \subseteq SUBSET S
      OBVIOUS
    <3> HIDE DEF B
    <3> QED BY <3>1, SmallestSubset
  <2>2. PICK x : x \in s
    BY <1>2
  <2>3. s \ {x} \notin B
    BY <2>1, <2>2
  <2>4. Sum(s \ {x}) = 0 /\ f[x] = 0 /\ Sum(s) = f[x] + Sum(s \ {x})
    BY <1>1, <2>2, <2>3
  <2> QED BY <2>4
<1> QED BY <1>3 DEF Sum

-----------------------------------------------------------------------------
(* A loop of N rounds as a recursive function: D[n] is what holds after round n. *)

LEMMA RoundsKeep ==
    ASSUME NEW N \in Nat, NEW D, NEW f, f[0] \in D[0],
           \A n \in 1..N : f[n - 1] \in D[n - 1] => f[n] \in D[n]
    PROVE  \A n \in 0..N : f[n] \in D[n]
<1> DEFINE T == {n \in 0..N : f[n] \notin D[n]}
<1> SUFFICES ASSUME T # {} PROVE FALSE
    OBVIOUS
<1>1. T \subseteq Nat
    OBVIOUS
<1>2. PICK n \in T : \A y \in T : n <= y
    BY <1>1, LeastExists
<1>3. n \in 0..N /\ f[n] \notin D[n]
    OBVIOUS
<1>4. n # 0
    BY <1>3
<1>5. n \in 1..N /\ n - 1 \in 0..N /\ n - 1 < n /\ n - 1 \in Nat
    BY <1>3, <1>4
<1>6. n - 1 \notin T
    BY <1>1, <1>2, <1>5
<1>7. f[n - 1] \in D[n - 1]
    BY <1>5, <1>6
<1> QED BY <1>3, <1>5, <1>7

\* f starts at x and takes step g[n] in round n.
Rounds(f, N, D, x, g) ==
    /\ f = [n \in 0..N |-> f[n]]
    /\ f[0] = x /\ \A n \in 1..N : f[n] = g[n][f[n - 1]]
    /\ \A n \in 0..N : f[n] \in D[n]

LEMMA RoundsExist ==
    ASSUME NEW N \in Nat, NEW D, NEW x, x \in D[0], NEW g,
           \A n \in 1..N : \A d \in D[n - 1] : g[n][d] \in D[n]
    PROVE  \E f : Rounds(f, N, D, x, g)
<1> DEFINE Works(f, m) == /\ f = [n \in 0..m |-> IF n = 0 THEN x ELSE g[n][f[n - 1]]]
                          /\ \A n \in 0..m : f[n] \in D[n]
           T == {m \in 0..N : ~ \E f : Works(f, m)}
<1> SUFFICES T = {}
  <2>1. N \in 0..N
    OBVIOUS
  <2>2. PICK f : Works(f, N)
    BY <2>1
  <2>3. \A n \in 0..N : f[n] = (IF n = 0 THEN x ELSE g[n][f[n - 1]]) /\ f[n] \in D[n]
    BY <2>2
  <2>4. 0 \in 0..N /\ \A n \in 1..N : n \in 0..N /\ n # 0
    OBVIOUS
  <2>5. f = [n \in 0..N |-> f[n]]
    BY <2>2
  <2> QED BY <2>3, <2>4, <2>5 DEF Rounds
<1> SUFFICES ASSUME T # {} PROVE FALSE
    OBVIOUS
<1>1. T \subseteq Nat
    OBVIOUS
<1> HIDE DEF Works
<1>2. PICK m \in T : \A y \in T : m <= y
    BY <1>1, LeastExists
<1>3. m \in 0..N /\ ~ \E f : Works(f, m)
    OBVIOUS
<1>4. m # 0
  <2> SUFFICES ASSUME m = 0 PROVE FALSE
    OBVIOUS
  <2> DEFINE f == [n \in 0..0 |-> x]
  <2>1. \A n \in 0..0 : n = 0
    OBVIOUS
  <2>2. [n \in 0..0 |-> IF n = 0 THEN x ELSE g[n][f[n - 1]]] = f
    BY <2>1
  <2>3. \A n \in 0..0 : f[n] \in D[n]
    BY <2>1
  <2>4. Works(f, 0)
    BY <2>2, <2>3 DEF Works
  <2> QED BY <1>3, <2>4
<1>5. m \in 1..N /\ m - 1 \in 0..N /\ m - 1 < m /\ m - 1 \in Nat /\ m \in Nat
    BY <1>3, <1>4
<1>6. m - 1 \notin T
    BY <1>1, <1>2, <1>5
<1>7. PICK h : Works(h, m - 1)
    BY <1>5, <1>6
<1> DEFINE f == [n \in 0..m |-> IF n = m THEN g[m][h[m - 1]] ELSE h[n]]
<1>8. \A n \in 0..m : n = m \/ (n \in 0..(m - 1) /\ n # m)
    BY <1>5
<1>9. ASSUME NEW n \in 0..m PROVE f[n] = (IF n = 0 THEN x ELSE g[n][f[n - 1]]) /\ f[n] \in D[n]
  <2>1. CASE n = m
    <3>1. m - 1 \in 0..m /\ m - 1 # m /\ m - 1 \in 0..(m - 1)
      BY <1>5
    <3>2. f[m] = g[m][h[m - 1]] /\ f[m - 1] = h[m - 1]
      BY <1>5, <3>1
    <3>3. h[m - 1] \in D[m - 1]
      BY <1>7, <3>1 DEF Works
    <3>4. g[m][h[m - 1]] \in D[m]
      BY <1>5, <3>3
    <3> QED BY <1>4, <2>1, <3>2, <3>4
  <2>2. CASE n # m
    <3>1. n \in 0..(m - 1)
      BY <1>8, <2>2
    <3>2. f[n] = h[n]
      BY <2>2
    <3>3. h[n] = (IF n = 0 THEN x ELSE g[n][h[n - 1]]) /\ h[n] \in D[n]
      BY <1>7, <3>1 DEF Works
    <3>4. n # 0 => n - 1 \in 0..m /\ n - 1 # m
      BY <1>5, <3>1
    <3>5. n # 0 => f[n - 1] = h[n - 1]
      BY <3>4
    <3> QED BY <3>2, <3>3, <3>5
  <2> QED BY <2>1, <2>2
<1>10. f = [n \in 0..m |-> f[n]]
    OBVIOUS
<1> HIDE DEF f
<1>11. f = [n \in 0..m |-> IF n = 0 THEN x ELSE g[n][f[n - 1]]]
    BY <1>9, <1>10
<1>12. Works(f, m)
    BY <1>9, <1>11 DEF Works
<1> QED BY <1>3, <1>12

LEMMA Halved ==
    ASSUME NEW l \in Int, NEW h \in Int, NEW m \in Int, NEW r \in Int,
           m - l <= h - m, h - m <= m - l + 1, h + 1 - l <= 2 * r + 1
    PROVE  h - m <= r /\ m - l <= r
OBVIOUS
=============================================================================
