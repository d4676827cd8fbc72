------------------------- MODULE TransferPlanProofs -------------------------
(***************************************************************************)
(* For any number of layers, elements, engines and ranks, and any layouts  *)
(* that divide evenly: the halves of the transfer plan agree, every        *)
(* element of an inference tensor is received, from one operation, and is  *)
(* the element of the model that belongs there.                            *)
(*                                                                         *)
(* The metadata comes first: names and offsets derived from the ranks are  *)
(* those the engines gave the tensors, and the shards of a replica tile    *)
(* the parameter.  The operations of the plan follow from that.            *)
(***************************************************************************)
EXTENDS TransferPlan, Integers, FunctionTheorems, FiniteSetTheorems, TLAPS

-----------------------------------------------------------------------------
(* Numbers and counting.                                                   *)

\* Quotient and remainder.
LEMMA Euclid ==
  ASSUME NEW w \in Nat, NEW d \in Nat \ {0}
  PROVE  \E q \in Nat, r \in 0 .. d - 1 : q = w \div d /\ r = w % d /\ w = q * d + r
<1>1. ASSUME NEW q \in Nat, NEW r \in Nat, q = w \div d, r = w % d PROVE w = q * d + r
  BY <1>1
<1>2. w \div d \in Nat /\ w % d \in 0 .. d - 1
  OBVIOUS
<1>3. PICK q \in Nat, r \in 0 .. d - 1 : q = w \div d /\ r = w % d
  BY <1>2
<1>4. w = q * d + r
  BY <1>1, <1>3
<1> QED
  BY <1>3, <1>4

\* A number of a block determines both.
LEMMA EuclidUnique ==
  ASSUME NEW d \in Nat \ {0}, NEW b \in Nat, NEW a \in 0 .. d - 1
  PROVE  (b * d + a) \div d = b /\ (b * d + a) % d = a
<1> DEFINE w == b * d + a
<1>1. b * d \in Nat /\ w \in Nat /\ b * d <= w /\ w < b * d + d /\ w = b * d + a
  OBVIOUS
<1> HIDE DEF w
<1>2. PICK q \in Nat, r \in 0 .. d - 1 : q = w \div d /\ r = w % d /\ w = q * d + r
  BY <1>1, Euclid
<1>3. w \div d = b
  BY <1>1
<1>4. w % d = a
  BY <1>1, <1>2, <1>3
<1> QED
  BY <1>3, <1>4 DEF w

\* What is less in products is less in factors.
LEMMA MultipleLess ==
  ASSUME NEW a \in Nat, NEW b \in Nat, NEW d \in Nat \ {0}, a < b
  PROVE  a * d + d <= b * d /\ a * d \in Nat /\ b * d \in Nat
<1>1. (a + 1) * d <= b * d /\ (a + 1) * d = a * d + d
  OBVIOUS
<1> QED
  BY <1>1

\* Quotients order numbers.
LEMMA QuotientOrder ==
  ASSUME NEW x \in Nat, NEW y \in Nat, NEW d \in Nat \ {0}
  PROVE  /\ x \div d < y \div d => x < y
         /\ x \div d = y \div d => (x < y <=> x % d < y % d) /\ (x = y <=> x % d = y % d)
<1>1. PICK a \in Nat, u \in 0 .. d - 1 : a = x \div d /\ u = x % d /\ x = a * d + u
  BY Euclid
<1>2. PICK b \in Nat, v \in 0 .. d - 1 : b = y \div d /\ v = y % d /\ y = b * d + v
  BY Euclid
<1>3. ASSUME a < b PROVE x < y
  <2>1. a * d + d <= b * d /\ a * d \in Nat /\ b * d \in Nat
    BY <1>1, <1>2, <1>3, MultipleLess
  <2> QED
    BY <1>1, <1>2, <2>1
<1>4. ASSUME a = b PROVE (x < y <=> u < v) /\ (x = y <=> u = v)
  <2>1. a * d \in Nat /\ x = a * d + u /\ y = a * d + v
    BY <1>1, <1>2, <1>4
  <2> QED
    BY <1>1, <1>2, <2>1
<1> QED
  BY <1>1, <1>2, <1>3, <1>4

\* Number w is number b of block a, with d numbers to a block.
Splits(w, d, a, b) == d \in Nat \ {0} /\ a \in Nat /\ b \in 0 .. d - 1 /\ w \in Nat /\ w = a * d + b
\* M is m times d.
Multiple(M, m, d) == M \in Nat /\ m \in Nat \ {0} /\ d \in Nat \ {0} /\ M = m * d

\* The parts are quotient and remainder.
LEMMA SplitsUnique ==
  ASSUME NEW w, NEW d, NEW a, NEW b, Splits(w, d, a, b)
  PROVE  w \div d = a /\ w % d = b
<1>1. (a * d + b) \div d = a /\ (a * d + b) % d = b
  BY EuclidUnique DEF Splits
<1> QED
  BY <1>1 DEF Splits

\* Every number is in a block.
LEMMA SplitsExist ==
  ASSUME NEW w \in Nat, NEW d \in Nat \ {0}
  PROVE  Splits(w, d, w \div d, w % d)
<1>1. PICK q \in Nat, r \in 0 .. d - 1 : q = w \div d /\ r = w % d /\ w = q * d + r
  BY Euclid
<1>2. Splits(w, d, q, r)
  BY <1>1 DEF Splits
<1> QED
  BY <1>1, <1>2

\* The remainder and the quotient of a product, by a factor.
LEMMA Nested ==
  ASSUME NEW w, NEW d, NEW a, NEW b, NEW m, NEW M, Splits(w, d, a, b), Multiple(M, m, d)
  PROVE  w \div M = a \div m /\ Splits(w % M, d, a % m, b)
<1>0. /\ d \in Nat \ {0} /\ a \in Nat /\ b \in 0 .. d - 1 /\ w \in Nat /\ w = a * d + b
      /\ M \in Nat \ {0} /\ m \in Nat \ {0} /\ M = m * d
  BY DEF Splits, Multiple
<1>1. PICK q \in Nat, r \in 0 .. m - 1 : q = a \div m /\ r = a % m /\ a = q * m + r
  BY <1>0, Euclid
<1>2. w = q * M + (r * d + b)
  <2>1. PICK k \in Nat : k = q * m /\ a = k + r
    BY <1>0, <1>1
  <2>2. k * d = q * M
    BY <1>0, <2>1
  <2>3. a * d = k * d + r * d
    BY <1>0, <2>1
  <2>4. k * d \in Nat /\ r * d \in Nat
    BY <1>0, <2>1
  <2> QED
    BY <1>0, <2>2, <2>3, <2>4
<1>3. r * d + b \in 0 .. M - 1
  <2>1. r * d + d <= m * d /\ r * d \in Nat
    BY <1>0, <1>1, MultipleLess
  <2> QED
    BY <1>0, <1>1, <2>1
<1>4. Splits(w, M, q, r * d + b)
  BY <1>0, <1>2, <1>3 DEF Splits
<1>5. w \div M = q /\ w % M = r * d + b
  BY <1>4, SplitsUnique
<1>6. Splits(w % M, d, r, b)
  BY <1>0, <1>3, <1>5 DEF Splits
<1> QED
  BY <1>1, <1>5, <1>6

\* A divisor, with the quotient as a factor.
LEMMA Divides ==
  ASSUME NEW w \in Nat \ {0}, NEW d \in Nat \ {0}, w % d = 0
  PROVE  w \div d \in Nat \ {0} /\ w = (w \div d) * d
<1>1. PICK a \in Nat, u \in 0 .. d - 1 : a = w \div d /\ u = w % d /\ w = a * d + u
  BY Euclid
<1>2. w = a * d /\ a # 0
  BY <1>1
<1> QED
  BY <1>1, <1>2

\* Two sets are counted alike when one is mapped to the other, one to one.
LEMMA SameCount ==
  ASSUME NEW S, NEW T, IsFiniteSet(T), NEW f \in [S -> T],
         \A a, b \in S : f[a] = f[b] => a = b,
         \A t \in T : \E s \in S : f[s] = t
  PROVE  IsFiniteSet(S) /\ Cardinality(S) = Cardinality(T)
<1>1. f \in Injection(S, T) /\ f \in Surjection(S, T)
  BY Fun_IsInj, Fun_IsSurj
<1> QED
  BY <1>1, FS_Injection

\* The number of the smaller elements numbers the elements of a set.
Numbering(S, key) == [a \in S |-> Cardinality({c \in S : key[c] < key[a]})]

\* A set of N elements with distinct keys is numbered from 0 to N - 1.
LEMMA Ranking ==
  ASSUME NEW S, IsFiniteSet(S), NEW key \in Injection(S, Nat)
  PROVE  /\ Cardinality(S) \in Nat
         /\ Numbering(S, key) \in [S -> 0 .. Cardinality(S) - 1]
         /\ \A a, b \in S : Numbering(S, key)[a] = Numbering(S, key)[b] => a = b
         /\ \A k \in 0 .. Cardinality(S) - 1 : \E a \in S : Numbering(S, key)[a] = k
<1> DEFINE below(a) == {c \in S : key[c] < key[a]}
           rank == Numbering(S, key)
           Top == 0 .. Cardinality(S) - 1
<1> key \in [S -> Nat] /\ \A a, b \in S : key[a] = key[b] => a = b
  BY Fun_InjectionProperties
<1>0. Cardinality(S) \in Nat
  BY FS_CardinalityType
<1>1. ASSUME NEW a \in S
      PROVE  IsFiniteSet(below(a)) /\ Cardinality(below(a)) \in Nat
  BY FS_Subset, FS_CardinalityType
<1>2. ASSUME NEW a \in S PROVE Cardinality(below(a)) \in Top
  <2>1. a \notin below(a) /\ below(a) \subseteq S \ {a}
    OBVIOUS
  <2>2. IsFiniteSet(S \ {a}) /\ Cardinality(S \ {a}) = Cardinality(S) - 1
    BY FS_RemoveElement
  <2>3. Cardinality(below(a)) <= Cardinality(S \ {a})
    BY <2>1, <2>2, FS_Subset
  <2> HIDE DEF below
  <2> QED
    BY <1>0, <1>1, <2>2, <2>3
<1>3. ASSUME NEW a \in S, NEW b \in S, key[a] < key[b]
      PROVE  Cardinality(below(a)) < Cardinality(below(b))
  <2>1. below(a) \cup {a} \subseteq below(b) /\ a \notin below(a)
    BY <1>3
  <2>2. Cardinality(below(a) \cup {a}) = Cardinality(below(a)) + 1
    BY <1>1, <2>1, FS_AddElement
  <2>3. Cardinality(below(a) \cup {a}) <= Cardinality(below(b))
    BY <1>1, <2>1, FS_Subset
  <2> HIDE DEF below
  <2> QED
    BY <1>1, <2>2, <2>3
<1>9. rank = [a \in S |-> Cardinality(below(a))]
  BY DEF Numbering
<1> HIDE DEF below, rank
<1>4. rank \in [S -> Top]
  BY <1>2, <1>9
<1>5. ASSUME NEW a \in S, NEW b \in S, rank[a] = rank[b] PROVE a = b
  <2>1. Cardinality(below(a)) = Cardinality(below(b))
    BY <1>5, <1>9
  <2>2. ~ (key[a] < key[b]) /\ ~ (key[b] < key[a])
    BY <1>1, <1>3, <2>1
  <2>3. key[a] \in Nat /\ key[b] \in Nat
    OBVIOUS
  <2>4. key[a] = key[b]
    BY <2>2, <2>3
  <2> QED
    BY <2>4
<1>6. IsFiniteSet(Top) /\ Cardinality(Top) = Cardinality(S)
  <2>1. PICK n \in Nat : n = Cardinality(S)
    BY <1>0
  <2>2. IsFiniteSet(0 .. n - 1) /\ Cardinality(0 .. n - 1) = IF 0 > n - 1 THEN 0 ELSE n - 1 - 0 + 1
    BY FS_Interval
  <2> QED
    BY <2>1, <2>2
<1>7. rank \in Surjection(S, Top)
  <2>1. rank \in Injection(S, Top)
    BY <1>4, <1>5, Fun_IsInj
  <2> QED
    BY <1>6, <2>1, FS_Injection
<1>8. \A k \in Top : \E a \in S : rank[a] = k
  BY <1>7, Fun_SurjectionProperties
<1> QED
  BY <1>0, <1>4, <1>5, <1>8 DEF rank

-----------------------------------------------------------------------------
(* Ranks and slices.                                                       *)

\* The sizes of a layout.
LEMMA Positive ==
  ASSUME NEW l, Regular(l)
  PROVE  /\ l.tp \in Nat \ {0} /\ l.attnTp \in Nat \ {0} /\ l.ep \in Nat \ {0}
         /\ l.epTp \in Nat \ {0} /\ l.dp \in Nat \ {0} /\ l.pp \in Nat \ {0}
         /\ l.vp \in Nat \ {0} /\ l.cores \in Nat \ {0}
  BY DEF Regular

\* A core has the data parallel ranks of one share, of every stage.
LEMMA Sizes ==
  ASSUME NEW l, Regular(l)
  PROVE  \E g \in Nat \ {0} :
           /\ g = l.dp \div l.cores /\ l.dp = g * l.cores
           /\ CoreSize(l) = l.pp * (l.tp * g)
           /\ CoreSize(l) \in Nat \ {0} /\ WorldSize(l) \in Nat \ {0}
           /\ WorldSize(l) = CoreSize(l) * l.cores
<1>1. PICK g \in Nat \ {0} : g = l.dp \div l.cores /\ l.dp = g * l.cores
  BY Divides, Positive DEF Regular
<1> DEFINE t == l.tp * g
           s == l.pp * t
<1>2. t \in Nat \ {0}
  BY <1>1, Positive
<1>3. l.tp * l.dp = t * l.cores
  BY <1>1, Positive
<1> HIDE DEF t
<1>4. s \in Nat \ {0} /\ (t * l.cores) * l.pp = s * l.cores
  BY <1>2, Positive
<1> HIDE DEF s
<1>5. WorldSize(l) = s * l.cores
  BY <1>3, <1>4 DEF WorldSize
<1>6. s * l.cores \in Nat \ {0}
  BY <1>4, Positive
<1>7. CoreSize(l) = s
  <2>1. 0 \in 0 .. l.cores - 1 /\ s * l.cores = s * l.cores + 0
    BY <1>6, Positive
  <2>2. (s * l.cores + 0) \div l.cores = s
    BY <1>4, <2>1, Positive, EuclidUnique
  <2> QED
    BY <1>5, <2>1, <2>2 DEF CoreSize
<1> QED
  BY <1>1, <1>4, <1>5, <1>6, <1>7 DEF s, t

\* The slices of a parameter are dealt out to the tensor parallel ranks.
LEMMA SlicesDivide ==
  ASSUME NEW l, Regular(l), NEW p \in Param
  PROVE  Slices(l, p) \in Nat \ {0} /\ \E u \in Nat \ {0} : l.tp = u * Slices(l, p)
<1>1. PICK tp \in Nat \ {0} : tp = l.tp
  BY Positive
<1>2. \E u \in Nat \ {0} : tp = u * tp
  <2>1. 1 \in Nat \ {0} /\ tp = 1 * tp
    OBVIOUS
  <2> QED
    BY <2>1
<1>3. \E u \in Nat \ {0} : tp = u * 1
  <2>1. tp = tp * 1
    OBVIOUS
  <2> QED
    BY <2>1
<1>4. \E u \in Nat \ {0} : tp = u * l.attnTp
  BY <1>1, Divides, Positive DEF Regular
<1>5. l.ep > 1 => \E u \in Nat \ {0} : tp = u * l.epTp
  BY <1>1, Divides, Positive DEF Regular
<1>6. Slices(l, p) \in {1, l.attnTp, l.tp} \/ (l.ep > 1 /\ Slices(l, p) = l.epTp)
  BY DEF Slices
<1> QED
  BY <1>1, <1>2, <1>3, <1>4, <1>5, <1>6, Positive

\* Two ranks of a block of slices are in the same stage and have the same experts,
\* and their numbers among the tensor parallel ranks differ as their slices do.
LEMMA PlaceOfBlock ==
  ASSUME NEW l, Regular(l), NEW d, NEW u, Multiple(l.tp, u, d),
         NEW x, NEW y, NEW a, NEW b, NEW c, Splits(x, d, a, b), Splits(y, d, a, c)
  PROVE  /\ PpRank(l, x) = PpRank(l, y)
         /\ EpIndex(l, x) \in Nat /\ EpIndex(l, y) \in Nat
         /\ EpIndex(l, x) \div d = EpIndex(l, y) \div d
         /\ \E t : Splits(TpRank(l, x), d, t, b) /\ Splits(TpRank(l, y), d, t, c)
<1>0. /\ d \in Nat \ {0} /\ a \in Nat /\ b \in 0 .. d - 1 /\ c \in 0 .. d - 1
      /\ x \in Nat /\ y \in Nat /\ u \in Nat \ {0}
  BY DEF Splits, Multiple
<1>1. PICK g \in Nat \ {0} : g = l.dp \div l.cores /\ CoreSize(l) = l.pp * (l.tp * g)
  BY Sizes
<1>2. PICK tp \in Nat \ {0}, pp \in Nat \ {0} : tp = l.tp /\ pp = l.pp /\ tp = u * d
  BY Positive DEF Multiple
<1>3. PICK n \in Nat \ {0} : n = u * g /\ Multiple(tp * g, n, d)
  <2>1. u * g \in Nat \ {0} /\ (u * d) * g = (u * g) * d /\ tp * g \in Nat
    BY <1>0
  <2> QED
    BY <1>0, <1>2, <2>1 DEF Multiple
<1>4. PICK m \in Nat \ {0} : Multiple(pp * (tp * g), m, d)
  <2>1. PICK T \in Nat : T = tp * g /\ T = n * d
    BY <1>3 DEF Multiple
  <2>2. pp * n \in Nat \ {0} /\ pp * (n * d) = (pp * n) * d /\ pp * T \in Nat
    BY <1>0, <2>1
  <2> QED
    BY <1>0, <2>1, <2>2 DEF Multiple
<1>5. PICK C \in Nat : C = CoreSize(l) /\ Multiple(C, m, d)
  BY <1>1, <1>2, <1>4 DEF Multiple
<1>6. /\ x \div C = a \div m /\ Splits(x % C, d, a % m, b)
      /\ y \div C = a \div m /\ Splits(y % C, d, a % m, c)
  BY <1>5, Nested
<1>7. PICK q \in Nat : q = a \div m
  BY <1>0, Euclid
<1>8. PpRank(l, x) = PpRank(l, y)
  <2>1. PICK v, w, k : v = x % C /\ w = y % C /\ Splits(v, d, k, b) /\ Splits(w, d, k, c)
    BY <1>6
  <2>2. PICK T \in Nat : T = tp * g /\ Multiple(T, n, d)
    BY <1>3 DEF Multiple
  <2>3. v \div T = k \div n /\ Splits(v % T, d, k % n, b)
    BY <2>1, <2>2, Nested
  <2>4. w \div T = k \div n /\ Splits(w % T, d, k % n, c)
    BY <2>1, <2>2, Nested
  <2>5. l.tp * (l.dp \div l.cores) = T
    BY <1>1, <1>2, <2>2
  <2>6. PpRank(l, x) = v \div T /\ PpRank(l, y) = w \div T
    BY <1>5, <2>1, <2>5, Zenon DEF PpRank
  <2> QED
    BY <2>3, <2>4, <2>6
<1>9. PICK t : Splits(x % tp, d, t, b) /\ Splits(y % tp, d, t, c)
  BY <1>2, Nested
<1>10. t \in Nat /\ t * d \in Nat /\ x % tp = t * d + b /\ y % tp = t * d + c
  BY <1>9 DEF Splits
<1>11. \E k : Splits(TpRank(l, x), d, k, b) /\ Splits(TpRank(l, y), d, k, c)
  BY <1>2, <1>9 DEF TpRank
<1>12. EpIndex(l, x) \in Nat /\ EpIndex(l, y) \in Nat /\ EpIndex(l, x) \div d = EpIndex(l, y) \div d
  <2>1. CASE l.cores > 1
    <3>1. PICK k \in Nat : k = q * u + t
      BY <1>0, <1>10
    <3>2. q * tp = (q * u) * d /\ k * d = (q * u) * d + t * d /\ (q * u) * d \in Nat
      BY <1>0, <1>2, <1>10, <3>1
    <3>3. PICK v \in Nat, w \in Nat : v = x % tp /\ w = y % tp /\ v = t * d + b /\ w = t * d + c
      BY <1>0, <1>10
    <3>4. Splits(q * tp + v, d, k, b) /\ Splits(q * tp + w, d, k, c)
      <4>1. q * tp + v = k * d + b /\ q * tp + w = k * d + c
        BY <1>0, <1>10, <3>2, <3>3
      <4>2. q * tp + v \in Nat /\ q * tp + w \in Nat
        BY <3>2
      <4> QED
        BY <1>0, <4>1, <4>2 DEF Splits
    <3>5. Splits(EpIndex(l, x), d, k, b) /\ Splits(EpIndex(l, y), d, k, c)
      <4>1. EpIndex(l, x) = q * tp + v /\ EpIndex(l, y) = q * tp + w
        BY <1>2, <1>5, <1>6, <1>7, <2>1, <3>3 DEF EpIndex
      <4> QED
        BY <3>4, <4>1
    <3>6. EpIndex(l, x) \in Nat /\ EpIndex(l, y) \in Nat
      BY <3>5 DEF Splits
    <3> QED
      BY <3>5, <3>6, SplitsUnique
  <2>2. CASE ~ (l.cores > 1)
    <3>1. EpIndex(l, x) = x /\ EpIndex(l, y) = y
      BY <2>2 DEF EpIndex
    <3> QED
      BY <1>0, <3>1, SplitsUnique
  <2> QED
    BY <2>1, <2>2
<1> QED
  BY <1>8, <1>11, <1>12

\* All ranks are collected, however the cores number their workers.
LEMMA Collected ==
  ASSUME NEW l, Regular(l)
  PROVE  CollectedRanks(l) = Ranks(l)
<1>1. PICK C \in Nat \ {0}, k \in Nat \ {0} :
        C = CoreSize(l) /\ k = l.cores /\ WorldSize(l) = C * k
  BY Sizes, Positive
<1>2. Core(l) = 0 .. k - 1 /\ Ranks(l) = 0 .. C * k - 1
  BY <1>1 DEF Core, Ranks
<1>3. ASSUME NEW c \in Core(l), NEW i \in 0 .. C - 1
      PROVE  GlobalRank(l, c, i) = c * C + i
  <2>1. c \in Nat /\ c * C \in Nat /\ (c = 0 \/ C <= c * C)
    BY <1>2
  <2>2. WorkerRank(l, c, i) = i \/ WorkerRank(l, c, i) = c * C + i
    BY <1>1 DEF WorkerRank
  <2>3. CASE WorkerRank(l, c, i) = i
    BY <1>1, <2>3 DEF GlobalRank
  <2>4. CASE WorkerRank(l, c, i) = c * C + i
    <3>1. c * C + i < C => c = 0 /\ c * C = 0
      BY <2>1
    <3> QED
      BY <1>1, <2>1, <2>4, <3>1 DEF GlobalRank
  <2> QED
    BY <2>2, <2>3, <2>4
<1>4. ASSUME NEW c \in Core(l), NEW i \in 0 .. C - 1 PROVE c * C + i \in Ranks(l)
  <2>1. c * C + C <= k * C /\ c * C \in Nat /\ k * C = C * k
    BY <1>2, MultipleLess
  <2> QED
    BY <1>2, <2>1
<1>5. ASSUME NEW r \in Ranks(l) PROVE \E c \in Core(l), i \in 0 .. C - 1 : r = c * C + i
  <2>0. r \in Nat
    BY <1>2
  <2>1. PICK c \in Nat, i \in 0 .. C - 1 : c = r \div C /\ i = r % C /\ r = c * C + i
    BY <2>0, Euclid
  <2>2. c < k
    <3>1. SUFFICES ASSUME k <= c PROVE FALSE
      BY <2>1
    <3>2. k * C <= c * C
      BY <2>1, <3>1
    <3> QED
      BY <1>2, <2>1, <3>2
  <2>3. c \in Core(l)
    BY <1>2, <2>2
  <2> WITNESS c \in Core(l), i \in 0 .. C - 1
  <2> QED
    BY <2>1
<1>6. CollectedRanks(l) = {GlobalRank(l, c, i) : c \in Core(l), i \in 0 .. C - 1}
  BY <1>1 DEF CollectedRanks
<1> QED
  BY <1>3, <1>4, <1>5, <1>6

\* Whoever is in the block of a rank that has a parameter has it too.
LEMMA HoldersAligned ==
  ASSUME NEW l, Regular(l), NEW p \in Param, NEW r \in Holders(l, p), NEW q, NEW a, NEW b, NEW c,
         Splits(r, Slices(l, p), a, b), Splits(q, Slices(l, p), a, c)
  PROVE  q \in Holders(l, p)
<1> DEFINE d == Slices(l, p)
<1>1. d \in Nat \ {0} /\ q \in Nat /\ a \in Nat /\ b \in 0 .. d - 1 /\ c \in 0 .. d - 1
      /\ r = a * d + b /\ q = a * d + c
  BY DEF Splits
<1>2. PICK u \in Nat \ {0} : Multiple(l.tp, u, d)
  BY SlicesDivide, Positive DEF Multiple
<1>3. r \in Ranks(l) /\ p \in RankParams(l, r)
  BY Collected DEF Holders
<1> HIDE DEF d
<1>4. q \in Ranks(l)
  <2>1. PICK W \in Nat, n \in Nat : W = WorldSize(l) /\ W = n * d
    <3>1. PICK g \in Nat \ {0} : /\ CoreSize(l) = l.pp * (l.tp * g)
                                 /\ WorldSize(l) = CoreSize(l) * l.cores
      BY Sizes
    <3>2. PICK tp \in Nat, pp \in Nat, k \in Nat :
            tp = l.tp /\ pp = l.pp /\ k = l.cores /\ tp = u * d
      BY <1>2, Positive DEF Multiple
    <3>3. (pp * ((u * d) * g)) * k = (((pp * u) * g) * k) * d
      BY <1>1
    <3>4. ((pp * u) * g) * k \in Nat /\ (((pp * u) * g) * k) * d \in Nat
      BY <1>1
    <3> QED
      BY <3>1, <3>2, <3>3, <3>4
  <2>2. a < n
    <3>1. SUFFICES ASSUME n <= a PROVE FALSE
      BY <1>1, <2>1
    <3>2. n * d <= a * d /\ r < n * d
      BY <1>1, <1>3, <2>1, <3>1 DEF Ranks
    <3> QED
      BY <1>1, <2>1, <3>2
  <2>3. a * d + d <= n * d
    BY <1>1, <2>1, <2>2, MultipleLess
  <2> QED
    BY <1>1, <2>1, <2>3 DEF Ranks
<1>5. PpRank(l, q) = PpRank(l, r) /\ EpIndex(l, q) \div d = EpIndex(l, r) \div d
  BY <1>2, PlaceOfBlock DEF d
<1>6. p[2] \in HeldKinds(l, q)
  <2>1. p[2] \in HeldKinds(l, r) /\ p[2] \in Kind
    BY <1>3 DEF RankParams, Param
  <2>2. CASE p[2] \in Expert /\ l.ep > 1
    <3>1. d = l.epTp
      <4>1. p[2] # "norm" /\ p[2] # "attention"
        BY <2>2 DEF Expert
      <4> QED
        BY <2>2, <4>1 DEF d, Slices
    <3>2. EpRank(l, q) = EpRank(l, r)
      BY <1>5, <3>1 DEF EpRank
    <3> QED
      BY <2>1, <3>2 DEF HeldKinds
  <2>3. CASE ~ (p[2] \in Expert /\ l.ep > 1)
    BY <2>1, <2>3 DEF HeldKinds
  <2> QED
    BY <2>2, <2>3
<1>7. p \in RankParams(l, q)
  BY <1>3, <1>5, <1>6 DEF RankParams
<1> QED
  BY <1>4, <1>7, Collected DEF Holders

\* Shards of one key are the same slice: the key of the sharding names the slice.
LEMMA KeyIsSlice ==
  ASSUME NEW l, Regular(l), NEW p \in Param, NEW q \in Holders(l, p), NEW r \in Holders(l, p)
  PROVE  /\ Sharding(l, p) = "NO" \/ RankKey(l, p, q) = RankKey(l, p, r)
              <=> q % Slices(l, p) = r % Slices(l, p)
         /\ RankKey(l, p, r) \in Nat
<1>0. PICK tp \in Nat \ {0}, at \in Nat \ {0}, ep \in Nat \ {0}, et \in Nat \ {0} :
        tp = l.tp /\ at = l.attnTp /\ ep = l.ep /\ et = l.epTp
  BY Positive
<1>1. q \in Nat /\ r \in Nat
  BY Collected, Sizes DEF Holders, Ranks
<1>2. \A x \in Nat : x % 1 = 0
  OBVIOUS
<1>3. \A x \in Nat, y \in Nat \ {0} : x % y \in Nat
  OBVIOUS
<1>4. EpRank(l, r) \in Nat
  <2>1. CASE ep > 1
    <3>1. EpIndex(l, r) \in Nat
      <4>1. PICK d \in Nat \ {0}, u \in Nat \ {0} : Multiple(l.tp, u, d)
        BY SlicesDivide, Positive DEF Multiple
      <4>2. Splits(r, d, r \div d, r % d)
        BY <1>1, SplitsExist
      <4> QED
        BY <4>1, <4>2, PlaceOfBlock
    <3>2. EpIndex(l, r) \div et \in Nat
      BY <3>1, Euclid
    <3> QED
      BY <1>0, <1>3, <2>1, <3>2 DEF EpRank
  <2>2. CASE ~ (ep > 1)
    BY <1>0, <2>2 DEF EpRank
  <2> QED
    BY <2>1, <2>2
<1>5. CASE Sharding(l, p) = "NO"
  <2>1. Slices(l, p) = 1
    <3>1. tp = 1 => at = 1 /\ (ep > 1 => et = 1)
      <4>1. \A x \in Nat \ {0} : 1 % x = 0 => x = 1
        OBVIOUS
      <4> QED
        BY <1>0, <4>1 DEF Regular
    <3>2. at \in Nat /\ (~ (at > 1) => at = 1)
      BY <1>0
    <3> QED
      BY <1>0, <1>5, <3>1, <3>2 DEF Sharding, Slices
  <2>2. RankKey(l, p, r) = EpRank(l, r)
    BY <1>5 DEF RankKey
  <2> QED
    BY <1>1, <1>2, <1>4, <1>5, <2>1, <2>2
<1>6. CASE Sharding(l, p) = "TP"
  <2>1. Slices(l, p) = tp
    BY <1>0, <1>6 DEF Sharding, Slices
  <2>2. RankKey(l, p, r) = r % tp /\ RankKey(l, p, q) = q % tp
    BY <1>0, <1>6 DEF RankKey, TpRank
  <2> QED
    BY <1>1, <1>3, <1>6, <2>1, <2>2
<1>7. CASE Sharding(l, p) = "DP_TP"
  <2>1. Slices(l, p) = at
    BY <1>0, <1>7 DEF Sharding, Slices, Expert
  <2>2. RankKey(l, p, r) = r % at /\ RankKey(l, p, q) = q % at
    BY <1>0, <1>7 DEF RankKey, AttnTpRank
  <2> QED
    BY <1>1, <1>3, <1>7, <2>1, <2>2
<1>8. CASE Sharding(l, p) = "EP_TP"
  <2>1. Slices(l, p) = et /\ ep > 1
    BY <1>0, <1>8 DEF Sharding, Slices, Expert
  <2>2. RankKey(l, p, r) = r % et /\ RankKey(l, p, q) = q % et
    BY <1>0, <1>8, <2>1 DEF RankKey, EpTpRank
  <2> QED
    BY <1>1, <1>3, <1>8, <2>1, <2>2
<1>9. CASE Sharding(l, p) = "EP"
  <2>1. Slices(l, p) = 1 /\ ep > 1 /\ p[2] \in Expert
    BY <1>0, <1>9 DEF Sharding, Slices, Expert
  <2>2. RankKey(l, p, r) = EpRank(l, r) /\ RankKey(l, p, q) = EpRank(l, q)
    BY <1>9 DEF RankKey
  <2>3. EpRank(l, r) = EpRank(l, q)
    BY <1>0, <2>1 DEF Holders, RankParams, HeldKinds
  <2> QED
    BY <1>1, <1>2, <1>4, <2>1, <2>2, <2>3
<1> QED
  BY <1>5, <1>6, <1>7, <1>8, <1>9 DEF Sharding

-----------------------------------------------------------------------------
(* Replicas and offsets: a replica is a block of ranks, as many as slices. *)

\* The blocks of ranks that have a parameter, and how many come before one.
Blocks(l, p) == {r \div Slices(l, p) : r \in Holders(l, p)}
BlockNumber(l, p, a) == Cardinality({c \in Blocks(l, p) : c < a})

\* The shard of a rank.
Shard(l, p, r) ==
  [rank |-> r, replica |-> ReplicaOf(l, p, r), start |-> GlobalOffset(l, p, r), size |-> Shape(l, p)]

\* The metadata has one shard for each rank that holds the parameter.
LEMMA ShardsOf ==
  ASSUME NEW l, NEW p \in Param
  PROVE  /\ ParamsMeta(l)[p] = {Shard(l, p, r) : r \in Holders(l, p)}
         /\ \A r : /\ Shard(l, p, r).rank = r
                  /\ Shard(l, p, r).replica = ReplicaOf(l, p, r)
                  /\ Shard(l, p, r).start = GlobalOffset(l, p, r)
                  /\ Shard(l, p, r).size = Shape(l, p)
  BY DEF ParamsMeta, Shard

\* The ranks that hold a parameter are in finitely many blocks.
LEMMA HolderFacts ==
  ASSUME NEW l, Regular(l), NEW p \in Param
  PROVE  /\ Holders(l, p) \subseteq Nat /\ IsFiniteSet(Holders(l, p))
         /\ Blocks(l, p) \subseteq Nat /\ IsFiniteSet(Blocks(l, p))
         /\ \A r \in Holders(l, p) :
              /\ Splits(r, Slices(l, p), r \div Slices(l, p), r % Slices(l, p))
              /\ r \div Slices(l, p) \in Blocks(l, p)
<1> DEFINE d == Slices(l, p)
           block == [r \in Holders(l, p) |-> r \div d]
<1>1. Holders(l, p) \subseteq 0 .. WorldSize(l) - 1 /\ WorldSize(l) \in Nat
  BY Collected, Sizes DEF Holders, Ranks
<1>2. Holders(l, p) \subseteq Nat /\ IsFiniteSet(Holders(l, p))
  <2>1. 0 \in Int /\ WorldSize(l) - 1 \in Int
    BY <1>1
  <2>2. IsFiniteSet(0 .. WorldSize(l) - 1)
    BY <2>1, FS_Interval
  <2> QED
    BY <1>1, <2>2, FS_Subset
<1>3. d \in Nat \ {0}
  BY SlicesDivide
<1> HIDE DEF d
<1>4. \A r \in Holders(l, p) : Splits(r, d, r \div d, r % d)
  BY <1>2, <1>3, SplitsExist
<1>5. \A r \in Holders(l, p) : r \div d \in Nat /\ r \div d \in Blocks(l, p)
  BY <1>4 DEF Splits, Blocks, d
<1>6. Blocks(l, p) \subseteq Nat
  BY <1>5 DEF Blocks, d
<1>7. block \in Surjection(Holders(l, p), Blocks(l, p))
  <2>1. block \in [Holders(l, p) -> Blocks(l, p)]
    BY <1>5
  <2>2. \A a \in Blocks(l, p) : \E r \in Holders(l, p) : block[r] = a
    BY DEF Blocks, d
  <2> QED
    BY <2>1, <2>2, Fun_IsSurj
<1>8. IsFiniteSet(Blocks(l, p))
  BY <1>2, <1>7, FS_Surjection
<1> QED
  BY <1>2, <1>4, <1>5, <1>6, <1>8 DEF d

\* A shard is in the replica of its block.
LEMMA ReplicaIsBlock ==
  ASSUME NEW l, Regular(l), NEW p \in Param, NEW r \in Holders(l, p)
  PROVE  ReplicaOf(l, p, r) = BlockNumber(l, p, r \div Slices(l, p))
<1> DEFINE d == Slices(l, p)
           a == r \div d
           b == r % d
           Earlier == {q \in Holders(l, p) : q < r /\ q % d = b}
           Below == {c \in Blocks(l, p) : c < a}
           block == [q \in Earlier |-> q \div d]
<1>1. d \in Nat \ {0} /\ a \in Nat /\ b \in 0 .. d - 1 /\ r \in Nat /\ Splits(r, d, a, b)
  BY HolderFacts DEF Splits
<1>2. IsFiniteSet(Below) /\ Below \subseteq Nat
  BY HolderFacts, FS_Subset
<1>3. \A q \in Holders(l, p) : q \in Nat /\ Splits(q, d, q \div d, q % d) /\ q \div d \in Blocks(l, p)
  BY HolderFacts
<1>4. ReplicaOf(l, p, r) = Cardinality(Earlier)
  BY KeyIsSlice DEF ReplicaOf
<1> HIDE DEF d, a, b
<1>5. ASSUME NEW q \in Earlier PROVE q \div d < a
  <2>1. PICK k \in Nat : k = q \div d /\ Splits(q, d, k, b)
    BY <1>3 DEF Splits
  <2>2. q \in Nat /\ q = k * d + b /\ r = a * d + b /\ q < r
    BY <1>1, <2>1 DEF Splits
  <2>3. SUFFICES ASSUME a <= k PROVE FALSE
    BY <1>1, <2>1
  <2>4. a * d <= k * d
    BY <1>1, <2>1, <2>3
  <2> QED
    BY <1>1, <2>1, <2>2, <2>4
<1>6. block \in [Earlier -> Below]
  BY <1>3, <1>5
<1>7. ASSUME NEW x \in Earlier, NEW y \in Earlier, block[x] = block[y] PROVE x = y
  <2>1. x \div d = y \div d /\ x % d = b /\ y % d = b
    BY <1>7
  <2>2. PICK k : Splits(x, d, k, b) /\ Splits(y, d, k, b)
    BY <1>3, <2>1
  <2> QED
    BY <2>2 DEF Splits
<1>8. ASSUME NEW c \in Below PROVE \E q \in Earlier : block[q] = c
  <2>1. PICK h \in Holders(l, p) : c = h \div d
    BY DEF Blocks, d
  <2>2. PICK q \in Nat : q = c * d + b
    BY <1>1, <1>2
  <2>3. Splits(q, d, c, b) /\ Splits(h, d, c, h % d)
    BY <1>1, <1>2, <1>3, <2>1, <2>2 DEF Splits
  <2>4. q \in Holders(l, p)
    BY <2>3, HoldersAligned DEF d
  <2>5. q < r
    <3>1. c * d + d <= a * d /\ c * d \in Nat /\ a * d \in Nat
      BY <1>1, <1>2, MultipleLess
    <3>2. r = a * d + b
      BY <1>1 DEF Splits
    <3> QED
      BY <1>1, <2>2, <3>1, <3>2
  <2>6. q \div d = c /\ q % d = b
    BY <2>3, SplitsUnique
  <2>7. q \in Earlier
    BY <2>4, <2>5, <2>6
  <2> QED
    BY <2>6, <2>7
<1> HIDE DEF block, Earlier, Below
<1>9. Cardinality(Earlier) = Cardinality(Below)
  BY <1>2, <1>6, <1>7, <1>8, SameCount
<1> QED
  BY <1>4, <1>9 DEF BlockNumber, Below, a, d

\* Blocks are numbered without gaps, in as many numbers as there are replicas.
LEMMA BlocksNumbered ==
  ASSUME NEW l, Regular(l), NEW p \in Param
  PROVE  /\ Cardinality(Blocks(l, p)) \in Nat
         /\ NumReplicas(ParamsMeta(l)[p]) = Cardinality(Blocks(l, p))
         /\ \A a \in Blocks(l, p) : BlockNumber(l, p, a) \in 0 .. Cardinality(Blocks(l, p)) - 1
         /\ \A a, b \in Blocks(l, p) : BlockNumber(l, p, a) = BlockNumber(l, p, b) => a = b
         /\ \A n \in 0 .. Cardinality(Blocks(l, p)) - 1 :
              \E a \in Blocks(l, p) : BlockNumber(l, p, a) = n
<1> DEFINE B == Blocks(l, p)
           N == Cardinality(B)
           key == [a \in B |-> a]
           rank == Numbering(B, key)
<1>1. IsFiniteSet(B) /\ B \subseteq Nat /\ N \in Nat
  BY HolderFacts, FS_CardinalityType
<1>2. /\ rank \in [B -> 0 .. N - 1]
      /\ \A a, b \in B : rank[a] = rank[b] => a = b
      /\ \A n \in 0 .. N - 1 : \E a \in B : rank[a] = n
  <2>1. key \in Injection(B, Nat)
    <3>1. key \in [B -> Nat] /\ \A a, b \in B : key[a] = key[b] => a = b
      BY <1>1
    <3> QED
      BY <3>1, Fun_IsInj
  <2> HIDE DEF B, key
  <2>3. IsFiniteSet(B)
    BY <1>1
  <2>2. /\ Numbering(B, key) \in [B -> 0 .. Cardinality(B) - 1]
        /\ \A a, b \in B : Numbering(B, key)[a] = Numbering(B, key)[b] => a = b
        /\ \A k \in 0 .. Cardinality(B) - 1 : \E a \in B : Numbering(B, key)[a] = k
    BY <2>1, <2>3, Ranking
  <2> QED
    BY <2>2
<1>3. \A a \in B : rank[a] = BlockNumber(l, p, a)
  <2>1. ASSUME NEW a \in B PROVE {c \in B : key[c] < key[a]} = {c \in B : c < a}
    OBVIOUS
  <2> QED
    BY <2>1 DEF BlockNumber, Numbering
<1> HIDE DEF rank
<1>4. /\ \A a \in B : BlockNumber(l, p, a) \in 0 .. N - 1
      /\ \A a, b \in B : BlockNumber(l, p, a) = BlockNumber(l, p, b) => a = b
      /\ \A n \in 0 .. N - 1 : \E a \in B : BlockNumber(l, p, a) = n
  BY <1>2, <1>3
<1>5. NumReplicas(ParamsMeta(l)[p]) = N
  <2> DEFINE shards == ParamsMeta(l)[p]
  <2>1. {s.replica : s \in shards} = {ReplicaOf(l, p, r) : r \in Holders(l, p)}
    BY ShardsOf
  <2>2. {ReplicaOf(l, p, r) : r \in Holders(l, p)} = {BlockNumber(l, p, a) : a \in B}
    BY ReplicaIsBlock DEF Blocks
  <2>3. {BlockNumber(l, p, a) : a \in B} = 0 .. N - 1
    BY <1>4
  <2>4. Cardinality(0 .. N - 1) = N
    BY <1>1, FS_Interval
  <2> QED
    BY <2>1, <2>2, <2>3, <2>4 DEF NumReplicas
<1> QED
  BY <1>1, <1>4, <1>5

\* The metadata gives a shard the offset of its slice.
LEMMA OffsetIsSlice ==
  ASSUME NEW l, Regular(l), NEW p \in Param, NEW r \in Holders(l, p)
  PROVE  GlobalOffset(l, p, r) = TensorOffset(l, p, r)
<1> DEFINE d == Slices(l, p)
           a == r \div d
           b == r % d
           Before == {q \in Holders(l, p) :
                        ReplicaOf(l, p, q) = ReplicaOf(l, p, r) /\ ShardBefore(l, p, q, r)}
<1>1. d \in Nat \ {0} /\ a \in Nat /\ b \in 0 .. d - 1 /\ r \in Nat /\ Splits(r, d, a, b)
      /\ r = a * d + b /\ a \in Blocks(l, p)
  BY HolderFacts DEF Splits
<1>2. \A q \in Holders(l, p) : q \in Nat /\ Splits(q, d, q \div d, q % d) /\ q \div d \in Blocks(l, p)
  BY HolderFacts
<1>3. \A q \in Holders(l, p) : ReplicaOf(l, p, q) = ReplicaOf(l, p, r) <=> q \div d = a
  BY <1>1, <1>2, ReplicaIsBlock, BlocksNumbered
<1>4. PICK u \in Nat \ {0} : Multiple(l.tp, u, d)
  BY SlicesDivide, Positive DEF Multiple
<1> HIDE DEF d, a, b
<1>5. ASSUME NEW q \in Holders(l, p), q \div d = a PROVE ShardBefore(l, p, q, r) <=> q < r
  <2>1. PICK c : c = q % d /\ Splits(q, d, a, c)
    BY <1>2, <1>5
  <2>2. c \in 0 .. d - 1 /\ q = a * d + c /\ q \in Nat /\ a * d \in Nat
    BY <1>1, <2>1 DEF Splits
  <2>3. /\ TpRank(l, q) \in Nat /\ TpRank(l, r) \in Nat
        /\ TpRank(l, q) - c = TpRank(l, r) - b
    <3>1. Splits(r, d, a, b)
      BY <1>1
    <3>2. Splits(q, d, a, c)
      BY <2>1
    <3>3. PICK t : Splits(TpRank(l, q), d, t, c) /\ Splits(TpRank(l, r), d, t, b)
      BY <1>4, <3>1, <3>2, PlaceOfBlock
    <3> QED
      BY <3>3 DEF Splits
  <2>4. q < r <=> c < b
    BY <1>1, <2>2
  <2>5. c = b => q = r
    BY <1>1, <2>2
  <2>6. RankKey(l, p, r) \in Nat
    BY KeyIsSlice
  <2> QED
    BY <1>1, <2>2, <2>3, <2>4, <2>5, <2>6 DEF ShardBefore
<1>6. Before = {q \in Holders(l, p) : q \div d = a /\ q < r}
  BY <1>3, <1>5
<1>7. Before = a * d .. r - 1
  <2>1. a * d \in Nat
    BY <1>1
  <2>2. ASSUME NEW q \in Holders(l, p), q \div d = a, q < r PROVE q \in a * d .. r - 1
    <3>1. PICK c : Splits(q, d, a, c)
      BY <1>2, <2>2
    <3> QED
      BY <1>1, <2>1, <2>2, <3>1 DEF Splits
  <2>3. ASSUME NEW q \in a * d .. r - 1 PROVE q \in Holders(l, p) /\ q \div d = a /\ q < r
    <3>1. PICK c \in 0 .. d - 1 : q = a * d + c /\ q \in Nat
      <4>1. q - a * d \in 0 .. d - 1 /\ q = a * d + (q - a * d) /\ q \in Nat
        BY <1>1, <2>1
      <4> QED
        BY <4>1
    <3>2. Splits(q, d, a, c)
      BY <1>1, <3>1 DEF Splits
    <3> QED
      BY <1>1, <2>1, <3>2, HoldersAligned, SplitsUnique DEF d
  <2> QED
    BY <1>6, <2>2, <2>3
<1>8. Cardinality(Before) = b
  <2>1. PICK A \in Nat : A = a * d /\ r = A + b
    BY <1>1
  <2>2. A \in Int /\ r - 1 \in Int
    BY <1>1
  <2>3. Cardinality(A .. r - 1) = IF A > r - 1 THEN 0 ELSE r - 1 - A + 1
    BY <2>2, FS_Interval
  <2>4. Before = A .. r - 1
    BY <1>7, <2>1
  <2>5. b \in Nat /\ r \in Nat
    BY <1>1
  <2> HIDE DEF Before
  <2> QED
    BY <2>1, <2>3, <2>4, <2>5
<1>9. GlobalOffset(l, p, r) = Shape(l, p) * b
  BY <1>8 DEF GlobalOffset
<1>10. PICK s \in Nat : s = Shape(l, p)
  BY <1>1, Euclid, ParamMetaAssumption DEF Shape, d
<1>11. s * b = b * s
  BY <1>1
<1> QED
  BY <1>9, <1>10, <1>11 DEF TensorOffset, Slice, b, d

\* Slices are all of one size.
LEMMA ShapeFacts ==
  ASSUME NEW l, Regular(l), NEW p \in Param
  PROVE  Shape(l, p) \in Nat \ {0} /\ Length = Slices(l, p) * Shape(l, p)
<1>1. PICK d \in Nat \ {0}, u \in Nat \ {0} : d = Slices(l, p) /\ l.tp = u * d
  BY SlicesDivide
<1>2. PICK n \in Nat \ {0} : Length = n * (u * d)
  <2>1. u * d \in Nat \ {0}
    OBVIOUS
  <2>2. \E n \in Nat \ {0} : Length = n * l.tp
    BY Divides, Positive, ParamMetaAssumption DEF Regular
  <2> QED
    BY <1>1, <2>2
<1>3. PICK k \in Nat \ {0} : k = n * u /\ Length = k * d
  <2>1. n * u \in Nat \ {0} /\ n * (u * d) = (n * u) * d
    OBVIOUS
  <2> QED
    BY <1>2, <2>1
<1>4. Splits(Length, d, k, 0)
  BY <1>3, ParamMetaAssumption DEF Splits
<1>5. Shape(l, p) = k
  BY <1>1, <1>4, SplitsUnique DEF Shape
<1>6. k * d = d * k
  OBVIOUS
<1> QED
  BY <1>1, <1>3, <1>5, <1>6

\* The shard of a rank, and where its elements are.
LEMMA ShardFacts ==
  ASSUME NEW l, Regular(l), NEW p \in Param, NEW s \in ParamsMeta(l)[p]
  PROVE  /\ s.rank \in Holders(l, p) /\ s = Shard(l, p, s.rank)
         /\ s.start \in Nat /\ s.size \in Nat \ {0} /\ s.size = Shape(l, p)
         /\ s.start = TensorOffset(l, p, s.rank)
         /\ s.replica = BlockNumber(l, p, s.rank \div Slices(l, p))
         /\ \A i \in Nat : i \in s.start .. s.start + s.size - 1 =>
              \E j : Splits(i, s.size, s.rank % Slices(l, p), j)
<1>1. PICK r \in Holders(l, p) : s = Shard(l, p, r)
  BY ShardsOf
<1>2. s.rank = r /\ s.replica = ReplicaOf(l, p, r) /\ s.start = GlobalOffset(l, p, r) /\ s.size = Shape(l, p)
  BY <1>1, ShardsOf
<1>3. PICK z \in Nat \ {0} : z = Shape(l, p)
  BY ShapeFacts
<1>4. PICK b \in Nat : b = r % Slices(l, p)
  BY HolderFacts DEF Splits
<1>5. s.start = b * z /\ b * z \in Nat /\ s.start = TensorOffset(l, p, r)
  BY <1>2, <1>3, <1>4, OffsetIsSlice DEF TensorOffset, Slice
<1>6. ASSUME NEW i \in Nat, i \in s.start .. s.start + s.size - 1
      PROVE  \E j : Splits(i, s.size, r % Slices(l, p), j)
  <2>1. PICK o \in Nat : o = b * z /\ i \in o .. o + z - 1
    BY <1>2, <1>3, <1>5, <1>6
  <2>2. PICK j \in 0 .. z - 1 : i = o + j
    <3>1. i - o \in 0 .. z - 1 /\ i = o + (i - o)
      BY <2>1
    <3> QED
      BY <3>1
  <2>3. Splits(i, z, b, j)
    BY <2>1, <2>2 DEF Splits
  <2> QED
    BY <1>2, <1>3, <1>4, <2>3
<1> QED
  BY <1>1, <1>2, <1>3, <1>5, <1>6, ReplicaIsBlock

\* The shards of a replica cover the parameter ...
LEMMA ShardsTile ==
  ASSUME NEW l, Regular(l), NEW p \in Param,
         NEW n \in 0 .. NumReplicas(ParamsMeta(l)[p]) - 1, NEW i \in 0 .. Length - 1
  PROVE  \E s \in ParamsMeta(l)[p] : s.replica = n /\ i \in s.start .. s.start + s.size - 1
<1>1. PICK d \in Nat \ {0}, z \in Nat \ {0} : d = Slices(l, p) /\ z = Shape(l, p) /\ Length = d * z
  BY SlicesDivide, ShapeFacts
<1>2. PICK a \in Blocks(l, p) : BlockNumber(l, p, a) = n
  BY BlocksNumbered
<1>3. PICK h \in Holders(l, p) : a = h \div d
  BY <1>1 DEF Blocks
<1>4. i \in Nat
  BY <1>1
<1>5. PICK k \in Nat, j \in 0 .. z - 1 : k = i \div z /\ j = i % z /\ i = k * z + j
  BY <1>1, <1>4, Euclid
<1>6. k \in 0 .. d - 1
  <2>1. SUFFICES ASSUME d <= k PROVE FALSE
    BY <1>1, <1>5
  <2>2. d * z <= k * z
    BY <1>1, <1>5, <2>1
  <2> QED
    BY <1>1, <1>5, <2>2
<1>7. PICK r \in Nat : Splits(r, d, a, k)
  <2>1. a \in Nat
    BY HolderFacts
  <2>2. a * d + k \in Nat
    BY <1>6, <2>1
  <2> QED
    BY <1>6, <2>1, <2>2 DEF Splits
<1>8. r \in Holders(l, p)
  <2>1. Splits(h, d, a, h % d)
    BY <1>1, <1>3, HolderFacts
  <2> QED
    BY <1>1, <1>7, <2>1, HoldersAligned
<1>9. PICK s \in ParamsMeta(l)[p] : s = Shard(l, p, r) /\ s.rank = r
  BY <1>8, ShardsOf
<1>10. s.replica = n
  BY <1>1, <1>2, <1>7, <1>9, ShardFacts, SplitsUnique
<1>11. s.size = z /\ s.start = k * z
  <2>1. r % d = k
    BY <1>7, SplitsUnique
  <2> QED
    BY <1>1, <1>9, <2>1, ShardFacts DEF TensorOffset, Slice
<1>12. i \in s.start .. s.start + s.size - 1
  <2>1. PICK o \in Nat : o = k * z
    BY <1>5
  <2> QED
    BY <1>5, <1>11, <2>1
<1> QED
  BY <1>10, <1>12

\* ... and each element once.
LEMMA ShardsApart ==
  ASSUME NEW l, Regular(l), NEW p \in Param,
         NEW s \in ParamsMeta(l)[p], NEW t \in ParamsMeta(l)[p], s.replica = t.replica,
         NEW i \in Nat, i \in s.start .. s.start + s.size - 1, i \in t.start .. t.start + t.size - 1
  PROVE  s = t
<1> DEFINE d == Slices(l, p)
<1>1. /\ s.rank \in Holders(l, p) /\ s = Shard(l, p, s.rank)
      /\ t.rank \in Holders(l, p) /\ t = Shard(l, p, t.rank)
  BY ShardFacts
<1>2. PICK j, k : Splits(i, Shape(l, p), s.rank % d, j) /\ Splits(i, Shape(l, p), t.rank % d, k)
  BY ShardFacts
<1>3. s.rank % d = t.rank % d
  <2>1. i \div Shape(l, p) = s.rank % d
    BY <1>2, SplitsUnique
  <2>2. i \div Shape(l, p) = t.rank % d
    BY <1>2, SplitsUnique
  <2> QED
    BY <2>1, <2>2
<1>4. s.rank \div d = t.rank \div d
  <2>1. s.rank \div d \in Blocks(l, p) /\ t.rank \div d \in Blocks(l, p)
    BY <1>1, HolderFacts
  <2>2. BlockNumber(l, p, s.rank \div d) = BlockNumber(l, p, t.rank \div d)
    BY ShardFacts
  <2> QED
    BY <2>1, <2>2, BlocksNumbered
<1>5. PICK a, b : Splits(s.rank, d, a, b) /\ Splits(t.rank, d, a, b)
  BY <1>1, <1>3, <1>4, HolderFacts
<1>6. s.rank = t.rank
  BY <1>5 DEF Splits
<1> QED
  BY <1>1, <1>6

-----------------------------------------------------------------------------
(* Layers: the name of a layer tells where in the model it is.             *)

\* Layers to a part of a stage, and to all parts with the same virtual stage.
LEMMA LayerSizes ==
  ASSUME NEW l, Regular(l)
  PROVE  \E m \in Nat \ {0}, w \in Nat \ {0} :
           /\ m = NumLayers \div (l.pp * l.vp) /\ w = NumLayers \div l.vp
           /\ w = l.pp * m /\ NumLayers = l.vp * w
<1>1. PICK pp \in Nat \ {0}, vp \in Nat \ {0} : pp = l.pp /\ vp = l.vp
  BY Positive
<1>2. PICK b \in Nat \ {0} : b = pp * vp
  BY <1>1
<1>3. NumLayers % b = 0
  BY <1>1, <1>2 DEF Regular
<1>4. PICK m \in Nat \ {0} : m = NumLayers \div b /\ NumLayers = m * b
  BY <1>3, Divides, ParamMetaAssumption
<1>5. PICK w \in Nat \ {0} : w = pp * m
  BY <1>1
<1>6. m * (pp * vp) = (pp * m) * vp
  BY <1>1
<1>7. NumLayers = w * vp
  BY <1>2, <1>4, <1>5, <1>6
<1>8. Splits(NumLayers, vp, w, 0)
  BY <1>7, ParamMetaAssumption DEF Splits
<1>9. w = NumLayers \div vp
  BY <1>8, SplitsUnique
<1>10. w * vp = vp * w
  OBVIOUS
<1> QED
  BY <1>1, <1>2, <1>4, <1>5, <1>7, <1>9, <1>10

\* The layer held under x = <<stage, virtual stage, local number>>.
Held(l, x) == HeldLayer(l, x[1], x[2], x[3])

\* The layers held are numbered by stage, rank of the pipeline and number in the
\* stage, and are layers of the model.
LEMMA HeldSplits ==
  ASSUME NEW l, Regular(l), NEW m \in Nat \ {0}, NEW w \in Nat \ {0},
         m = NumLayers \div (l.pp * l.vp), w = NumLayers \div l.vp, w = l.pp * m, NumLayers = l.vp * w,
         NEW x \in StageLayers(l)
  PROVE  \E k : Splits(Held(l, x), w, x[2], k) /\ Splits(k, m, x[1], x[3]) /\ Held(l, x) \in Layer
<1>1. PICK pp \in Nat \ {0}, vp \in Nat \ {0} : pp = l.pp /\ vp = l.vp
  BY Positive
<1>2. PICK a \in 0 .. pp - 1, v \in 0 .. vp - 1, i \in 0 .. m - 1 : x[1] = a /\ x[2] = v /\ x[3] = i
  BY <1>1 DEF StageLayers, LocalLayer
<1>3. PICK k \in Nat : k = a * m + i
  BY <1>2
<1>4. k < w
  <2>1. a * m + m <= pp * m /\ a * m \in Nat /\ pp * m \in Nat
    BY <1>2, MultipleLess
  <2>2. PICK e \in Nat : e = a * m /\ e + m <= w
    BY <1>1, <2>1
  <2>3. k = e + i
    BY <1>3, <2>2
  <2>4. e + m <= w
    BY <2>2
  <2> QED
    BY <1>2, <2>3, <2>4
<1>5. PICK n \in Nat : n = v * w + k
  BY <1>2, <1>3
<1>6. n < vp * w
  <2>1. v * w + w <= vp * w /\ v * w \in Nat /\ vp * w \in Nat
    <3>1. v \in Nat /\ v < vp
      BY <1>2
    <3> QED
      BY <3>1, MultipleLess
  <2>2. PICK e \in Nat, f \in Nat : e = v * w /\ f = vp * w /\ e + w <= f
    BY <2>1
  <2>3. n = e + k /\ e + w <= f
    BY <1>5, <2>2
  <2>4. n < f
    BY <1>4, <2>3
  <2> QED
    BY <2>2, <2>4
<1>7. Held(l, x) = n
  <2>1. Held(l, x) = v * w + a * m + i
    BY <1>2 DEF Held, HeldLayer
  <2>2. v * w \in Nat /\ a * m \in Nat
    BY <1>2
  <2>3. v * w + a * m + i = v * w + (a * m + i)
    BY <1>2, <2>2
  <2> QED
    BY <1>3, <1>5, <2>1, <2>3
<1>8. n \in Layer
  BY <1>1, <1>6, ParamMetaAssumption DEF Layer
<1>9. Splits(n, w, v, k) /\ Splits(k, m, a, i)
  <2>1. v \in Nat /\ a \in Nat /\ k \in 0 .. w - 1
    BY <1>2, <1>4
  <2> QED
    BY <1>2, <1>3, <1>5, <2>1 DEF Splits
<1> QED
  BY <1>2, <1>7, <1>8, <1>9

\* The layers of the stages come in the order of the layers held.
LEMMA HeldOrder ==
  ASSUME NEW l, Regular(l), NEW x \in StageLayers(l), NEW y \in StageLayers(l)
  PROVE  /\ LayerBefore(x, y) <=> Held(l, x) < Held(l, y)
         /\ Held(l, x) = Held(l, y) => x = y
<1>1. PICK m \in Nat \ {0}, w \in Nat \ {0} :
        /\ m = NumLayers \div (l.pp * l.vp) /\ w = NumLayers \div l.vp
        /\ w = l.pp * m /\ NumLayers = l.vp * w
  BY LayerSizes
<1>2. PICK j : Splits(Held(l, x), w, x[2], j) /\ Splits(j, m, x[1], x[3])
  BY <1>1, HeldSplits
<1>3. PICK k : Splits(Held(l, y), w, y[2], k) /\ Splits(k, m, y[1], y[3])
  BY <1>1, HeldSplits
<1>4. PICK g \in Nat, h \in Nat, j1 \in Nat, k1 \in Nat :
        g = Held(l, x) /\ h = Held(l, y) /\ j1 = j /\ k1 = k
  BY <1>2, <1>3 DEF Splits
<1>5. PICK a \in Nat, v \in Nat, i \in Nat, b \in Nat, u \in Nat, n \in Nat :
        /\ a = x[1] /\ v = x[2] /\ i = x[3] /\ b = y[1] /\ u = y[2] /\ n = y[3]
        /\ x = <<a, v, i>> /\ y = <<b, u, n>>
  <2>1. \A z \in StageLayers(l) : z[1] \in Nat /\ z[2] \in Nat /\ z[3] \in Nat /\ z = <<z[1], z[2], z[3]>>
    BY DEF StageLayers, LocalLayer
  <2> QED
    BY <2>1
<1>6. g \div w = v /\ g % w = j1 /\ h \div w = u /\ h % w = k1
  BY <1>2, <1>3, <1>4, <1>5, SplitsUnique
<1>7. j1 \div m = a /\ j1 % m = i /\ k1 \div m = b /\ k1 % m = n
  BY <1>2, <1>3, <1>4, <1>5, SplitsUnique
<1>8. /\ v < u => g < h
      /\ u < v => h < g
      /\ v = u => (g < h <=> j1 < k1) /\ (g = h <=> j1 = k1)
  BY <1>6, QuotientOrder
<1>9. /\ a < b => j1 < k1
      /\ b < a => k1 < j1
      /\ a = b => (j1 < k1 <=> i < n) /\ (j1 = k1 <=> i = n)
  BY <1>7, QuotientOrder
<1>10. LayerBefore(x, y) <=> v < u \/ (v = u /\ (a < b \/ (a = b /\ i < n)))
  BY <1>5 DEF LayerBefore
<1>11. LayerBefore(x, y) <=> g < h
  BY <1>8, <1>9, <1>10
<1>12. g = h => x = y
  BY <1>5, <1>8, <1>9
<1> QED
  BY <1>4, <1>11, <1>12

\* Every layer of the model is held.
LEMMA HeldOnto ==
  ASSUME NEW l, Regular(l), NEW n \in Layer
  PROVE  \E x \in StageLayers(l) : Held(l, x) = n
<1>1. PICK m \in Nat \ {0}, w \in Nat \ {0} :
        /\ m = NumLayers \div (l.pp * l.vp) /\ w = NumLayers \div l.vp
        /\ w = l.pp * m /\ NumLayers = l.vp * w
  BY LayerSizes
<1>2. PICK pp \in Nat \ {0}, vp \in Nat \ {0} : pp = l.pp /\ vp = l.vp
  BY Positive
<1>3. n \in Nat /\ n < vp * w
  BY <1>1, <1>2, ParamMetaAssumption DEF Layer
<1>4. PICK v \in Nat, k \in 0 .. w - 1 : n = v * w + k
  <2>1. n \in Nat
    BY <1>3
  <2>2. \E v \in Nat, k \in 0 .. w - 1 : v = n \div w /\ k = n % w /\ n = v * w + k
    BY <2>1, Euclid
  <2> QED
    BY <2>2
<1>5. PICK a \in Nat, i \in 0 .. m - 1 : k = a * m + i
  <2>1. k \in Nat
    BY <1>4
  <2>2. \E a \in Nat, i \in 0 .. m - 1 : a = k \div m /\ i = k % m /\ k = a * m + i
    BY <2>1, Euclid
  <2> QED
    BY <2>2
<1>6. v < vp
  <2>1. SUFFICES ASSUME vp <= v PROVE FALSE
    BY <1>4
  <2>2. vp * w <= v * w
    BY <1>4, <2>1
  <2> QED
    BY <1>3, <1>4, <2>2
<1>7. a < pp
  <2>1. SUFFICES ASSUME pp <= a PROVE FALSE
    BY <1>5
  <2>2. PICK e \in Nat, f \in Nat : e = pp * m /\ f = a * m /\ e <= f
    BY <1>5, <2>1
  <2>3. k = f + i /\ w = e
    BY <1>1, <1>2, <1>5, <2>2
  <2> QED
    BY <1>4, <1>5, <2>2, <2>3
<1>8. <<a, v, i>> \in StageLayers(l)
  BY <1>1, <1>2, <1>4, <1>5, <1>6, <1>7 DEF StageLayers, LocalLayer
<1>9. Held(l, <<a, v, i>>) = n
  <2>1. Held(l, <<a, v, i>>) = v * w + a * m + i
    BY <1>1 DEF Held, HeldLayer
  <2>2. v * w \in Nat /\ a * m \in Nat
    BY <1>4, <1>5
  <2>3. v * w + a * m + i = v * w + (a * m + i)
    BY <1>5, <2>2
  <2> QED
    BY <1>4, <1>5, <2>1, <2>3
<1> QED
  BY <1>8, <1>9

\* The global number of a layer is the layer the stage holds.
LEMMA NamesAreLayers ==
  ASSUME NEW l, Regular(l), NEW x \in StageLayers(l)
  PROVE  GlobalLayer(l, x[1], x[2], x[3]) = Held(l, x) /\ Held(l, x) \in Layer
<1> DEFINE n == Held(l, x)
           S == {y \in StageLayers(l) : LayerBefore(y, x)}
           f == [y \in S |-> Held(l, y)]
<1>1. \A y \in StageLayers(l) : Held(l, y) \in Layer
  BY LayerSizes, HeldSplits
<1>2. n \in Nat /\ n \in Layer /\ Layer \subseteq Nat
  BY <1>1, ParamMetaAssumption DEF Layer
<1>3. x = <<x[1], x[2], x[3]>>
  BY DEF StageLayers
<1> HIDE DEF n
<1>4. ASSUME NEW y \in S PROVE Held(l, y) \in 0 .. n - 1
  <2>1. Held(l, y) \in Nat
    BY <1>1, <1>2
  <2>2. Held(l, y) < n
    BY HeldOrder DEF n
  <2> QED
    BY <1>2, <2>1, <2>2
<1>5. f \in [S -> 0 .. n - 1]
  BY <1>4
<1>6. \A y, z \in S : f[y] = f[z] => y = z
  BY HeldOrder
<1>7. ASSUME NEW k \in 0 .. n - 1 PROVE \E y \in S : f[y] = k
  <2>1. k \in Layer /\ k < n
    BY <1>2, ParamMetaAssumption DEF Layer
  <2>2. PICK y \in StageLayers(l) : Held(l, y) = k
    BY <2>1, HeldOnto
  <2>3. y \in S
    BY <2>1, <2>2, HeldOrder DEF n
  <2> QED
    BY <2>2, <2>3
<1>8. IsFiniteSet(0 .. n - 1) /\ Cardinality(0 .. n - 1) = n
  BY <1>2, FS_Interval
<1>9. Cardinality(S) = n
  <2> HIDE DEF S, f
  <2> QED
    BY <1>5, <1>6, <1>7, <1>8, SameCount
<1> QED
  BY <1>2, <1>3, <1>9 DEF GlobalLayer, n

\* The stage of a rank is one of the pipeline.
LEMMA PpRankInPipeline ==
  ASSUME NEW l, Regular(l), NEW r \in Ranks(l)
  PROVE  PpRank(l, r) \in 0 .. l.pp - 1
<1>1. PICK g \in Nat \ {0} : g = l.dp \div l.cores /\ CoreSize(l) = l.pp * (l.tp * g)
  BY Sizes
<1>2. PICK T \in Nat \ {0}, pp \in Nat \ {0} : T = l.tp * g /\ pp = l.pp
  BY Positive
<1>3. PICK C \in Nat \ {0} : C = CoreSize(l) /\ C = pp * T
  BY <1>1, <1>2
<1>4. r \in Nat
  BY Sizes DEF Ranks
<1>5. PICK x \in 0 .. C - 1 : x = r % C
  BY <1>3, <1>4
<1>6. PICK k \in Nat, j \in 0 .. T - 1 : k = x \div T /\ x = k * T + j
  <2>1. x \in Nat
    BY <1>5
  <2> QED
    BY <2>1, Euclid
<1>7. k < pp
  <2>1. SUFFICES ASSUME pp <= k PROVE FALSE
    BY <1>2, <1>6
  <2>2. pp * T <= k * T
    BY <1>2, <1>6, <2>1
  <2> QED
    BY <1>3, <1>5, <1>6, <2>2
<1>8. PpRank(l, r) = k
  BY <1>1, <1>2, <1>3, <1>5, <1>6 DEF PpRank
<1>9. k \in 0 .. pp - 1
  BY <1>6, <1>7
<1> QED
  BY <1>2, <1>8, <1>9

\* The tensor a rank has under a name is of the layer that the name says.
LEMMA TensorIsNamed ==
  ASSUME NEW l, Regular(l), NEW r \in Ranks(l), NEW p \in RankParams(l, r)
  PROVE  p \in Param /\ TensorLayer(l, r, p) = p[1]
<1> DEFINE pp == PpRank(l, r)
<1>1. \A v \in 0 .. l.vp - 1, i \in LocalLayer(l) :
        GlobalLayer(l, pp, v, i) = HeldLayer(l, pp, v, i) /\ GlobalLayer(l, pp, v, i) \in Layer
  <2>1. ASSUME NEW v \in 0 .. l.vp - 1, NEW i \in LocalLayer(l)
        PROVE  GlobalLayer(l, pp, v, i) = HeldLayer(l, pp, v, i) /\ GlobalLayer(l, pp, v, i) \in Layer
    <3>1. <<pp, v, i>> \in StageLayers(l)
      BY PpRankInPipeline DEF StageLayers
    <3> QED
      BY <3>1, NamesAreLayers DEF Held
  <2> QED
    BY <2>1
<1>2. PICK v \in 0 .. l.vp - 1, i \in LocalLayer(l) : p[1] = GlobalLayer(l, pp, v, i)
  BY DEF RankParams
<1>3. p \in Param
  BY <1>1 DEF RankParams, Param, HeldKinds
<1> HIDE DEF pp
<1>4. \E n \in Layer : \E v1 \in 0 .. l.vp - 1, i1 \in LocalLayer(l) :
        GlobalLayer(l, pp, v1, i1) = p[1] /\ n = HeldLayer(l, pp, v1, i1)
  BY <1>1, <1>2
<1>5. \A n \in Layer : (\E v1 \in 0 .. l.vp - 1, i1 \in LocalLayer(l) :
        GlobalLayer(l, pp, v1, i1) = p[1] /\ n = HeldLayer(l, pp, v1, i1)) => n = p[1]
  BY <1>1
<1>6. TensorLayer(l, r, p) = p[1]
  BY <1>4, <1>5 DEF TensorLayer, pp
<1> QED
  BY <1>3, <1>6

\* Every stage of every core has a rank for each place in it.
LEMMA RankInStage ==
  ASSUME NEW l, Regular(l), NEW c \in Core(l), NEW a \in 0 .. l.pp - 1,
         NEW T \in Nat \ {0}, T = l.tp * (l.dp \div l.cores), NEW t \in 0 .. T - 1
  PROVE  \E r \in Ranks(l) :
           /\ r = c * CoreSize(l) + (a * T + t)
           /\ PpRank(l, r) = a /\ r \div CoreSize(l) = c
           /\ t < l.tp => r % l.tp = t
<1>1. PICK g \in Nat \ {0}, C \in Nat \ {0}, k \in Nat \ {0}, tp \in Nat \ {0}, pp \in Nat \ {0} :
        /\ k = l.cores /\ tp = l.tp /\ pp = l.pp
        /\ g = l.dp \div l.cores /\ C = CoreSize(l) /\ C = pp * T /\ T = tp * g
        /\ WorldSize(l) = C * k
  BY Sizes, Positive
<1>2. c \in Nat /\ c < k /\ a \in Nat /\ a < pp /\ t \in Nat /\ t < T
  BY <1>1 DEF Core
<1>3. PICK x \in 0 .. C - 1 : x = a * T + t
  <2>1. PICK e \in Nat : e = a * T /\ e + T <= C
    <3>1. a * T + T <= pp * T /\ a * T \in Nat
      BY <1>1, <1>2, MultipleLess
    <3> QED
      BY <1>1, <3>1
  <2>2. e + t \in 0 .. C - 1 /\ e + t = a * T + t
    BY <1>1, <1>2, <2>1
  <2> QED
    BY <2>2
<1>4. PICK r \in Nat : r = c * C + x /\ r < C * k
  <2>1. PICK e \in Nat, f \in Nat : e = c * C /\ f = k * C /\ e + C <= f
    BY <1>2, MultipleLess
  <2>2. f = C * k
    BY <2>1
  <2>3. e + x \in Nat /\ e + x < f
    BY <1>3, <2>1
  <2> QED
    BY <2>1, <2>2, <2>3
<1>5. r \in Ranks(l)
  BY <1>1, <1>4 DEF Ranks
<1>6. r \div C = c /\ r % C = x
  <2>1. Splits(r, C, c, x)
    BY <1>2, <1>3, <1>4 DEF Splits
  <2> QED
    BY <2>1, SplitsUnique
<1>7. PpRank(l, r) = a
  <2>1. Splits(x, T, a, t)
    BY <1>2, <1>3 DEF Splits
  <2>2. x \div T = a
    BY <2>1, SplitsUnique
  <2> QED
    BY <1>1, <1>6, <2>2 DEF PpRank
<1>8. ASSUME t < tp PROVE r % tp = t
  <2>1. PICK i \in Nat, j \in Nat : i = pp * g /\ j = a * g
    BY <1>1, <1>2
  <2>2. PICK b \in Nat : b = c * i + j
    BY <1>2, <2>1
  <2>3. r = b * tp + t
    <3>1. a * T = j * tp
      BY <1>1, <1>2, <2>1
    <3>2. C = i * tp
      BY <1>1, <1>2, <2>1
    <3>3. c * (i * tp) = (c * i) * tp
      BY <1>2, <2>1
    <3>4. (c * i + j) * tp = (c * i) * tp + j * tp
      BY <1>2, <2>1
    <3>5. (c * i) * tp \in Nat /\ j * tp \in Nat
      BY <1>2, <2>1
    <3> QED
      BY <1>2, <1>3, <1>4, <2>2, <3>1, <3>2, <3>3, <3>4, <3>5
  <2>4. Splits(r, tp, b, t)
    BY <1>2, <1>8, <2>3 DEF Splits
  <2> QED
    BY <2>4, SplitsUnique
<1> QED
  BY <1>1, <1>3, <1>4, <1>5, <1>6, <1>7, <1>8

\* Any place among the experts is taken in every stage.
LEMMA ExpertInStage ==
  ASSUME NEW l, Regular(l), l.ep > 1, NEW a \in 0 .. l.pp - 1, NEW e \in 0 .. l.ep - 1
  PROVE  \E r \in Ranks(l) : PpRank(l, r) = a /\ EpRank(l, r) = e
<1>1. PICK g \in Nat \ {0}, k \in Nat \ {0}, tp \in Nat \ {0}, ep \in Nat \ {0}, et \in Nat \ {0} :
        /\ k = l.cores /\ tp = l.tp /\ ep = l.ep /\ et = l.epTp
        /\ g = l.dp \div l.cores /\ l.dp = g * k
  BY Sizes, Positive
<1>2. PICK T \in Nat \ {0} : T = tp * g
  BY <1>1
<1>3. PICK u \in Nat \ {0} : tp = u * et
  <2>1. tp % et = 0
    BY <1>1 DEF Regular
  <2>2. tp \div et \in Nat \ {0} /\ tp = (tp \div et) * et
    BY <2>1, Divides
  <2> QED
    BY <2>2
<1>4. a \in Nat /\ e \in Nat /\ e < ep /\ T = l.tp * (l.dp \div l.cores)
  <2>1. T = l.tp * (l.dp \div l.cores)
    BY <1>1, <1>2
  <2>2. a \in Nat /\ e \in Nat /\ e < ep
    BY <1>1
  <2> QED
    BY <2>1, <2>2
<1>5. \A r \in Nat : EpRank(l, r) = (EpIndex(l, r) \div et) % ep
  BY <1>1 DEF EpRank
<1>6. Ranks(l) \subseteq Nat
  BY Sizes DEF Ranks
<1>7. CASE k > 1
  <2>1. PICK i \in Nat : i = e * et /\ i < k * tp
    <3>1. PICK x \in Nat, y \in Nat : x = e * et /\ y = ep * et /\ x + et <= y
      BY <1>4, MultipleLess
    <3>2. y <= k * tp
      BY <1>1, <1>7, <3>1 DEF Regular
    <3>3. k * tp \in Nat
      OBVIOUS
    <3> QED
      BY <3>1, <3>2, <3>3
  <2>2. PICK c \in Nat, t \in 0 .. tp - 1 : c = i \div tp /\ t = i % tp /\ i = c * tp + t
    BY Euclid
  <2>3. c < k
    <3>1. SUFFICES ASSUME k <= c PROVE FALSE
      BY <2>2
    <3>2. k * tp <= c * tp
      BY <2>2, <3>1
    <3> QED
      BY <2>1, <2>2, <3>2
  <2>4. c \in Core(l) /\ t \in 0 .. T - 1
    <3>1. tp <= T
      BY <1>2
    <3>2. t \in 0 .. T - 1
      BY <2>2, <3>1
    <3>3. c \in 0 .. k - 1
      BY <2>2, <2>3
    <3> QED
      BY <1>1, <3>2, <3>3 DEF Core
  <2>5. PICK r \in Ranks(l) : PpRank(l, r) = a /\ r \div CoreSize(l) = c /\ r % tp = t
    <3>1. t < tp
      BY <2>2
    <3>2. \E r \in Ranks(l) :
             /\ PpRank(l, r) = a /\ r \div CoreSize(l) = c
             /\ t < l.tp => r % l.tp = t
      BY <1>4, <2>4, RankInStage
    <3> QED
      BY <1>1, <3>1, <3>2
  <2>6. EpIndex(l, r) = i
    BY <1>1, <1>7, <2>2, <2>5 DEF EpIndex
  <2>7. (i \div et) % ep = e
    <3>1. Splits(i, et, e, 0) /\ Splits(e, ep, 0, e)
      BY <1>4, <2>1 DEF Splits
    <3> QED
      BY <3>1, SplitsUnique
  <2> QED
    BY <1>5, <1>6, <2>5, <2>6, <2>7
<1>8. CASE k = 1
  <2>1. PICK b \in Nat, n \in Nat : b = a * n /\ a * T = b * et /\ T = n * et /\ ep <= n
    <3>1. PICK n \in Nat : n = u * g
      OBVIOUS
    <3>2. (u * et) * g = (u * g) * et
      OBVIOUS
    <3>3. T = n * et
      BY <1>2, <1>3, <3>1, <3>2
    <3>4. PICK b \in Nat : b = a * n
      BY <1>4, <3>1
    <3>5. (a * n) * et = a * (n * et)
      BY <1>4, <3>1
    <3>6. ep * et <= T
      <4>1. l.ep * l.epTp <= l.tp * l.dp
        BY <1>1, <1>8 DEF Regular
      <4>2. g * 1 = g
        OBVIOUS
      <4>3. l.dp = g
        BY <1>1, <1>8, <4>2
      <4> QED
        BY <1>1, <1>2, <4>1, <4>3
    <3>7. ep <= n
      <4>1. SUFFICES ASSUME n < ep PROVE FALSE
        BY <3>1
      <4>2. PICK x \in Nat, y \in Nat : x = n * et /\ y = ep * et /\ x + et <= y
        BY <3>1, <4>1, MultipleLess
      <4> QED
        BY <3>3, <3>6, <4>2
    <3> QED
      BY <3>3, <3>4, <3>5, <3>7
  <2>2. PICK i \in Nat : b <= i /\ i < b + ep /\ i % ep = e
    <3>1. PICK q \in Nat, j \in 0 .. ep - 1 : q = b \div ep /\ j = b % ep /\ b = q * ep + j
      BY Euclid
    <3>2. PICK f \in Nat : f = q * ep
      BY <3>1
    <3>3. CASE j <= e
      <4>1. Splits(f + e, ep, q, e)
        BY <1>4, <3>2 DEF Splits
      <4>2. (f + e) % ep = e
        BY <4>1, SplitsUnique
      <4>3. b <= f + e /\ f + e < b + ep
        BY <1>4, <3>1, <3>2, <3>3
      <4>4. PICK i \in Nat : i = f + e
        BY <1>4
      <4>5. b <= i /\ i < b + ep /\ i % ep = e
        BY <4>2, <4>3, <4>4
      <4> QED
        BY <4>5
    <3>4. CASE e < j
      <4>1. (q + 1) * ep = f + ep
        BY <3>1, <3>2
      <4>2. Splits(f + ep + e, ep, q + 1, e)
        BY <1>4, <3>1, <3>2, <4>1 DEF Splits
      <4>3. (f + ep + e) % ep = e
        BY <4>2, SplitsUnique
      <4>4. b <= f + ep + e /\ f + ep + e < b + ep
        BY <1>4, <3>1, <3>2, <3>4
      <4> QED
        BY <1>4, <3>2, <4>3, <4>4
    <3> QED
      BY <1>4, <3>1, <3>3, <3>4
  <2>3. PICK x \in Nat : x = i * et
    BY <2>2
  <2>4. PICK t \in 0 .. T - 1 : x = a * T + t
    <3>1. PICK z \in Nat : z = b * et /\ z = a * T
      BY <2>1
    <3>2. z <= x
      BY <2>2, <2>3, <3>1
    <3>3. x + et <= (b + n) * et
      <4>1. i < b + n
        BY <2>1, <2>2
      <4> QED
        BY <2>1, <2>2, <2>3, <4>1, MultipleLess
    <3>4. (b + n) * et = b * et + n * et
      BY <2>1
    <3>5. x + et <= z + T
      BY <2>1, <3>1, <3>3, <3>4
    <3>6. x - z \in 0 .. T - 1 /\ x = z + (x - z)
      BY <3>2, <3>5
    <3> QED
      BY <3>1, <3>6
  <2>5. PICK r \in Ranks(l) : r = x /\ PpRank(l, r) = a
    <3>1. 0 \in Core(l) /\ CoreSize(l) \in Nat
      BY <1>1, Sizes DEF Core
    <3>2. PICK r \in Ranks(l) : r = 0 * CoreSize(l) + (a * T + t) /\ PpRank(l, r) = a
      BY <1>4, <3>1, RankInStage
    <3>3. r = a * T + t
      BY <1>4, <3>1, <3>2
    <3> QED
      BY <2>4, <3>2, <3>3
  <2>6. EpIndex(l, r) = x
    BY <1>1, <1>8, <2>5 DEF EpIndex
  <2>7. x \div et = i
    <3>1. Splits(x, et, i, 0)
      BY <2>2, <2>3 DEF Splits
    <3> QED
      BY <3>1, SplitsUnique
  <2> QED
    BY <1>5, <1>6, <2>2, <2>5, <2>6, <2>7
<1> QED
  BY <1>1, <1>7, <1>8

\* Every parameter is held by a rank.
LEMMA EveryParamHeld ==
  ASSUME NEW l, Regular(l), NEW p \in Param
  PROVE  /\ \E r \in Holders(l, p) : TRUE
         /\ NumReplicas(ParamsMeta(l)[p]) \in Nat \ {0}
<1>1. p[1] \in Layer /\ p[2] \in Kind /\ p = <<p[1], p[2]>>
  BY DEF Param
<1>2. PICK x \in StageLayers(l) : Held(l, x) = p[1] /\ GlobalLayer(l, x[1], x[2], x[3]) = p[1]
  BY <1>1, HeldOnto, NamesAreLayers
<1>3. x[1] \in 0 .. l.pp - 1 /\ x[2] \in 0 .. l.vp - 1 /\ x[3] \in LocalLayer(l)
  BY DEF StageLayers
<1>4. PICK r \in Ranks(l) : PpRank(l, r) = x[1] /\ p[2] \in HeldKinds(l, r)
  <2>1. CASE p[2] \in Expert /\ l.ep > 1
    <3>1. PICK ep \in Nat \ {0} : ep = l.ep /\ ep > 1
      BY <2>1, Positive
    <3>2. PICK e \in 0 .. ep - 1 : e = ((KindIndex[p[2]] - 1) * ep) \div Cardinality(Expert)
      <4>1. Cardinality(Expert) = 2
        <5>1. Cardinality({"expert0"}) = 1 /\ IsFiniteSet({"expert0"})
          BY FS_Singleton
        <5>2. Cardinality({"expert0"} \cup {"expert1"}) = Cardinality({"expert0"}) + 1
          BY <5>1, FS_AddElement
        <5>3. Expert = {"expert0"} \cup {"expert1"}
          BY DEF Expert
        <5> QED
          BY <5>1, <5>2, <5>3
      <4>2. KindIndex[p[2]] - 1 \in {0, 1}
        BY <1>1, <2>1 DEF KindIndex, Kind, Expert
      <4>3. 0 * ep = 0 /\ 1 * ep = ep /\ 0 \div 2 = 0 /\ ep \div 2 \in 0 .. ep - 1
        BY <3>1
      <4>4. 0 \in 0 .. ep - 1
        BY <3>1
      <4> QED
        BY <4>1, <4>2, <4>3, <4>4
    <3>3. PICK r \in Ranks(l) : PpRank(l, r) = x[1] /\ EpRank(l, r) = e
      BY <1>3, <3>1, <3>2, ExpertInStage
    <3> QED
      BY <1>1, <3>1, <3>2, <3>3 DEF HeldKinds
  <2>2. CASE ~ (p[2] \in Expert /\ l.ep > 1)
    <3>1. PICK T \in Nat \ {0} : T = l.tp * (l.dp \div l.cores)
      BY Sizes, Positive
    <3>2. 0 \in Core(l) /\ 0 \in 0 .. T - 1
      BY Positive DEF Core
    <3>3. PICK r \in Ranks(l) : PpRank(l, r) = x[1]
      BY <1>3, <3>1, <3>2, RankInStage
    <3> QED
      BY <1>1, <2>2, <3>3 DEF HeldKinds
  <2> QED
    BY <2>1, <2>2
<1>5. p \in RankParams(l, r)
  BY <1>1, <1>2, <1>3, <1>4 DEF RankParams
<1>6. r \in Holders(l, p)
  BY <1>4, <1>5, Collected DEF Holders
<1>7. NumReplicas(ParamsMeta(l)[p]) \in Nat \ {0}
  <2>1. NumReplicas(ParamsMeta(l)[p]) = Cardinality(Blocks(l, p)) /\ Cardinality(Blocks(l, p)) \in Nat
    BY BlocksNumbered
  <2>2. r \div Slices(l, p) \in Blocks(l, p) /\ IsFiniteSet(Blocks(l, p))
    BY <1>6, HolderFacts
  <2>3. Cardinality(Blocks(l, p)) # 0
    BY <2>2, FS_EmptySet
  <2> QED
    BY <2>1, <2>3
<1> QED
  BY <1>6, <1>7

-----------------------------------------------------------------------------
(* Operations: a pair of ranks has at most one for a parameter.            *)

\* Two shards have a run of elements in common, or none.
LEMMA RegionFacts ==
  ASSUME NEW s, NEW h, s.start \in Nat, s.size \in Nat, h.start \in Nat, h.size \in Nat,
         Region(s, h) # {}
  PROVE  /\ First(Region(s, h)) \in Nat /\ Cardinality(Region(s, h)) \in Nat \ {0}
         /\ Region(s, h) = First(Region(s, h)) .. First(Region(s, h)) + Cardinality(Region(s, h)) - 1
<1>1. PICK a \in Nat, b \in Nat, c \in Nat, d \in Nat :
        a = s.start /\ b = s.start + s.size /\ c = h.start /\ d = h.start + h.size
  OBVIOUS
<1>2. Region(s, h) = (a .. b - 1) \cap (c .. d - 1)
  BY <1>1 DEF Region
<1>3. PICK f \in Nat, g \in Nat : Region(s, h) = f .. g - 1
  <2> DEFINE f == IF a < c THEN c ELSE a
             g == IF b < d THEN b ELSE d
  <2>1. f \in Nat /\ g \in Nat /\ (a .. b - 1) \cap (c .. d - 1) = f .. g - 1
    OBVIOUS
  <2> QED
    BY <1>2, <2>1
<1>4. f < g
  BY <1>3
<1>5. First(Region(s, h)) = f
  <2>1. f \in Region(s, h) /\ \A m \in Region(s, h) : f <= m
    BY <1>3, <1>4
  <2>2. \A n \in Region(s, h) : (\A m \in Region(s, h) : n <= m) => n = f
    BY <1>3, <2>1
  <2> QED
    BY <2>1, <2>2 DEF First
<1>6. Cardinality(Region(s, h)) = g - f
  <2>1. f \in Int /\ g - 1 \in Int
    OBVIOUS
  <2>2. Cardinality(f .. g - 1) = IF f > g - 1 THEN 0 ELSE g - 1 - f + 1
    BY <2>1, FS_Interval
  <2> QED
    BY <1>3, <1>4, <2>2
<1>7. g - f \in Nat \ {0} /\ f + (g - f) - 1 = g - 1
  BY <1>4
<1> QED
  BY <1>3, <1>5, <1>6, <1>7

\* Operation o moves a part of parameter p from shard s to shard h of engine e.
IsOperation(tr, i, o, p, e, s, h) ==
  /\ p \in Param /\ e \in 0 .. NumEngines - 1 /\ s \in ParamsMeta(tr)[p] /\ h \in ParamsMeta(i)[p]
  /\ Assigned(ParamsMeta(tr)[p], ParamsMeta(i)[p], e, s, h)
  /\ o = Operation(i, p, e, s, h)

\* The operations of an exchange, and those between two ranks.
AllOperations(tr, i) == Operations(i, ParamsMeta(tr), ParamsMeta(i))
PairOperations(tr, i, t, q) == {o \in AllOperations(tr, i) : o.send = t /\ o.recv = q}

\* The operations of the plan.
LEMMA OperationsAre ==
  ASSUME NEW tr, NEW i, NEW o
  PROVE  o \in AllOperations(tr, i) <=> \E p, e, s, h : IsOperation(tr, i, o, p, e, s, h)
<1> DEFINE Of(p, e, s) ==
             {Operation(i, p, e, s, h) :
                h \in {x \in ParamsMeta(i)[p] : Assigned(ParamsMeta(tr)[p], ParamsMeta(i)[p], e, s, x)}}
           OfName(p, e) == UNION {Of(p, e, s) : s \in ParamsMeta(tr)[p]}
<1>0. AllOperations(tr, i) = UNION {OfName(p, e) : p \in Param, e \in 0 .. NumEngines - 1}
  BY DEF AllOperations, Operations
<1>2. ASSUME NEW p, NEW e, NEW s
      PROVE  o \in Of(p, e, s) <=>
               \E h \in ParamsMeta(i)[p] :
                 Assigned(ParamsMeta(tr)[p], ParamsMeta(i)[p], e, s, h) /\ o = Operation(i, p, e, s, h)
  OBVIOUS
<1> HIDE DEF Of
<1>3. \A p, e : o \in OfName(p, e) <=> \E s \in ParamsMeta(tr)[p] : o \in Of(p, e, s)
  OBVIOUS
<1> HIDE DEF OfName
<1>1. o \in AllOperations(tr, i) <=>
        \E p \in Param, e \in 0 .. NumEngines - 1 : \E s \in ParamsMeta(tr)[p] : o \in Of(p, e, s)
  BY <1>0, <1>3
<1> QED
  BY <1>1, <1>2 DEF IsOperation

\* A rank of the update is a rank of an engine.
LEMMA EngineRank ==
  ASSUME NEW i, Regular(i), NEW e \in 0 .. NumEngines - 1, NEW r \in Ranks(i)
  PROVE  /\ Splits(InferTransferRank(i, e, r), WorldSize(i), e, r)
         /\ InferTransferRank(i, e, r) \in InferRank(i)
<1>1. PICK W \in Nat \ {0}, n \in Nat \ {0} : W = WorldSize(i) /\ n = NumEngines
  BY Sizes, TransferPlanAssumption
<1>2. e \in Nat /\ e < n /\ r \in 0 .. W - 1
  BY <1>1 DEF Ranks
<1>3. PICK x \in Nat, y \in Nat : x = e * W /\ y = n * W /\ x + W <= y
  BY <1>1, <1>2, MultipleLess
<1>4. InferTransferRank(i, e, r) = r + x /\ r + x = x + r
  BY <1>1, <1>2, <1>3 DEF InferTransferRank
<1>5. r + x \in 0 .. y - 1
  BY <1>2, <1>3
<1>6. InferRank(i) = 0 .. y - 1
  BY <1>1, <1>3 DEF InferRank, InferWorldSize
<1>7. Splits(r + x, W, e, r)
  BY <1>2, <1>3, <1>4 DEF Splits
<1> QED
  BY <1>1, <1>4, <1>5, <1>6, <1>7

\* What an operation moves between which ranks.
LEMMA OperationFacts ==
  ASSUME NEW tr, Regular(tr), NEW i, Regular(i), NEW o, NEW p, NEW e, NEW s, NEW h,
         IsOperation(tr, i, o, p, e, s, h)
  PROVE  /\ o.name = p /\ o.send = s.rank + InferWorldSize(i)
         /\ s.rank \in Holders(tr, p) /\ h.rank \in Holders(i, p)
         /\ o.send \in TrainRank(tr, i) /\ o.recv \in InferRank(i)
         /\ Splits(o.recv, WorldSize(i), e, h.rank)
         /\ \E f \in Nat, c \in Nat \ {0} :
              /\ Region(s, h) = f .. f + c - 1
              /\ s.start <= f /\ f + c <= s.start + s.size
              /\ h.start <= f /\ f + c <= h.start + h.size
              /\ o.sendOffset = f - s.start /\ o.recvOffset = f - h.start /\ o.size = c
<1>1. /\ p \in Param /\ e \in 0 .. NumEngines - 1
      /\ s \in ParamsMeta(tr)[p] /\ h \in ParamsMeta(i)[p]
      /\ Region(s, h) # {} /\ o = Operation(i, p, e, s, h)
  BY DEF IsOperation, Assigned
<1>2. /\ s.rank \in Holders(tr, p) /\ s.start \in Nat /\ s.size \in Nat \ {0}
      /\ h.rank \in Holders(i, p) /\ h.start \in Nat /\ h.size \in Nat \ {0}
  BY <1>1, ShardFacts
<1>3. s.rank \in Ranks(tr) /\ h.rank \in Ranks(i)
  BY <1>2, Collected DEF Holders
<1>4. PICK f \in Nat, c \in Nat \ {0} :
        f = First(Region(s, h)) /\ c = Cardinality(Region(s, h)) /\ Region(s, h) = f .. f + c - 1
  BY <1>1, <1>2, RegionFacts
<1>5. /\ o.name = p /\ o.send = TrainTransferRank(i, s.rank) /\ o.recv = InferTransferRank(i, e, h.rank)
      /\ o.sendOffset = f - s.start /\ o.recvOffset = f - h.start /\ o.size = c
  BY <1>1, <1>4 DEF Operation
<1>6. /\ s.start <= f /\ f + c <= s.start + s.size
      /\ h.start <= f /\ f + c <= h.start + h.size
  <2>1. f \in Region(s, h) /\ f + c - 1 \in Region(s, h)
    <3>1. f \in f .. f + c - 1 /\ f + c - 1 \in f .. f + c - 1
      OBVIOUS
    <3> QED
      BY <1>4, <3>1
  <2>2. f \in s.start .. s.start + s.size - 1 /\ f + c - 1 \in s.start .. s.start + s.size - 1
        /\ f \in h.start .. h.start + h.size - 1 /\ f + c - 1 \in h.start .. h.start + h.size - 1
    BY <2>1 DEF Region
  <2> QED
    BY <1>2, <2>2
<1>7. Splits(o.recv, WorldSize(i), e, h.rank) /\ o.recv \in InferRank(i)
  BY <1>1, <1>3, <1>5, EngineRank
<1>8. o.send = s.rank + InferWorldSize(i) /\ o.send \in TrainRank(tr, i)
  <2>1. PICK x \in Nat : x = InferWorldSize(i)
    BY Sizes, TransferPlanAssumption DEF InferWorldSize
  <2>2. PICK w \in Nat : w = WorldSize(tr) /\ s.rank \in 0 .. w - 1
    BY <1>3, Sizes DEF Ranks
  <2> QED
    BY <1>5, <2>1, <2>2 DEF TrainTransferRank, TrainRank
<1> QED
  BY <1>2, <1>4, <1>5, <1>6, <1>7, <1>8

\* The receiver and the name tell the shard held, with the sender the operation.
LEMMA OneOperation ==
  ASSUME NEW tr, Regular(tr), NEW i, Regular(i), NEW p,
         NEW o1, NEW e1, NEW s1, NEW h1, IsOperation(tr, i, o1, p, e1, s1, h1),
         NEW o2, NEW e2, NEW s2, NEW h2, IsOperation(tr, i, o2, p, e2, s2, h2),
         o1.recv = o2.recv
  PROVE  /\ e1 = e2 /\ h1 = h2
         /\ o1.send = o2.send \/ s1 = s2 => o1 = o2
<1>1. /\ p \in Param
      /\ s1 \in ParamsMeta(tr)[p] /\ h1 \in ParamsMeta(i)[p] /\ o1 = Operation(i, p, e1, s1, h1)
      /\ s2 \in ParamsMeta(tr)[p] /\ h2 \in ParamsMeta(i)[p] /\ o2 = Operation(i, p, e2, s2, h2)
  BY DEF IsOperation
<1>2. /\ s1 = Shard(tr, p, s1.rank) /\ h1 = Shard(i, p, h1.rank)
      /\ s2 = Shard(tr, p, s2.rank) /\ h2 = Shard(i, p, h2.rank)
  BY <1>1, ShardFacts
<1>3. Splits(o1.recv, WorldSize(i), e1, h1.rank)
  BY OperationFacts
<1>4. Splits(o1.recv, WorldSize(i), e2, h2.rank)
  BY OperationFacts
<1>5. e1 = e2 /\ h1.rank = h2.rank
  <2>1. o1.recv \div WorldSize(i) = e1 /\ o1.recv % WorldSize(i) = h1.rank
    BY <1>3, SplitsUnique
  <2>2. o1.recv \div WorldSize(i) = e2 /\ o1.recv % WorldSize(i) = h2.rank
    BY <1>4, SplitsUnique
  <2> QED
    BY <2>1, <2>2
<1>6. o1.send = o2.send => s1.rank = s2.rank
  <2>1. /\ o1.send = s1.rank + InferWorldSize(i) /\ s1.rank \in Holders(tr, p)
        /\ o2.send = s2.rank + InferWorldSize(i) /\ s2.rank \in Holders(tr, p)
    BY OperationFacts
  <2>2. PICK x \in Nat : x = InferWorldSize(i)
    BY Sizes, TransferPlanAssumption DEF InferWorldSize
  <2>3. s1.rank \in Nat /\ s2.rank \in Nat
    BY <1>1, <2>1, HolderFacts
  <2> QED
    BY <2>1, <2>2, <2>3
<1> QED
  BY <1>1, <1>2, <1>5, <1>6

\* Names are sorted by layer and kind, and no two alike.
LEMMA NamesOrdered ==
  /\ \A p \in Param : NameOrder(p) \in 0 .. NumLayers * 5 - 1
  /\ \A p, q \in Param : NameOrder(p) = NameOrder(q) => p = q
<1>1. Cardinality(Kind) = 5
  <2> DEFINE a == {"attention"}
             b == a \cup {"expert0"}
             c == b \cup {"expert1"}
             d == c \cup {"mlp"}
             e == d \cup {"norm"}
  <2>1. IsFiniteSet(a) /\ Cardinality(a) = 1
    BY FS_Singleton
  <2>2. IsFiniteSet(b) /\ Cardinality(b) = Cardinality(a) + 1
    BY <2>1, FS_AddElement
  <2>3. IsFiniteSet(c) /\ Cardinality(c) = Cardinality(b) + 1
    BY <2>2, FS_AddElement
  <2>4. IsFiniteSet(d) /\ Cardinality(d) = Cardinality(c) + 1
    BY <2>3, FS_AddElement
  <2>5. IsFiniteSet(e) /\ Cardinality(e) = Cardinality(d) + 1
    BY <2>4, FS_AddElement
  <2>6. Kind = e
    BY DEF Kind
  <2> HIDE DEF a, b, c, d, e
  <2> QED
    BY <2>1, <2>2, <2>3, <2>4, <2>5, <2>6
<1>2. \A k \in Kind : KindIndex[k] \in 0 .. 4
  BY DEF KindIndex, Kind
<1>3. \A k, j \in Kind : KindIndex[k] = KindIndex[j] => k = j
  BY DEF KindIndex, Kind
<1>4. ASSUME NEW p \in Param
      PROVE  /\ p[1] \in 0 .. NumLayers - 1 /\ p[2] \in Kind /\ p = <<p[1], p[2]>>
             /\ NameOrder(p) = p[1] * 5 + KindIndex[p[2]]
  BY <1>1 DEF Param, Layer, NameOrder
<1>5. \A n \in 0 .. NumLayers - 1, k \in 0 .. 4 : n * 5 + k \in 0 .. NumLayers * 5 - 1
  BY ParamMetaAssumption
<1>6. \A n, m \in 0 .. NumLayers - 1, k, j \in 0 .. 4 : n * 5 + k = m * 5 + j => n = m /\ k = j
  BY ParamMetaAssumption
<1> QED
  BY <1>2, <1>3, <1>4, <1>5, <1>6

\* Each name has at most one operation of a pair, and the sort goes by name.
LEMMA PairOrdered ==
  ASSUME NEW tr, Regular(tr), NEW i, Regular(i), NEW t, NEW q
  PROVE  LET ops == PairOperations(tr, i, t, q)
             key == [o \in ops |-> NameOrder(o.name)]
         IN  /\ IsFiniteSet(ops) /\ key \in Injection(ops, Nat)
             /\ \A a, b \in ops : OperationBefore(a, b) <=> key[a] < key[b]
<1> DEFINE ops == PairOperations(tr, i, t, q)
           key == [o \in ops |-> NameOrder(o.name)]
           Keys == 0 .. NumLayers * 5 - 1
<1>1. ASSUME NEW o \in ops
      PROVE  o.name \in Param /\ o.sendOffset \in Int /\ o.recvOffset \in Int
  <2>1. PICK p, e, s, h : IsOperation(tr, i, o, p, e, s, h)
    BY OperationsAre DEF PairOperations
  <2>2. p \in Param /\ s.start \in Nat /\ h.start \in Nat
    BY <2>1, ShardFacts DEF IsOperation
  <2> QED
    BY <2>1, <2>2, OperationFacts
<1>2. ASSUME NEW a \in ops, NEW b \in ops, a.name = b.name PROVE a = b
  <2>1. PICK p, e, s, h : IsOperation(tr, i, a, p, e, s, h)
    BY OperationsAre DEF PairOperations
  <2>2. PICK p2, e2, s2, h2 : IsOperation(tr, i, b, p2, e2, s2, h2)
    BY OperationsAre DEF PairOperations
  <2>3. p = a.name /\ p2 = b.name
    BY <2>1, <2>2, OperationFacts
  <2>4. a.recv = b.recv /\ a.send = b.send
    BY DEF PairOperations
  <2> QED
    BY <1>2, <2>1, <2>2, <2>3, <2>4, OneOperation
<1> HIDE DEF ops
<1>3. \A a, b \in ops : key[a] = key[b] => a = b
  BY <1>1, <1>2, NamesOrdered
<1>4. key \in [ops -> Keys]
  BY <1>1, NamesOrdered
<1>5. \A k \in Keys : k \in Nat
  BY ParamMetaAssumption
<1>6. key \in Injection(ops, Keys) /\ key \in Injection(ops, Nat)
  <2>1. key \in [ops -> Nat]
    BY <1>4, <1>5
  <2> QED
    BY <1>3, <1>4, <2>1, Fun_IsInj
<1>7. IsFiniteSet(ops)
  <2>1. NumLayers * 5 - 1 \in Int
    BY ParamMetaAssumption
  <2>2. IsFiniteSet(Keys)
    BY <2>1, FS_Interval
  <2> QED
    BY <1>6, <2>2, FS_Injection
<1>8. ASSUME NEW a \in ops, NEW b \in ops PROVE OperationBefore(a, b) <=> key[a] < key[b]
  <2>1. CASE a.name = b.name
    <3>1. a = b
      BY <1>2, <2>1
    <3>2. ~ (NameOrder(a.name) < NameOrder(a.name))
      BY <1>4, <1>5
    <3> QED
      BY <1>1, <3>1, <3>2 DEF OperationBefore
  <2>2. CASE a.name # b.name
    BY <2>2 DEF OperationBefore
  <2> QED
    BY <2>1, <2>2
<1> QED
  BY <1>6, <1>7, <1>8 DEF ops

\* A sorted list has every operation, once.
LEMMA SortedEnumerates ==
  ASSUME NEW ops, IsFiniteSet(ops), NEW key \in Injection(ops, Nat),
         \A a, b \in ops : OperationBefore(a, b) <=> key[a] < key[b]
  PROVE  /\ Cardinality(ops) \in Nat
         /\ Sorted(ops) \in [1 .. Cardinality(ops) -> ops]
         /\ \A j, k \in DOMAIN Sorted(ops) : Sorted(ops)[j] = Sorted(ops)[k] => j = k
         /\ \A o \in ops : \E k \in DOMAIN Sorted(ops) : Sorted(ops)[k] = o
<1> DEFINE N == Cardinality(ops)
           rank == Numbering(ops, key)
<1>1. /\ N \in Nat /\ rank \in [ops -> 0 .. N - 1]
      /\ \A a, b \in ops : rank[a] = rank[b] => a = b
      /\ \A n \in 0 .. N - 1 : \E a \in ops : rank[a] = n
  BY Ranking
<1>2. ASSUME NEW o \in ops PROVE Cardinality({x \in ops : OperationBefore(x, o)}) = rank[o]
  <2>1. {x \in ops : OperationBefore(x, o)} = {x \in ops : key[x] < key[o]}
    OBVIOUS
  <2> QED
    BY <2>1 DEF Numbering
<1> HIDE DEF rank, N
<1> DEFINE before(o) == Cardinality({x \in ops : OperationBefore(x, o)})
<1>3. Sorted(ops) = [k \in 1 .. N |-> CHOOSE o \in ops : before(o) = k - 1]
  BY DEF Sorted, N
<1>9. \A o \in ops : before(o) = rank[o]
  BY <1>2
<1> HIDE DEF before
<1>4. ASSUME NEW k \in 1 .. N PROVE Sorted(ops)[k] \in ops /\ rank[Sorted(ops)[k]] = k - 1
  <2>1. k - 1 \in 0 .. N - 1
    BY <1>1
  <2>2. \E o \in ops : rank[o] = k - 1
    BY <1>1, <2>1
  <2>3. Sorted(ops)[k] = CHOOSE o \in ops : before(o) = k - 1
    BY <1>3
  <2> QED
    BY <1>9, <2>2, <2>3
<1>5. Sorted(ops) \in [1 .. N -> ops] /\ DOMAIN Sorted(ops) = 1 .. N
  BY <1>3, <1>4
<1>6. ASSUME NEW j \in 1 .. N, NEW k \in 1 .. N, Sorted(ops)[j] = Sorted(ops)[k] PROVE j = k
  <2>1. j - 1 = k - 1
    BY <1>4, <1>6
  <2> QED
    BY <1>1, <2>1
<1>7. ASSUME NEW o \in ops PROVE \E k \in 1 .. N : Sorted(ops)[k] = o
  <2>1. PICK k \in 1 .. N : rank[o] = k - 1
    <3>1. rank[o] \in 0 .. N - 1
      BY <1>1
    <3>2. PICK n \in 0 .. N - 1 : n = rank[o]
      BY <3>1
    <3>3. n + 1 \in 1 .. N /\ n = n + 1 - 1
      BY <1>1
    <3> QED
      BY <3>2, <3>3
  <2> QED
    BY <1>1, <1>4, <2>1
<1> QED
  BY <1>1, <1>5, <1>6, <1>7 DEF N

-----------------------------------------------------------------------------
(* What the halves of a pair say.                                          *)

\* What training rank t sends to inference rank q.
Half(tr, i, t, q) == Sorted(PairOperations(tr, i, t, q))

\* Both halves are made of the operations of the pair.
LEMMA HalvesAgree ==
  ASSUME NEW tr, NEW i, NEW t, NEW q
  PROVE  /\ SendHalf(AllOperations(tr, i), t, q) = Half(tr, i, t, q)
         /\ RecvHalf(AllOperations(tr, i), q, t) = Half(tr, i, t, q)
<1>1. {o \in AllOperations(tr, i) : o.recv = q /\ o.send = t} = PairOperations(tr, i, t, q)
  BY DEF PairOperations
<1> QED
  BY <1>1 DEF SendHalf, RecvHalf, Half, PairOperations

\* A half lists the operations of its pair, each once.
LEMMA HalfLists ==
  ASSUME NEW tr, Regular(tr), NEW i, Regular(i), NEW t, NEW q
  PROVE  /\ \E n \in Nat : Half(tr, i, t, q) \in Seq(PairOperations(tr, i, t, q))
                           /\ DOMAIN Half(tr, i, t, q) = 1 .. n
         /\ \A k \in DOMAIN Half(tr, i, t, q) :
              \E p, e, s, h : /\ IsOperation(tr, i, Half(tr, i, t, q)[k], p, e, s, h)
                              /\ Half(tr, i, t, q)[k].send = t /\ Half(tr, i, t, q)[k].recv = q
         /\ \A j, k \in DOMAIN Half(tr, i, t, q) : Half(tr, i, t, q)[j] = Half(tr, i, t, q)[k] => j = k
         /\ \A o, p, e, s, h : IsOperation(tr, i, o, p, e, s, h) /\ o.send = t /\ o.recv = q =>
              \E k \in DOMAIN Half(tr, i, t, q) : Half(tr, i, t, q)[k] = o
<1> DEFINE ops == PairOperations(tr, i, t, q)
           key == [o \in ops |-> NameOrder(o.name)]
           half == Half(tr, i, t, q)
<1>1. /\ IsFiniteSet(ops) /\ key \in Injection(ops, Nat)
      /\ \A a, b \in ops : OperationBefore(a, b) <=> key[a] < key[b]
  BY PairOrdered
<1>2. /\ Cardinality(ops) \in Nat
      /\ half \in [1 .. Cardinality(ops) -> ops]
      /\ \A j, k \in DOMAIN half : half[j] = half[k] => j = k
      /\ \A o \in ops : \E k \in DOMAIN half : half[k] = o
  <2> HIDE DEF key, ops
  <2>1. /\ Cardinality(ops) \in Nat
        /\ Sorted(ops) \in [1 .. Cardinality(ops) -> ops]
        /\ \A j, k \in DOMAIN Sorted(ops) : Sorted(ops)[j] = Sorted(ops)[k] => j = k
        /\ \A o \in ops : \E k \in DOMAIN Sorted(ops) : Sorted(ops)[k] = o
    BY <1>1, SortedEnumerates
  <2>2. half = Sorted(ops)
    BY DEF Half, ops
  <2> QED
    BY <2>1, <2>2
<1> HIDE DEF half
<1>3. \A o \in ops : (\E p, e, s, h : IsOperation(tr, i, o, p, e, s, h)) /\ o.send = t /\ o.recv = q
  BY OperationsAre DEF PairOperations
<1>4. \A o, p, e, s, h : IsOperation(tr, i, o, p, e, s, h) /\ o.send = t /\ o.recv = q => o \in ops
  BY OperationsAre DEF PairOperations
<1> HIDE DEF ops
<1>5. \E n \in Nat : half \in Seq(ops) /\ DOMAIN half = 1 .. n
  BY <1>2
<1>6. \A k \in DOMAIN half : half[k] \in ops
  BY <1>2
<1>7. \A k \in DOMAIN half :
        (\E p, e, s, h : IsOperation(tr, i, half[k], p, e, s, h)) /\ half[k].send = t /\ half[k].recv = q
  BY <1>3, <1>6
<1>8. \A o, p, e, s, h : IsOperation(tr, i, o, p, e, s, h) /\ o.send = t /\ o.recv = q =>
        \E k \in DOMAIN half : half[k] = o
  BY <1>2, <1>4
<1> QED
  BY <1>2, <1>5, <1>7, <1>8 DEF half, ops

\* The elements of the tensors of an inference rank.
Elements(i, q) ==
  UNION {{p} \X (0 .. Shape(i, p) - 1) : p \in RankParams(i, q % WorldSize(i))}

\* The element of the model that belongs at an element of a tensor.
Belongs(i, q, x) == <<<<x[1], TensorOffset(i, x[1], q % WorldSize(i)) + x[2]>>>>

\* Operation o writes element x.
Writes(o, x) == x[1] = o.name /\ x[2] >= o.recvOffset /\ x[2] < o.recvOffset + o.size

\* An element is of a parameter that the rank holds, and of the model.
LEMMA ElementFacts ==
  ASSUME NEW i, Regular(i), NEW q \in InferRank(i), NEW x \in Elements(i, q)
  PROVE  /\ x[1] \in Param /\ x[2] \in Nat /\ x = <<x[1], x[2]>>
         /\ q % WorldSize(i) \in Holders(i, x[1])
         /\ q \div WorldSize(i) \in 0 .. NumEngines - 1
         /\ q = InferTransferRank(i, q \div WorldSize(i), q % WorldSize(i))
         /\ \E b \in Nat : b = TensorOffset(i, x[1], q % WorldSize(i)) /\ b + x[2] < Length
                           /\ x[2] < Shape(i, x[1])
<1>1. PICK W \in Nat \ {0}, n \in Nat \ {0} : W = WorldSize(i) /\ n = NumEngines
  BY Sizes, TransferPlanAssumption
<1>2. q \in Nat /\ q < n * W
  BY <1>1 DEF InferRank, InferWorldSize
<1>3. PICK e \in Nat, r \in 0 .. W - 1 : e = q \div W /\ r = q % W /\ q = e * W + r
  BY <1>2, Euclid
<1>4. e < n
  <2>1. SUFFICES ASSUME n <= e PROVE FALSE
    BY <1>1, <1>3
  <2>2. PICK y \in Nat, z \in Nat : y = n * W /\ z = e * W /\ y <= z
    BY <1>1, <1>3, <2>1
  <2> QED
    BY <1>2, <1>3, <2>2
<1>5. r \in Ranks(i)
  BY <1>1, <1>3 DEF Ranks
<1>6. q = InferTransferRank(i, e, r)
  <2>1. e * W \in Nat /\ e * W + r = r + e * W
    BY <1>3
  <2> QED
    BY <1>1, <1>3, <2>1 DEF InferTransferRank
<1>7. PICK p \in RankParams(i, r) : x \in {p} \X (0 .. Shape(i, p) - 1)
  BY <1>1, <1>3 DEF Elements
<1>8. p \in Param /\ r \in Holders(i, p)
  BY <1>5, <1>7, TensorIsNamed, Collected DEF Holders
<1>9. PICK z \in Nat \ {0}, d \in Nat \ {0} : z = Shape(i, p) /\ d = Slices(i, p) /\ Length = d * z
  BY <1>8, ShapeFacts, SlicesDivide
<1>10. x[1] = p /\ x[2] \in 0 .. z - 1 /\ x = <<x[1], x[2]>>
  BY <1>7, <1>9
<1>11. PICK k \in Nat : k = r % d /\ k < d
  BY <1>3, <1>9
<1>12. PICK b \in Nat : b = k * z /\ b + z <= Length
  <2>1. PICK f \in Nat, g \in Nat : f = k * z /\ g = d * z /\ f + z <= g
    BY <1>11, MultipleLess
  <2> QED
    BY <1>9, <2>1
<1>13. b = TensorOffset(i, p, r)
  BY <1>9, <1>11, <1>12 DEF TensorOffset, Slice
<1>14. b + x[2] < Length /\ x[2] < z /\ x[2] \in Nat
  BY <1>9, <1>10, <1>12, ParamMetaAssumption
<1>15. e \in 0 .. NumEngines - 1
  BY <1>1, <1>3, <1>4
<1> QED
  BY <1>1, <1>3, <1>6, <1>8, <1>9, <1>10, <1>13, <1>14, <1>15

\* An operation moves to an element the element of the model that belongs there.
LEMMA OperationRight ==
  ASSUME NEW tr, Regular(tr), NEW i, Regular(i), NEW q \in InferRank(i), NEW x \in Elements(i, q),
         NEW o, NEW p, NEW e, NEW s, NEW h, IsOperation(tr, i, o, p, e, s, h), o.recv = q, Writes(o, x)
  PROVE  LET r == o.send - InferWorldSize(i) IN
         <<<<<<TensorLayer(tr, r, o.name), o.name[2]>>,
             TensorOffset(tr, o.name, r) + (o.sendOffset + x[2] - o.recvOffset)>>>> = Belongs(i, q, x)
<1>1. p \in Param /\ s \in ParamsMeta(tr)[p] /\ h \in ParamsMeta(i)[p]
  BY DEF IsOperation
<1>2. /\ o.name = p /\ o.send = s.rank + InferWorldSize(i)
      /\ s.rank \in Holders(tr, p) /\ h.rank \in Holders(i, p)
      /\ Splits(q, WorldSize(i), e, h.rank)
  BY OperationFacts
<1>3. PICK f \in Nat : /\ o.sendOffset = f - s.start /\ o.recvOffset = f - h.start
  BY OperationFacts
<1>4. /\ s.start \in Nat /\ s.start = TensorOffset(tr, p, s.rank)
      /\ h.start \in Nat /\ h.start = TensorOffset(i, p, h.rank)
  BY <1>1, ShardFacts
<1>5. x[1] = p /\ x[2] \in Nat
  BY <1>2, ElementFacts DEF Writes
<1>6. s.rank \in Ranks(tr) /\ p \in RankParams(tr, s.rank) /\ s.rank \in Nat
  BY <1>1, <1>2, Collected, HolderFacts DEF Holders
<1>7. o.send - InferWorldSize(i) = s.rank
  <2>1. PICK w \in Nat : w = InferWorldSize(i)
    BY Sizes, TransferPlanAssumption DEF InferWorldSize
  <2> QED
    BY <1>2, <1>6, <2>1
<1>8. TensorLayer(tr, s.rank, p) = p[1] /\ p = <<p[1], p[2]>>
  BY <1>1, <1>6, TensorIsNamed DEF Param
<1>9. q % WorldSize(i) = h.rank
  BY <1>2, SplitsUnique
<1>10. s.start + (f - s.start + x[2] - (f - h.start)) = h.start + x[2]
  BY <1>4, <1>5
<1>11. TensorOffset(tr, p, s.rank) + (o.sendOffset + x[2] - o.recvOffset)
         = TensorOffset(i, p, h.rank) + x[2]
  BY <1>3, <1>4, <1>10
<1> QED
  BY <1>2, <1>5, <1>7, <1>8, <1>9, <1>11 DEF Belongs

\* Every element is written by an operation.
LEMMA EveryElementWritten ==
  ASSUME NEW tr, Regular(tr), NEW i, Regular(i), NEW q \in InferRank(i), NEW x \in Elements(i, q)
  PROVE  \E o, p, e, s, h :
           IsOperation(tr, i, o, p, e, s, h) /\ o.recv = q /\ o.send \in TrainRank(tr, i) /\ Writes(o, x)
<1> DEFINE r == q % WorldSize(i)
           e == q \div WorldSize(i)
           p == x[1]
           h == Shard(i, p, r)
           sent == ParamsMeta(tr)[p]
           held == ParamsMeta(i)[p]
           n == AssignedReplica(sent, held, e, h.replica)
<1>1. /\ p \in Param /\ x[2] \in Nat /\ r \in Holders(i, p) /\ e \in 0 .. NumEngines - 1
      /\ q = InferTransferRank(i, e, r)
  BY ElementFacts
<1>2. PICK b \in Nat : b = TensorOffset(i, p, r) /\ b + x[2] < Length /\ x[2] < Shape(i, p)
  BY ElementFacts
<1> HIDE DEF p, r, e
<1>3. h \in held /\ h.rank = r
  BY <1>1, ShardsOf
<1> HIDE DEF h
<1>4. h.start = b /\ h.size = Shape(i, p) /\ h.size \in Nat
  BY <1>1, <1>2, <1>3, ShardFacts
<1>5. h.replica \in Nat /\ NumReplicas(held) \in Nat
  <2>1. h.rank \in Holders(i, p) /\ h.replica = BlockNumber(i, p, h.rank \div Slices(i, p))
    BY <1>1, <1>3, ShardFacts
  <2>2. h.rank \div Slices(i, p) \in Blocks(i, p)
    BY <1>1, <2>1, HolderFacts
  <2>3. h.replica \in 0 .. Cardinality(Blocks(i, p)) - 1
    BY <1>1, <2>1, <2>2, BlocksNumbered
  <2> QED
    BY <1>1, <2>3, BlocksNumbered
<1>6. n \in 0 .. NumReplicas(sent) - 1
  <2>1. PICK N \in Nat \ {0} : N = NumReplicas(sent)
    BY <1>1, EveryParamHeld
  <2>2. PICK m \in Nat : m = e * NumReplicas(held) + h.replica
    BY <1>1, <1>5
  <2>3. m % N \in 0 .. N - 1
    OBVIOUS
  <2> HIDE DEF sent, held
  <2> QED
    BY <2>1, <2>2, <2>3 DEF AssignedReplica
<1>7. PICK j \in Nat : j = b + x[2] /\ j \in 0 .. Length - 1
  BY <1>1, <1>2, ParamMetaAssumption
<1>8. PICK s \in sent : s.replica = n /\ j \in s.start .. s.start + s.size - 1
  BY <1>1, <1>6, <1>7, ShardsTile
<1>9. j \in Region(s, h)
  <2>1. j \in h.start .. h.start + h.size - 1
    BY <1>1, <1>2, <1>4, <1>7
  <2> QED
    BY <1>8, <2>1 DEF Region
<1> DEFINE o == Operation(i, p, e, s, h)
<1>10. IsOperation(tr, i, o, p, e, s, h)
  BY <1>1, <1>3, <1>8, <1>9 DEF IsOperation, Assigned
<1>11. o.recv = q
  BY <1>1, <1>3 DEF Operation
<1> HIDE DEF o
<1>12. o.send \in TrainRank(tr, i) /\ o.name = p
  BY <1>10, OperationFacts
<1>13. PICK f \in Nat, c \in Nat \ {0} :
         Region(s, h) = f .. f + c - 1 /\ o.recvOffset = f - h.start /\ o.size = c
  BY <1>10, OperationFacts
<1>14. Writes(o, x)
  <2>1. f <= j /\ j < f + c
    BY <1>7, <1>9, <1>13
  <2>2. x[2] = j - b /\ o.recvOffset = f - b
    BY <1>1, <1>4, <1>7, <1>13
  <2>3. x[2] >= o.recvOffset /\ x[2] < o.recvOffset + o.size
    BY <1>7, <1>13, <2>1, <2>2
  <2> QED
    BY <1>12, <2>3 DEF Writes, p
<1> QED
  BY <1>10, <1>11, <1>12, <1>14

\* Two operations that write to the same element are one.
LEMMA OneWriter ==
  ASSUME NEW tr, Regular(tr), NEW i, Regular(i), NEW p,
         NEW o1, NEW e1, NEW s1, NEW h1, IsOperation(tr, i, o1, p, e1, s1, h1),
         NEW o2, NEW e2, NEW s2, NEW h2, IsOperation(tr, i, o2, p, e2, s2, h2),
         o1.recv = o2.recv
  PROVE  \/ o1 = o2
         \/ o1.recvOffset + o1.size <= o2.recvOffset
         \/ o2.recvOffset + o2.size <= o1.recvOffset
<1>1. e1 = e2 /\ h1 = h2 /\ (s1 = s2 => o1 = o2)
  BY OneOperation
<1>2. /\ p \in Param /\ s1 \in ParamsMeta(tr)[p] /\ s2 \in ParamsMeta(tr)[p] /\ h1 \in ParamsMeta(i)[p]
      /\ s1.replica = s2.replica
  BY <1>1 DEF IsOperation, Assigned
<1>3. PICK f1 \in Nat, c1 \in Nat \ {0} :
        Region(s1, h1) = f1 .. f1 + c1 - 1 /\ o1.recvOffset = f1 - h1.start /\ o1.size = c1
  BY OperationFacts
<1>4. PICK f2 \in Nat, c2 \in Nat \ {0} :
        Region(s2, h1) = f2 .. f2 + c2 - 1 /\ o2.recvOffset = f2 - h1.start /\ o2.size = c2
  BY <1>1, OperationFacts
<1>5. PICK a \in Nat : a = h1.start
  BY <1>2, ShardFacts
<1>6. SUFFICES ASSUME f2 < f1 + c1, f1 < f2 + c2 PROVE s1 = s2
  BY <1>1, <1>3, <1>4, <1>5
<1>7. PICK j \in Nat : j \in f1 .. f1 + c1 - 1 /\ j \in f2 .. f2 + c2 - 1
  <2>1. CASE f1 <= f2
    BY <1>6, <2>1
  <2>2. CASE f2 < f1
    BY <1>6, <2>2
  <2> QED
    BY <2>1, <2>2
<1>8. j \in s1.start .. s1.start + s1.size - 1 /\ j \in s2.start .. s2.start + s2.size - 1
  BY <1>3, <1>4, <1>7 DEF Region
<1> QED
  BY <1>2, <1>8, ShardsApart

-----------------------------------------------------------------------------
(* The inductive invariant.                                                *)

\* Both halves of every pair list the operations of the pair.
PlansFollow ==
  /\ train \in TrainLayouts /\ infer \in InferLayouts
  /\ sendPlan = [t \in TrainRank(train, infer) |-> [q \in InferRank(infer) |-> Half(train, infer, t, q)]]
  /\ recvPlan = [q \in InferRank(infer) |-> [t \in TrainRank(train, infer) |-> Half(train, infer, t, q)]]

\* The elements of the tensors are as they were or as they belong.
TensorsFollow ==
  /\ exchanged \subseteq TrainRank(train, infer) \X InferRank(infer)
  /\ received = [q \in InferRank(infer) |-> [x \in Elements(infer, q) |-> received[q][x]]]
  /\ \A q \in InferRank(infer) : \A x \in Elements(infer, q) :
       received[q][x] \in {NoData, Belongs(infer, q, x)}

\* What the operations of an exchanged pair write has been written.
ExchangedFollow ==
  \A q \in InferRank(infer) : \A t \in TrainRank(train, infer) :
    <<t, q>> \in exchanged =>
      \A k \in DOMAIN recvPlan[q][t] : \A x \in Elements(infer, q) :
        Writes(recvPlan[q][t][k], x) => received[q][x] # NoData

IInv == PlansFollow /\ TensorsFollow /\ ExchangedFollow

\* The layouts of an exchange divide evenly.
LEMMA LayoutsRegular ==
  ASSUME PlansFollow
  PROVE  Regular(train) /\ Regular(infer)
  BY TransferPlanAssumption DEF PlansFollow

\* What an operation delivers to an element, if it writes there, belongs there.
LEMMA DeliverRight ==
  ASSUME PlansFollow, NEW q \in InferRank(infer), NEW t \in TrainRank(train, infer),
         NEW k \in DOMAIN recvPlan[q][t], NEW x \in Elements(infer, q)
  PROVE  /\ ~ Writes(recvPlan[q][t][k], x) => Deliver(t, q, k, x) = <<>>
         /\ Writes(recvPlan[q][t][k], x) => Deliver(t, q, k, x) = Belongs(infer, q, x)
<1> DEFINE o == Half(train, infer, t, q)[k]
<1>1. sendPlan[t][q] = Half(train, infer, t, q) /\ recvPlan[q][t] = Half(train, infer, t, q)
  BY DEF PlansFollow
<1>2. Regular(train) /\ Regular(infer)
  BY LayoutsRegular
<1>3. PICK p, e, s, h : IsOperation(train, infer, o, p, e, s, h) /\ o.send = t /\ o.recv = q
  BY <1>1, <1>2, HalfLists
<1>4. Deliver(t, q, k, x) = IF Writes(o, x) THEN <<Element(t, o.name, o.sendOffset + x[2] - o.recvOffset)>>
                            ELSE <<>>
  BY <1>1 DEF Deliver, Writes
<1> HIDE DEF o
<1>5. ASSUME Writes(o, x)
      PROVE  <<Element(t, o.name, o.sendOffset + x[2] - o.recvOffset)>> = Belongs(infer, q, x)
  BY <1>2, <1>3, <1>5, OperationRight DEF Element
<1> QED
  BY <1>1, <1>4, <1>5 DEF o

\* An element of the model is not the absence of one.
LEMMA BelongsIsData ==
  ASSUME NEW i, NEW q, NEW x
  PROVE  Belongs(i, q, x) # NoData
<1>1. \A a : <<a>> # <<>>
  OBVIOUS
<1> QED
  BY <1>1 DEF Belongs, NoData

\* It holds when the plans are made ...
LEMMA InitInv == Init => IInv
<1> SUFFICES ASSUME Init PROVE IInv
  OBVIOUS
<1>1. PlansFollow
  <2>1. /\ sendPlan = [t \in TrainRank(train, infer) |->
             [q \in InferRank(infer) |-> SendHalf(AllOperations(train, infer), t, q)]]
        /\ recvPlan = [q \in InferRank(infer) |->
             [t \in TrainRank(train, infer) |-> RecvHalf(AllOperations(train, infer), q, t)]]
    BY DEF Init, AllOperations
  <2>2. train \in TrainLayouts /\ infer \in InferLayouts
    BY DEF Init
  <2> QED
    BY <2>1, <2>2, HalvesAgree DEF PlansFollow
<1>2. exchanged = {} /\ received = [q \in InferRank(infer) |-> [x \in Elements(infer, q) |-> NoData]]
  BY DEF Init, Elements
<1>3. TensorsFollow
  BY <1>2 DEF TensorsFollow
<1>4. ExchangedFollow
  BY <1>2 DEF ExchangedFollow
<1> QED
  BY <1>1, <1>3, <1>4 DEF IInv

\* ... when two ranks exchange ...
LEMMA StepInv == IInv /\ [Next]_vars => IInv'
<1> SUFFICES ASSUME IInv, [Next]_vars PROVE IInv'
  OBVIOUS
<1>0. PlansFollow /\ TensorsFollow /\ ExchangedFollow
  BY DEF IInv
<1>1. ASSUME NEW q \in InferRank(infer), NEW t \in TrainRank(train, infer), Exchange(t, q)
      PROVE  IInv'
  <2> DEFINE written(x) == {Deliver(t, q, k, x) : k \in DOMAIN recvPlan[q][t]} \ {<<>>}
  <2>1. /\ exchanged' = exchanged \cup {<<t, q>>}
        /\ received' = [received EXCEPT ![q] = [x \in DOMAIN @ |->
             IF written(x) = {} THEN @[x] ELSE CHOOSE y \in written(x) : TRUE]]
        /\ UNCHANGED <<train, infer, sendPlan, recvPlan>>
    BY <1>1 DEF Exchange
  <2>2. PlansFollow'
    BY <1>0, <2>1 DEF PlansFollow
  <2>3. ASSUME NEW x \in Elements(infer, q)
        PROVE  /\ \A y \in written(x) : y = Belongs(infer, q, x)
               /\ \A k \in DOMAIN recvPlan[q][t] :
                    Writes(recvPlan[q][t][k], x) => Belongs(infer, q, x) \in written(x)
    <3>1. \A k \in DOMAIN recvPlan[q][t] :
            /\ ~ Writes(recvPlan[q][t][k], x) => Deliver(t, q, k, x) = <<>>
            /\ Writes(recvPlan[q][t][k], x) => Deliver(t, q, k, x) = Belongs(infer, q, x)
      BY <1>0, DeliverRight
    <3>2. Belongs(infer, q, x) # <<>>
      BY BelongsIsData DEF NoData
    <3> QED
      BY <3>1, <3>2
  <2> HIDE DEF written
  <2>4. /\ received' = [r \in InferRank(infer) |-> [x \in Elements(infer, r) |-> received'[r][x]]]
        /\ \A r \in InferRank(infer) \ {q} : received'[r] = received[r]
        /\ \A x \in Elements(infer, q) :
             received'[q][x] = IF written(x) = {} THEN received[q][x] ELSE CHOOSE y \in written(x) : TRUE
    <3>1. received = [r \in InferRank(infer) |-> [x \in Elements(infer, r) |-> received[r][x]]]
      BY <1>0 DEF TensorsFollow
    <3>2. DOMAIN received[q] = Elements(infer, q) /\ DOMAIN received = InferRank(infer)
      BY <3>1
    <3>3. received' = [received EXCEPT ![q] = [x \in Elements(infer, q) |->
             IF written(x) = {} THEN received[q][x] ELSE CHOOSE y \in written(x) : TRUE]]
      BY <2>1, <3>2
    <3>4. /\ DOMAIN received' = InferRank(infer)
          /\ \A r \in InferRank(infer) \ {q} : received'[r] = received[r]
          /\ received'[q] = [x \in Elements(infer, q) |->
               IF written(x) = {} THEN received[q][x] ELSE CHOOSE y \in written(x) : TRUE]
      BY <3>2, <3>3
    <3>5. \A r \in InferRank(infer) : received'[r] = [x \in Elements(infer, r) |-> received'[r][x]]
      BY <3>1, <3>4
    <3>6. received' = [r \in InferRank(infer) |-> received'[r]]
      BY <3>2, <3>3
    <3> QED
      BY <3>4, <3>5, <3>6
  <2>5. ASSUME NEW x \in Elements(infer, q)
        PROVE  /\ received'[q][x] = received[q][x] \/ received'[q][x] = Belongs(infer, q, x)
               /\ \A k \in DOMAIN recvPlan[q][t] :
                    Writes(recvPlan[q][t][k], x) => received'[q][x] = Belongs(infer, q, x)
    <3>1. CASE written(x) = {}
      BY <2>3, <2>4, <3>1
    <3>2. CASE written(x) # {}
      <4>1. received'[q][x] \in written(x)
        BY <2>4, <3>2
      <4> QED
        BY <2>3, <4>1
    <3> QED
      BY <3>1, <3>2
  <2>6. TensorsFollow'
    <3>1. exchanged' \subseteq TrainRank(train, infer) \X InferRank(infer)
      BY <1>0, <2>1 DEF TensorsFollow
    <3>2. \A r \in InferRank(infer) : \A x \in Elements(infer, r) :
            received'[r][x] \in {NoData, Belongs(infer, r, x)}
      BY <1>0, <2>4, <2>5 DEF TensorsFollow
    <3> QED
      BY <2>1, <2>4, <3>1, <3>2 DEF TensorsFollow
  <2>7. ExchangedFollow'
    <3>0. train' = train /\ infer' = infer /\ recvPlan' = recvPlan
      BY <2>1
    <3> SUFFICES ASSUME NEW r \in InferRank(infer), NEW u \in TrainRank(train, infer), <<u, r>> \in exchanged',
                        NEW k \in DOMAIN recvPlan[r][u], NEW x \in Elements(infer, r),
                        Writes(recvPlan[r][u][k], x)
                 PROVE  received'[r][x] # NoData
      BY <3>0 DEF ExchangedFollow
    <3>1. CASE r = q /\ u = t
      BY <2>5, <3>1, BelongsIsData
    <3>2. CASE ~ (r = q /\ u = t)
      <4>1. <<u, r>> \in exchanged
        BY <2>1, <3>2
      <4>2. received[r][x] # NoData
        BY <1>0, <4>1 DEF ExchangedFollow
      <4>3. CASE r = q
        BY <2>5, <4>2, <4>3, BelongsIsData
      <4>4. CASE r # q
        BY <2>4, <4>2, <4>4
      <4> QED
        BY <4>3, <4>4
    <3> QED
      BY <3>1, <3>2
  <2> QED
    BY <2>2, <2>6, <2>7 DEF IInv
<1>2. CASE UNCHANGED vars
  BY <1>2 DEF IInv, PlansFollow, TensorsFollow, ExchangedFollow, vars
<1> QED
  BY <1>1, <1>2 DEF Next

\* ... and so always.
LEMMA Invariant == Spec => []IInv
<1> QED
  BY InitInv, StepInv, PTL DEF Spec

-----------------------------------------------------------------------------
\* Every operation of a plan lies within the tensors of its two ranks.
THEOREM TypeCorrect == Spec => []TypeOK
<1>1. IInv => TypeOK
  <2> SUFFICES ASSUME IInv PROVE TypeOK
    OBVIOUS
  <2>1. PlansFollow /\ Regular(train) /\ Regular(infer)
    BY LayoutsRegular DEF IInv
  <2>2. ASSUME NEW q \in InferRank(infer), NEW t \in TrainRank(train, infer), NEW k \in DOMAIN recvPlan[q][t]
        PROVE  LET o == recvPlan[q][t][k] IN
               /\ o.name \in RankParams(infer, q % WorldSize(infer))
               /\ o.name \in RankParams(train, t - InferWorldSize(infer))
               /\ o.sendOffset + o.size <= Shape(train, o.name)
               /\ o.recvOffset + o.size <= Shape(infer, o.name)
    <3> DEFINE o == recvPlan[q][t][k]
    <3>1. recvPlan[q][t] = Half(train, infer, t, q)
      BY <2>1 DEF PlansFollow
    <3>2. PICK p, e, s, h : IsOperation(train, infer, o, p, e, s, h) /\ o.send = t /\ o.recv = q
      BY <2>1, <3>1, HalfLists
    <3> HIDE DEF o
    <3>3. p \in Param /\ s \in ParamsMeta(train)[p] /\ h \in ParamsMeta(infer)[p]
      BY <3>2 DEF IsOperation
    <3>4. /\ o.name = p /\ t = s.rank + InferWorldSize(infer)
          /\ s.rank \in Holders(train, p) /\ h.rank \in Holders(infer, p)
          /\ Splits(q, WorldSize(infer), e, h.rank)
      BY <2>1, <3>2, OperationFacts
    <3>5. PICK f \in Nat, c \in Nat \ {0} :
            /\ f + c <= s.start + s.size /\ f + c <= h.start + h.size
            /\ o.sendOffset = f - s.start /\ o.recvOffset = f - h.start /\ o.size = c
      BY <2>1, <3>2, OperationFacts
    <3>6. /\ s.start \in Nat /\ s.size \in Nat /\ s.size = Shape(train, p)
          /\ h.start \in Nat /\ h.size \in Nat /\ h.size = Shape(infer, p)
      BY <2>1, <3>3, ShardFacts
    <3>7. q % WorldSize(infer) = h.rank
      BY <3>4, SplitsUnique
    <3>8. t - InferWorldSize(infer) = s.rank
      <4>1. PICK w \in Nat : w = InferWorldSize(infer)
        BY <2>1, Sizes, TransferPlanAssumption DEF InferWorldSize
      <4>2. s.rank \in Nat
        BY <2>1, <3>3, <3>4, HolderFacts
      <4> QED
        BY <3>4, <4>1, <4>2
    <3>9. o.name \in RankParams(infer, q % WorldSize(infer))
      BY <3>4, <3>7 DEF Holders
    <3>10. o.name \in RankParams(train, t - InferWorldSize(infer))
      BY <3>4, <3>8 DEF Holders
    <3>11. o.sendOffset + o.size <= Shape(train, p) /\ o.recvOffset + o.size <= Shape(infer, p)
      BY <3>5, <3>6
    <3> QED
      BY <3>4, <3>9, <3>10, <3>11 DEF o
  <2> QED
    BY <2>2 DEF TypeOK, IInv, PlansFollow, TensorsFollow
<1> QED
  BY <1>1, Invariant, PTL

\* The k-th send and the k-th receive of a pair are the same operation.
THEOREM PairsAgreeTheorem == Spec => []PairsAgree
<1>1. IInv => PairsAgree
  BY DEF IInv, PlansFollow, PairsAgree
<1> QED
  BY <1>1, Invariant, PTL

\* What arrives at an element of a tensor is the element of the model that belongs
\* there, whatever the layouts of the two sides.
THEOREM ReceivedRightTheorem == Spec => []ReceivedRight
<1>1. IInv => ReceivedRight
  <2> SUFFICES ASSUME IInv PROVE ReceivedRight
    OBVIOUS
  <2>1. \A q \in InferRank(infer) : \A x \in Elements(infer, q) :
          received[q][x] # NoData => received[q][x] = Belongs(infer, q, x)
    BY DEF IInv, TensorsFollow
  <2>2. \A q \in InferRank(infer) : DOMAIN received[q] = Elements(infer, q)
    BY DEF IInv, TensorsFollow
  <2> QED
    BY <2>1, <2>2 DEF ReceivedRight, Belongs
<1> QED
  BY <1>1, Invariant, PTL

\* When the update is over no element of an inference tensor has its old value.
THEOREM EveryElementReceivedTheorem == Spec => []EveryElementReceived
<1>1. IInv => EveryElementReceived
  <2> SUFFICES ASSUME IInv, Done, NEW q \in InferRank(infer), NEW x \in DOMAIN received[q]
               PROVE  received[q][x] # NoData
    BY DEF EveryElementReceived
  <2>1. PlansFollow /\ TensorsFollow /\ ExchangedFollow /\ Regular(train) /\ Regular(infer)
    BY LayoutsRegular DEF IInv
  <2>2. x \in Elements(infer, q)
    BY <2>1 DEF TensorsFollow
  <2>3. PICK o, p, e, s, h :
          /\ IsOperation(train, infer, o, p, e, s, h)
          /\ o.recv = q /\ o.send \in TrainRank(train, infer) /\ Writes(o, x)
    BY <2>1, <2>2, EveryElementWritten
  <2>4. PICK t \in TrainRank(train, infer) : t = o.send
    BY <2>3
  <2>5. recvPlan[q][t] = Half(train, infer, t, q)
    BY <2>1 DEF PlansFollow
  <2>6. PICK k \in DOMAIN recvPlan[q][t] : recvPlan[q][t][k] = o
    BY <2>1, <2>3, <2>4, <2>5, HalfLists
  <2>7. recvPlan[q][t] # <<>>
    BY <2>6
  <2>8. <<t, q>> \in exchanged
    BY <2>7 DEF Done, Finished
  <2> QED
    BY <2>1, <2>2, <2>3, <2>6, <2>8 DEF ExchangedFollow
<1> QED
  BY <1>1, Invariant, PTL

\* No two operations write to the same element of a tensor.
THEOREM WrittenOnceTheorem == Spec => []WrittenOnce
<1>1. IInv => WrittenOnce
  <2> SUFFICES ASSUME IInv, NEW q \in InferRank(infer),
                      NEW t1 \in TrainRank(train, infer), NEW t2 \in TrainRank(train, infer),
                      NEW j \in DOMAIN recvPlan[q][t1], NEW k \in DOMAIN recvPlan[q][t2],
                      recvPlan[q][t1][j].name = recvPlan[q][t2][k].name
               PROVE  \/ t1 = t2 /\ j = k
                      \/ recvPlan[q][t1][j].recvOffset + recvPlan[q][t1][j].size <= recvPlan[q][t2][k].recvOffset
                      \/ recvPlan[q][t2][k].recvOffset + recvPlan[q][t2][k].size <= recvPlan[q][t1][j].recvOffset
    BY DEF WrittenOnce
  <2> DEFINE a == recvPlan[q][t1][j]
             b == recvPlan[q][t2][k]
  <2>1. PlansFollow /\ Regular(train) /\ Regular(infer)
    BY LayoutsRegular DEF IInv
  <2>2. recvPlan[q][t1] = Half(train, infer, t1, q) /\ recvPlan[q][t2] = Half(train, infer, t2, q)
    BY <2>1 DEF PlansFollow
  <2>3. PICK p1, e1, s1, h1 : IsOperation(train, infer, a, p1, e1, s1, h1) /\ a.send = t1 /\ a.recv = q
    BY <2>1, <2>2, HalfLists
  <2>4. PICK p2, e2, s2, h2 : IsOperation(train, infer, b, p2, e2, s2, h2) /\ b.send = t2 /\ b.recv = q
    BY <2>1, <2>2, HalfLists
  <2>5. a = b => t1 = t2 /\ j = k
    <3>1. a = b => t1 = t2
      BY <2>3, <2>4
    <3>2. t1 = t2 /\ a = b => j = k
      BY <2>1, <2>2, HalfLists
    <3> QED
      BY <3>1, <3>2
  <2>6. a.name = b.name
    OBVIOUS
  <2> HIDE DEF a, b
  <2>7. p1 = a.name /\ p2 = b.name
    BY <2>1, <2>3, <2>4, OperationFacts
  <2>8. \/ a = b
        \/ a.recvOffset + a.size <= b.recvOffset
        \/ b.recvOffset + b.size <= a.recvOffset
    BY <2>1, <2>3, <2>4, <2>6, <2>7, OneWriter
  <2> QED
    BY <2>5, <2>8 DEF a, b
<1> QED
  BY <1>1, Invariant, PTL
=============================================================================
