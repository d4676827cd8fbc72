----------------------- MODULE WeightConversionProofs -----------------------
\* Proofs about WeightConversion, for every set of layouts that satisfies the
\* assumptions of its modules. The names a stage gives its parameters are told
\* as a set, and what a conversion makes of one of them as the entries due
\* (EntriesOf): each conversion yields exactly those. From there
\*   Core   says that pending parameters, cache, announcements and the map of
\*          layers agree at all times, and that a group gathers in step;
\*   Truth  says that what was converted, packed and handed over is what the
\*          metadata announced.
\* Both are inductive (CoreInvariant, TruthInvariant), and the properties of
\* the module follow. For the last of them, every name of the model (IsName) is
\* given the tensor it stands for (Canon): in a layout that the conversion is
\* made for (Matching), what a training rank hands over under that name, and
\* what a worker has, is that tensor or their slice of it.
EXTENDS WeightConversion, FiniteSetTheorems, FunctionTheorems, WellFoundedInduction, TLAPS

\* Sequences.

\* A set of numbers that is not empty has a least member.
LEMMA LeastNumber ==
  ASSUME NEW T \in SUBSET Nat, T # {}
  PROVE  \E n \in T : \A m \in T : n <= m
<1> DEFINE R == {p \in Nat \X Nat : p[1] < p[2]}
<1>1. PICK n \in T : \A m \in T : ~ (<<m, n>> \in R)
  BY NatLessThanWellFounded, WFMin DEF OpToRel
<1>2. ASSUME NEW m \in T PROVE n <= m
  <2>1. <<m, n>> \in R <=> m < n
    OBVIOUS
  <2> QED
    BY <1>1, <2>1
<1> QED
  BY <1>2

\* Counting up from zero reaches every number.
LEMMA Induction ==
  ASSUME NEW T, 0 \in T, \A n \in Nat : n \in T => n + 1 \in T
  PROVE  Nat \subseteq T
<1> SUFFICES ASSUME Nat \ T # {} PROVE FALSE
  OBVIOUS
<1>1. PICK n \in Nat \ T : \A m \in Nat \ T : n <= m
  BY LeastNumber
<1> QED
  BY <1>1

\* FlattenSeq appends its sequences one at a time.
LEMMA FlattenDef ==
  ASSUME NEW seqs, Len(seqs) \in Nat, Len(seqs) # 0
  PROVE  \E f : /\ f = [i \in 1 .. Len(seqs) |-> IF i = 1 THEN seqs[i] ELSE f[i - 1] \o seqs[i]]
                /\ FlattenSeq(seqs) = f[Len(seqs)]
<1> DEFINE n == Len(seqs)
           Step(g, i) == IF i = 1 THEN seqs[i] ELSE g[i - 1] \o seqs[i]
           flatten[i \in 1 .. n] == Step(flatten, i)
           T == {m \in Nat : \E g : \A i \in 1 .. n : i <= m => g[i] = Step(g, i)}
<1>1. 0 \in T
  OBVIOUS
<1>2. ASSUME NEW m \in Nat, m \in T PROVE m + 1 \in T
  <2>1. PICK g : \A i \in 1 .. n : i <= m => g[i] = Step(g, i)
    BY <1>2
  <2> DEFINE h == [i \in 1 .. n |-> Step(g, i)]
  <2>2. \A i \in 1 .. n : i <= m + 1 => h[i] = Step(h, i)
    <3> SUFFICES ASSUME NEW i \in 1 .. n, i <= m + 1 PROVE h[i] = Step(h, i)
      OBVIOUS
    <3>1. CASE i = 1
      BY <3>1
    <3>2. CASE i # 1
      <4>1. h[i - 1] = g[i - 1]
        BY <3>2, <2>1
      <4> QED
        BY <4>1, <3>2
    <3> QED
      BY <3>1, <3>2
  <2> HIDE DEF h
  <2> QED
    BY <2>2
<1>3. n \in T
  <2> HIDE DEF T
  <2> QED
    BY <1>1, <1>2, Induction
<1>4. \E g : g = [i \in 1 .. n |-> Step(g, i)]
  <2>1. PICK g : \A i \in 1 .. n : g[i] = Step(g, i)
    BY <1>3
  <2> DEFINE h == [i \in 1 .. n |-> g[i]]
  <2>2. h = [i \in 1 .. n |-> Step(h, i)]
    <3>1. \A i \in 1 .. n : Step(h, i) = Step(g, i)
      OBVIOUS
    <3> HIDE DEF Step
    <3> QED
      BY <3>1, <2>1
  <2> QED
    BY <2>2
<1>5. flatten = [i \in 1 .. n |-> Step(flatten, i)]
  <2> HIDE DEF Step
  <2> QED
    BY <1>4 DEF flatten
<1> QED
  BY <1>5 DEF FlattenSeq

\* The elements of a sequence, and a sequence without repetitions.
Elements(s) == {s[i] : i \in 1 .. Len(s)}
Distinct(s) == \A i, j \in 1 .. Len(s) : s[i] = s[j] => i = j

\* Whatever concatenation keeps, FlattenSeq keeps.
LEMMA FlattenKeeps ==
  ASSUME NEW T, NEW seqs, Len(seqs) \in Nat \ {0},
         \A i \in 1 .. Len(seqs) : seqs[i] \in T, \A s, t \in T : s \o t \in T
  PROVE  FlattenSeq(seqs) \in T
<1>1. PICK f : /\ f = [i \in 1 .. Len(seqs) |-> IF i = 1 THEN seqs[i] ELSE f[i - 1] \o seqs[i]]
               /\ FlattenSeq(seqs) = f[Len(seqs)]
  BY FlattenDef
<1> DEFINE H == {m \in Nat : m + 1 \in 1 .. Len(seqs) => f[m + 1] \in T}
<1>2. 0 \in H
  BY <1>1
<1>3. ASSUME NEW m \in Nat, m \in H PROVE m + 1 \in H
  <2> SUFFICES ASSUME m + 2 \in 1 .. Len(seqs) PROVE f[m + 2] \in T
    OBVIOUS
  <2>1. f[m + 2] = f[m + 1] \o seqs[m + 2]
    <3> DEFINE k == m + 2
    <3>1. k \in 1 .. Len(seqs) /\ k # 1 /\ k - 1 = m + 1
      OBVIOUS
    <3> HIDE DEF k
    <3> QED
      BY <3>1, <1>1 DEF k
  <2> QED
    BY <1>3, <2>1
<1>4. Nat \subseteq H
  <2> HIDE DEF H
  <2> QED
    BY <1>2, <1>3, Induction
<1>5. Len(seqs) - 1 \in H
  BY <1>4
<1> QED
  BY <1>5, <1>1

\* Flattening gives a sequence over the same set.
LEMMA FlattenType ==
  ASSUME NEW S, NEW seqs \in Seq(Seq(S))
  PROVE  FlattenSeq(seqs) \in Seq(S)
<1>1. CASE seqs = <<>>
  BY <1>1 DEF FlattenSeq
<1>2. CASE seqs # <<>>
  <2>1. Len(seqs) \in Nat \ {0} /\ \A i \in 1 .. Len(seqs) : seqs[i] \in Seq(S)
    BY <1>2
  <2>2. \A s, t \in Seq(S) : s \o t \in Seq(S)
    OBVIOUS
  <2> QED
    BY <2>1, <2>2, FlattenKeeps
<1> QED
  BY <1>1, <1>2

\* A concatenation has the elements of both sides.
LEMMA ConcatElements ==
  ASSUME NEW S, NEW s \in Seq(S), NEW t \in Seq(S)
  PROVE  Elements(s \o t) = Elements(s) \cup Elements(t)
<1>1. Len(s \o t) = Len(s) + Len(t) /\ Len(s) \in Nat /\ Len(t) \in Nat
  OBVIOUS
<1>2. \A i \in 1 .. Len(s) + Len(t) : (s \o t)[i] = IF i <= Len(s) THEN s[i] ELSE t[i - Len(s)]
  OBVIOUS
<1>3. ASSUME NEW x \in Elements(s \o t) PROVE x \in Elements(s) \cup Elements(t)
  <2>1. PICK i \in 1 .. Len(s) + Len(t) : x = (s \o t)[i]
    BY <1>1 DEF Elements
  <2>2. CASE i <= Len(s)
    BY <2>1, <2>2, <1>1, <1>2 DEF Elements
  <2>3. CASE ~(i <= Len(s))
    BY <2>1, <2>3, <1>1, <1>2 DEF Elements
  <2> QED
    BY <2>2, <2>3
<1>4. ASSUME NEW i \in 1 .. Len(s) PROVE s[i] \in Elements(s \o t)
  BY <1>1, <1>2 DEF Elements
<1>5. ASSUME NEW i \in 1 .. Len(t) PROVE t[i] \in Elements(s \o t)
  <2>1. i + Len(s) \in 1 .. Len(s \o t) /\ (s \o t)[i + Len(s)] = t[i]
    BY <1>1, <1>2
  <2> QED
    BY <2>1 DEF Elements
<1> QED
  BY <1>3, <1>4, <1>5 DEF Elements

\* Sides without repetitions and with nothing in common concatenate without repetitions.
LEMMA ConcatDistinct ==
  ASSUME NEW S, NEW s \in Seq(S), NEW t \in Seq(S), Distinct(s), Distinct(t),
         Elements(s) \cap Elements(t) = {}
  PROVE  Distinct(s \o t)
<1>1. Len(s \o t) = Len(s) + Len(t) /\ Len(s) \in Nat /\ Len(t) \in Nat
  OBVIOUS
<1>2. \A i \in 1 .. Len(s) + Len(t) : (s \o t)[i] = IF i <= Len(s) THEN s[i] ELSE t[i - Len(s)]
  OBVIOUS
<1> SUFFICES ASSUME NEW i \in 1 .. Len(s) + Len(t), NEW j \in 1 .. Len(s) + Len(t), (s \o t)[i] = (s \o t)[j]
             PROVE  i = j
  BY <1>1 DEF Distinct
<1>3. CASE i <= Len(s) /\ j <= Len(s)
  BY <1>1, <1>2, <1>3 DEF Distinct
<1>4. CASE i > Len(s) /\ j > Len(s)
  BY <1>1, <1>4, <1>2 DEF Distinct
<1>5. ASSUME NEW a \in 1 .. Len(s) + Len(t), NEW b \in 1 .. Len(s) + Len(t), a <= Len(s), b > Len(s),
             (s \o t)[a] = (s \o t)[b]
      PROVE FALSE
  <2>1. a \in 1 .. Len(s) /\ b - Len(s) \in 1 .. Len(t)
    BY <1>1, <1>5
  <2>2. s[a] = t[b - Len(s)]
    BY <1>1, <1>2, <1>5
  <2> QED
    BY <2>1, <2>2 DEF Elements
<1> QED
  BY <1>1, <1>3, <1>4, <1>5

\* The first parts, put together.
LEMMA FlattenPrefixes ==
  ASSUME NEW S, NEW seqs \in Seq(Seq(S))
  PROVE  \E f : /\ f[0] = <<>>
                /\ \A i \in 1 .. Len(seqs) : f[i] = f[i - 1] \o seqs[i]
                /\ \A i \in 0 .. Len(seqs) : f[i] \in Seq(S)
                /\ FlattenSeq(seqs) = f[Len(seqs)]
<1>1. Len(seqs) \in Nat /\ \A i \in 1 .. Len(seqs) : seqs[i] \in Seq(S)
  OBVIOUS
<1>2. CASE seqs = <<>>
  <2> DEFINE g == [i \in {0} |-> <<>>]
  <2>1. /\ g[0] = <<>>
        /\ \A i \in 1 .. Len(seqs) : g[i] = g[i - 1] \o seqs[i]
        /\ \A i \in 0 .. Len(seqs) : g[i] \in Seq(S)
        /\ FlattenSeq(seqs) = g[Len(seqs)]
    BY <1>2 DEF FlattenSeq
  <2> HIDE DEF g
  <2> QED
    BY <2>1
<1>3. CASE seqs # <<>>
  <2>1. Len(seqs) \in Nat \ {0}
    BY <1>3
  <2>2. PICK f : /\ f = [i \in 1 .. Len(seqs) |-> IF i = 1 THEN seqs[i] ELSE f[i - 1] \o seqs[i]]
                 /\ FlattenSeq(seqs) = f[Len(seqs)]
    BY <2>1, FlattenDef
  <2> DEFINE g == [i \in 0 .. Len(seqs) |-> IF i = 0 THEN <<>> ELSE f[i]]
  <2>3. g[0] = <<>> /\ FlattenSeq(seqs) = g[Len(seqs)]
    BY <2>1, <2>2
  <2>4. ASSUME NEW i \in 1 .. Len(seqs) PROVE g[i] = g[i - 1] \o seqs[i]
    <3>1. CASE i = 1
      <4>1. g[1] = seqs[1] /\ g[0] = <<>> /\ seqs[1] \in Seq(S)
        BY <2>1, <2>2, <1>1
      <4>2. <<>> \o seqs[1] = seqs[1] /\ i - 1 = 0
        BY <3>1, <4>1
      <4> HIDE DEF g
      <4> QED
        BY <3>1, <4>1, <4>2
    <3>2. CASE i # 1
      <4>1. i - 1 \in 1 .. Len(seqs) /\ f[i] = f[i - 1] \o seqs[i]
        <5> HIDE DEF g
        <5>1. i - 1 \in 1 .. Len(seqs)
          BY <3>2, <1>1
        <5> QED
          BY <3>2, <5>1, <2>2
      <4>2. g[i] = f[i] /\ g[i - 1] = f[i - 1]
        BY <3>2, <1>1
      <4> HIDE DEF g
      <4> QED
        BY <4>1, <4>2
    <3> QED
      BY <3>1, <3>2
  <2> HIDE DEF g
  <2> DEFINE H == {m \in Nat : m <= Len(seqs) => g[m] \in Seq(S)}
  <2>5. 0 \in H
    <3>1. g[0] \in Seq(S)
      BY <2>3
    <3> QED
      BY <3>1
  <2>6. ASSUME NEW m \in Nat, m \in H PROVE m + 1 \in H
    <3> SUFFICES ASSUME m + 1 <= Len(seqs) PROVE g[m + 1] \in Seq(S)
      OBVIOUS
    <3>1. g[m] \in Seq(S) /\ m + 1 \in 1 .. Len(seqs)
      BY <2>6
    <3>2. g[m + 1] = g[m] \o seqs[m + 1]
      <4> DEFINE k == m + 1
      <4>1. k \in 1 .. Len(seqs) /\ k - 1 = m
        BY <3>1
      <4> HIDE DEF k
      <4> QED
        BY <4>1, <2>4 DEF k
    <3> QED
      BY <3>1, <3>2, <1>1
  <2>7. Nat \subseteq H
    <3> HIDE DEF H
    <3> QED
      BY <2>5, <2>6, Induction
  <2>8. \A i \in 0 .. Len(seqs) : g[i] \in Seq(S)
    BY <2>7
  <2> QED
    BY <2>3, <2>4, <2>8
<1> QED
  BY <1>2, <1>3

\* A flattened sequence has the elements of its parts.
LEMMA FlattenElements ==
  ASSUME NEW S, NEW seqs \in Seq(Seq(S))
  PROVE  Elements(FlattenSeq(seqs)) = UNION {Elements(seqs[i]) : i \in 1 .. Len(seqs)}
<1>1. Len(seqs) \in Nat /\ \A i \in 1 .. Len(seqs) : seqs[i] \in Seq(S)
  OBVIOUS
<1>2. PICK f : /\ f[0] = <<>>
               /\ \A i \in 1 .. Len(seqs) : f[i] = f[i - 1] \o seqs[i]
               /\ \A i \in 0 .. Len(seqs) : f[i] \in Seq(S)
               /\ FlattenSeq(seqs) = f[Len(seqs)]
  BY FlattenPrefixes
<1> DEFINE H == {m \in Nat : m <= Len(seqs) => Elements(f[m]) = UNION {Elements(seqs[i]) : i \in 1 .. m}}
<1>3. 0 \in H
  BY <1>2 DEF Elements
<1>4. ASSUME NEW m \in Nat, m \in H PROVE m + 1 \in H
  <2> SUFFICES ASSUME m + 1 <= Len(seqs)
               PROVE  Elements(f[m + 1]) = UNION {Elements(seqs[i]) : i \in 1 .. m + 1}
    OBVIOUS
  <2> DEFINE k == m + 1
  <2>1. k \in 1 .. Len(seqs) /\ k - 1 = m /\ m \in 0 .. Len(seqs)
    BY <1>1
  <2>2. 1 .. k = (1 .. m) \cup {k}
    OBVIOUS
  <2> HIDE DEF k
  <2>3. f[k] = f[m] \o seqs[k] /\ f[m] \in Seq(S) /\ seqs[k] \in Seq(S)
    BY <2>1, <1>1, <1>2
  <2>4. Elements(f[k]) = Elements(f[m]) \cup Elements(seqs[k])
    BY <2>3, ConcatElements
  <2>5. UNION {Elements(seqs[i]) : i \in (1 .. m) \cup {k}}
           = (UNION {Elements(seqs[i]) : i \in 1 .. m}) \cup Elements(seqs[k])
    OBVIOUS
  <2> QED
    BY <2>2, <2>4, <1>4, <2>1, <2>5 DEF k
<1>5. Nat \subseteq H
  <2> HIDE DEF H
  <2> QED
    BY <1>3, <1>4, Induction
<1> QED
  BY <1>1, <1>2, <1>5

\* Parts without repetitions, pairwise disjoint, flatten without repetitions.
LEMMA FlattenDistinct ==
  ASSUME NEW S, NEW seqs \in Seq(Seq(S)),
         \A i \in 1 .. Len(seqs) : Distinct(seqs[i]),
         \A i, j \in 1 .. Len(seqs) : i # j => Elements(seqs[i]) \cap Elements(seqs[j]) = {}
  PROVE  Distinct(FlattenSeq(seqs))
<1>1. Len(seqs) \in Nat /\ \A i \in 1 .. Len(seqs) : seqs[i] \in Seq(S)
  OBVIOUS
<1>2. PICK f : /\ f[0] = <<>>
               /\ \A i \in 1 .. Len(seqs) : f[i] = f[i - 1] \o seqs[i]
               /\ \A i \in 0 .. Len(seqs) : f[i] \in Seq(S)
               /\ FlattenSeq(seqs) = f[Len(seqs)]
  BY FlattenPrefixes
<1> DEFINE H == {m \in Nat : m <= Len(seqs) => /\ Distinct(f[m])
                                              /\ Elements(f[m]) = UNION {Elements(seqs[i]) : i \in 1 .. m}}
<1>3. 0 \in H
  BY <1>2 DEF Elements, Distinct
<1>4. ASSUME NEW m \in Nat, m \in H PROVE m + 1 \in H
  <2> DEFINE k == m + 1
  <2> SUFFICES ASSUME k <= Len(seqs)
               PROVE  Distinct(f[k]) /\ Elements(f[k]) = UNION {Elements(seqs[i]) : i \in 1 .. k}
    OBVIOUS
  <2>1. k \in 1 .. Len(seqs) /\ k - 1 = m /\ m \in 0 .. Len(seqs)
    BY <1>1
  <2>2. 1 .. k = (1 .. m) \cup {k} /\ \A i \in 1 .. m : i # k /\ i \in 1 .. Len(seqs)
    BY <2>1
  <2> HIDE DEF k
  <2>3. f[k] = f[m] \o seqs[k] /\ f[m] \in Seq(S) /\ seqs[k] \in Seq(S)
    BY <2>1, <1>1, <1>2
  <2>4. Elements(f[k]) = Elements(f[m]) \cup Elements(seqs[k])
    BY <2>3, ConcatElements
  <2>5. Distinct(f[m]) /\ Elements(f[m]) = UNION {Elements(seqs[i]) : i \in 1 .. m}
    BY <1>4, <2>1
  <2>6. Elements(f[m]) \cap Elements(seqs[k]) = {}
    <3>1. \A i \in 1 .. m : Elements(seqs[i]) \cap Elements(seqs[k]) = {}
      BY <2>1, <2>2
    <3> HIDE DEF H
    <3> QED
      BY <2>5, <3>1
  <2>7. Distinct(f[m] \o seqs[k])
    BY <2>1, <2>3, <2>5, <2>6, ConcatDistinct
  <2> QED
    BY <2>2, <2>3, <2>4, <2>5, <2>7
<1>5. Nat \subseteq H
  <2> HIDE DEF H
  <2> QED
    BY <1>3, <1>4, Induction
<1> QED
  BY <1>1, <1>2, <1>5

\* Parts of the same length.
LEMMA FlattenLength ==
  ASSUME NEW S, NEW seqs \in Seq(Seq(S)), NEW n \in Nat,
         \A i \in 1 .. Len(seqs) : Len(seqs[i]) = n
  PROVE  Len(FlattenSeq(seqs)) = Len(seqs) * n
<1>1. Len(seqs) \in Nat /\ \A i \in 1 .. Len(seqs) : seqs[i] \in Seq(S)
  OBVIOUS
<1>2. PICK f : /\ f[0] = <<>>
               /\ \A i \in 1 .. Len(seqs) : f[i] = f[i - 1] \o seqs[i]
               /\ \A i \in 0 .. Len(seqs) : f[i] \in Seq(S)
               /\ FlattenSeq(seqs) = f[Len(seqs)]
  BY FlattenPrefixes
<1> DEFINE H == {m \in Nat : m <= Len(seqs) => Len(f[m]) = m * n}
<1>3. 0 \in H
  BY <1>2
<1>4. ASSUME NEW m \in Nat, m \in H PROVE m + 1 \in H
  <2> DEFINE k == m + 1
  <2> SUFFICES ASSUME k <= Len(seqs) PROVE Len(f[k]) = k * n
    OBVIOUS
  <2>1. k \in 1 .. Len(seqs) /\ k - 1 = m /\ m \in 0 .. Len(seqs)
    BY <1>1
  <2>2. k * n = m * n + n
    OBVIOUS
  <2> HIDE DEF k
  <2>3. f[k] = f[m] \o seqs[k] /\ f[m] \in Seq(S) /\ seqs[k] \in Seq(S)
    BY <2>1, <1>1, <1>2
  <2>4. Len(f[k]) = Len(f[m]) + Len(seqs[k])
    BY <2>3
  <2>5. Len(f[m]) = m * n
    BY <1>4, <2>1
  <2> QED
    BY <2>1, <2>2, <2>4, <2>5
<1>5. Nat \subseteq H
  <2> HIDE DEF H
  <2> QED
    BY <1>3, <1>4, Induction
<1> QED
  BY <1>1, <1>2, <1>5

\* Flattening a single sequence gives that sequence.
LEMMA FlattenOne ==
  ASSUME NEW S, NEW s \in Seq(S)
  PROVE  FlattenSeq(<<s>>) = s
<1>1. <<s>> \in Seq(Seq(S)) /\ Len(<<s>>) = 1 /\ <<s>>[1] = s
  OBVIOUS
<1>2. PICK f : /\ f[0] = <<>>
               /\ \A i \in 1 .. 1 : f[i] = f[i - 1] \o <<s>>[i]
               /\ FlattenSeq(<<s>>) = f[1]
  BY ZenonT(30), <1>1, FlattenPrefixes
<1>3. f[1] = <<>> \o s
  BY SMTT(20), <1>1, <1>2
<1> QED
  BY <1>2, <1>3

\* Flattening two sequences concatenates them.
LEMMA FlattenTwo ==
  ASSUME NEW S, NEW s \in Seq(S), NEW t \in Seq(S)
  PROVE  FlattenSeq(<<s, t>>) = s \o t
<1> DEFINE p == <<s, t>>
<1>1. p \in Seq(Seq(S)) /\ Len(p) = 2 /\ p[1] = s /\ p[2] = t
  OBVIOUS
<1> HIDE DEF p
<1>2. PICK f : /\ f[0] = <<>>
               /\ \A i \in 1 .. Len(p) : f[i] = f[i - 1] \o p[i]
               /\ FlattenSeq(p) = f[Len(p)]
  <2> HIDE DEF p
  <2> QED
    BY <1>1, FlattenPrefixes
<1>3. f[1] = <<>> \o s
  <2>1. 1 \in 1 .. Len(p) /\ 1 - 1 = 0
    BY <1>1
  <2> QED
    BY <1>1, <1>2, <2>1
<1>4. f[2] = f[1] \o t
  BY <1>1, <1>2
<1>5. <<>> \o s = s
  OBVIOUS
<1> QED
  BY <1>1, <1>2, <1>3, <1>4, <1>5 DEF p

----------------------------------------------------------------------------
\* The parameters of a stage.

\* Every kind of parameter, and the parameters: chunk, layer within the stage, expert, kind.
Kinds ==
  {"word_embeddings", "final_layernorm", "output_layer", "attn_input_layernorm", "linear_qkv", "q_layernorm",
   "k_layernorm", "linear_gate", "gate_norm", "linear_proj", "pre_mlp_layernorm", "input_layernorm",
   "linear_q_proj", "linear_q_down_proj", "linear_q_up_layer_norm", "linear_q_up_proj", "linear_kv_down_proj",
   "linear_kv_up_layer_norm", "linear_kv_up_proj", "fc1", "fc2", "router", "expert_fc1", "expert_fc2",
   "shared_fc1", "shared_fc2", "expert_bias"}

ParamSet == [vp : Int, layer : Int, expert : Int, kind : Kinds]

\* The kinds of a layer, as the sequences that McoreLayer is written with.
LightningKinds ==
  <<"attn_input_layernorm", "linear_qkv", "q_layernorm", "k_layernorm", "linear_gate", "gate_norm",
    "linear_proj", "pre_mlp_layernorm">>
LoraKinds ==
  <<"input_layernorm", "linear_q_down_proj", "linear_q_up_layer_norm", "linear_q_up_proj",
    "linear_kv_down_proj", "linear_kv_up_layer_norm", "linear_kv_up_proj", "linear_proj", "pre_mlp_layernorm">>
PlainKinds ==
  <<"input_layernorm", "linear_q_proj", "linear_kv_down_proj", "linear_kv_up_layer_norm",
    "linear_kv_up_proj", "linear_proj", "pre_mlp_layernorm">>

AttentionKinds(l, layer) ==
  IF Lightning(l, layer) THEN LightningKinds ELSE IF l.qLora THEN LoraKinds ELSE PlainKinds

\* Their names within a layer: no expert, or one of the local experts.
Sole(kinds) == [i \in 1 .. Len(kinds) |-> <<None, kinds[i]>>]
OfExperts(l, kind) == [e \in 1 .. LocalExperts(l) |-> <<e - 1, kind>>]

MlpNames(l, layer) ==
  IF Dense(l, layer) THEN Sole(<<"fc1", "fc2">>)
  ELSE Sole(<<"router">>) \o OfExperts(l, "expert_fc1") \o OfExperts(l, "expert_fc2")
       \o Sole(<<"shared_fc1", "shared_fc2">>)

\* A concatenation is known by its elements at their places.
LEMMA ConcatIs ==
  ASSUME NEW S, NEW s \in Seq(S), NEW t \in Seq(S), NEW e \in Seq(S), Len(e) = Len(s) + Len(t),
         \A i \in 1 .. Len(s) : e[i] = s[i], \A i \in 1 .. Len(t) : e[i + Len(s)] = t[i]
  PROVE  s \o t = e
<1>1. Len(s) \in Nat /\ Len(t) \in Nat
  OBVIOUS
<1>2. ASSUME NEW i \in 1 .. Len(e) PROVE (s \o t)[i] = e[i]
  <2>1. CASE i <= Len(s)
    BY <1>1, <2>1
  <2>2. CASE i > Len(s)
    <3>1. e[i] = t[i - Len(s)]
      BY <1>1, <2>2
    <3> QED
      BY <1>1, <2>2, <3>1
  <2> QED
    BY <1>1, <2>1, <2>2
<1> QED
  BY <1>2

\* The parameters of a layer are those of its attention followed by those of its MLP.
LEMMA LayerIs ==
  ASSUME NEW l, NEW layer, l.qLora \in BOOLEAN
  PROVE  McoreLayer(l, layer) = Sole(AttentionKinds(l, layer)) \o MlpNames(l, layer)
<1> DEFINE tail == <<"linear_proj", "pre_mlp_layernorm">>
           attention ==
             IF Lightning(l, layer)
               THEN <<"attn_input_layernorm", "linear_qkv", "q_layernorm", "k_layernorm",
                      "linear_gate", "gate_norm">>
               ELSE <<"input_layernorm">>
                    \o (IF l.qLora THEN <<"linear_q_down_proj", "linear_q_up_layer_norm", "linear_q_up_proj">>
                                   ELSE <<"linear_q_proj">>)
                    \o <<"linear_kv_down_proj", "linear_kv_up_layer_norm", "linear_kv_up_proj">>
<1>1. attention \o tail = AttentionKinds(l, layer)
  <2>1. tail \in Seq(Kinds) /\ Len(tail) = 2 /\ tail[1] = "linear_proj" /\ tail[2] = "pre_mlp_layernorm"
    BY DEF Kinds
  <2>2. CASE Lightning(l, layer)
    <3> DEFINE a == <<"attn_input_layernorm", "linear_qkv", "q_layernorm", "k_layernorm",
                      "linear_gate", "gate_norm">>
    <3>1. attention = a
      BY <2>2
    <3>2. a \in Seq(Kinds) /\ LightningKinds \in Seq(Kinds) /\ Len(LightningKinds) = Len(a) + Len(tail)
      BY DEF LightningKinds, Kinds
    <3>3. (\A i \in 1 .. Len(a) : LightningKinds[i] = a[i])
      BY DEF LightningKinds
    <3>4. \A i \in 1 .. Len(tail) : LightningKinds[i + Len(a)] = tail[i]
      BY DEF LightningKinds
    <3> HIDE DEF attention, tail, a
    <3>5. a \o tail = LightningKinds
      BY <2>1, <3>2, <3>3, <3>4, ConcatIs
    <3> QED
      BY <2>2, <3>1, <3>5 DEF AttentionKinds
  <2>3. CASE ~Lightning(l, layer) /\ l.qLora
    <3> DEFINE a == <<"input_layernorm">>
               b == <<"linear_q_down_proj", "linear_q_up_layer_norm", "linear_q_up_proj">>
               c == <<"linear_kv_down_proj", "linear_kv_up_layer_norm", "linear_kv_up_proj">>
               ab == <<"input_layernorm", "linear_q_down_proj", "linear_q_up_layer_norm", "linear_q_up_proj">>
               abc == <<"input_layernorm", "linear_q_down_proj", "linear_q_up_layer_norm", "linear_q_up_proj",
                        "linear_kv_down_proj", "linear_kv_up_layer_norm", "linear_kv_up_proj">>
    <3>1. attention = a \o b \o c
      BY <2>3
    <3>2. a \o b = ab
      <4>1. a \in Seq(Kinds) /\ b \in Seq(Kinds) /\ ab \in Seq(Kinds) /\ Len(ab) = Len(a) + Len(b)
        BY DEF Kinds
      <4>2. (\A i \in 1 .. Len(a) : ab[i] = a[i]) /\ (\A i \in 1 .. Len(b) : ab[i + Len(a)] = b[i])
        OBVIOUS
      <4> HIDE DEF a, b, ab
      <4> QED
        BY <4>1, <4>2, ConcatIs
    <3>3. ab \o c = abc
      <4>1. ab \in Seq(Kinds) /\ c \in Seq(Kinds) /\ abc \in Seq(Kinds) /\ Len(abc) = Len(ab) + Len(c)
        BY DEF Kinds
      <4>2. (\A i \in 1 .. Len(ab) : abc[i] = ab[i]) /\ (\A i \in 1 .. Len(c) : abc[i + Len(ab)] = c[i])
        OBVIOUS
      <4> HIDE DEF c, ab, abc
      <4> QED
        BY <4>1, <4>2, ConcatIs
    <3>4. abc \o tail = LoraKinds
      <4>1. abc \in Seq(Kinds) /\ LoraKinds \in Seq(Kinds) /\ Len(LoraKinds) = Len(abc) + Len(tail)
        BY DEF LoraKinds, Kinds
      <4>2. /\ \A i \in 1 .. Len(abc) : LoraKinds[i] = abc[i]
            /\ \A i \in 1 .. Len(tail) : LoraKinds[i + Len(abc)] = tail[i]
        BY DEF LoraKinds
      <4> HIDE DEF abc, tail
      <4> QED
        BY <2>1, <4>1, <4>2, ConcatIs
    <3> HIDE DEF attention, tail, a, b, c, ab, abc
    <3> QED
      BY <2>3, <3>1, <3>2, <3>3, <3>4 DEF AttentionKinds
  <2>4. CASE ~Lightning(l, layer) /\ ~l.qLora
    <3> DEFINE a == <<"input_layernorm">>
               b == <<"linear_q_proj">>
               c == <<"linear_kv_down_proj", "linear_kv_up_layer_norm", "linear_kv_up_proj">>
               ab == <<"input_layernorm", "linear_q_proj">>
               abc == <<"input_layernorm", "linear_q_proj",
                        "linear_kv_down_proj", "linear_kv_up_layer_norm", "linear_kv_up_proj">>
    <3>1. attention = a \o b \o c
      BY <2>4
    <3>2. a \o b = ab
      <4>1. a \in Seq(Kinds) /\ b \in Seq(Kinds) /\ ab \in Seq(Kinds) /\ Len(ab) = Len(a) + Len(b)
        BY DEF Kinds
      <4>2. (\A i \in 1 .. Len(a) : ab[i] = a[i]) /\ (\A i \in 1 .. Len(b) : ab[i + Len(a)] = b[i])
        OBVIOUS
      <4> HIDE DEF a, b, ab
      <4> QED
        BY <4>1, <4>2, ConcatIs
    <3>3. ab \o c = abc
      <4>1. ab \in Seq(Kinds) /\ c \in Seq(Kinds) /\ abc \in Seq(Kinds) /\ Len(abc) = Len(ab) + Len(c)
        BY DEF Kinds
      <4>2. (\A i \in 1 .. Len(ab) : abc[i] = ab[i]) /\ (\A i \in 1 .. Len(c) : abc[i + Len(ab)] = c[i])
        OBVIOUS
      <4> HIDE DEF c, ab, abc
      <4> QED
        BY <4>1, <4>2, ConcatIs
    <3>4. abc \o tail = PlainKinds
      <4>1. abc \in Seq(Kinds) /\ PlainKinds \in Seq(Kinds) /\ Len(PlainKinds) = Len(abc) + Len(tail)
        BY DEF PlainKinds, Kinds
      <4>2. /\ \A i \in 1 .. Len(abc) : PlainKinds[i] = abc[i]
            /\ \A i \in 1 .. Len(tail) : PlainKinds[i + Len(abc)] = tail[i]
        BY DEF PlainKinds
      <4> HIDE DEF abc, tail
      <4> QED
        BY <2>1, <4>1, <4>2, ConcatIs
    <3> HIDE DEF attention, tail, a, b, c, ab, abc
    <3> QED
      BY <2>4, <3>1, <3>2, <3>3, <3>4 DEF AttentionKinds
  <2> HIDE DEF attention, tail
  <2> QED
    BY <2>2, <2>3, <2>4
<1>2. DOMAIN AttentionKinds(l, layer) = 1 .. Len(AttentionKinds(l, layer))
  <2>1. DOMAIN LightningKinds = 1 .. Len(LightningKinds)
    BY DEF LightningKinds
  <2>2. DOMAIN LoraKinds = 1 .. Len(LoraKinds)
    BY DEF LoraKinds
  <2>3. DOMAIN PlainKinds = 1 .. Len(PlainKinds)
    BY DEF PlainKinds
  <2> QED
    BY <2>1, <2>2, <2>3 DEF AttentionKinds
<1>3. /\ DOMAIN <<"fc1", "fc2">> = 1 .. Len(<<"fc1", "fc2">>)
      /\ DOMAIN <<"router">> = 1 .. Len(<<"router">>)
      /\ DOMAIN <<"shared_fc1", "shared_fc2">> = 1 .. Len(<<"shared_fc1", "shared_fc2">>)
  OBVIOUS
<1> QED
  BY <1>1, <1>2, <1>3 DEF McoreLayer, Sole, OfExperts, MlpNames

-----------------------------------------------------------------------------
\* The parameters of a layer, named as NamedParameters names them.
NamesOf(vp, id, names) ==
  [i \in DOMAIN names |-> [vp |-> vp, layer |-> id, expert |-> names[i][1], kind |-> names[i][2]]]
SoleParams(vp, id, kinds) ==
  [i \in 1 .. Len(kinds) |-> [vp |-> vp, layer |-> id, expert |-> None, kind |-> kinds[i]]]
ExpertParams(l, vp, id, kind) ==
  [e \in 1 .. LocalExperts(l) |-> [vp |-> vp, layer |-> id, expert |-> e - 1, kind |-> kind]]

\* Naming distributes over concatenation.
LEMMA NamesOfConcat ==
  ASSUME NEW vp, NEW id, NEW s \in Seq(Int \X Kinds), NEW t \in Seq(Int \X Kinds)
  PROVE  NamesOf(vp, id, s \o t) = NamesOf(vp, id, s) \o NamesOf(vp, id, t)
<1> DEFINE F(x) == [vp |-> vp, layer |-> id, expert |-> x[1], kind |-> x[2]]
           S == {F(x) : x \in Int \X Kinds}
           a == [i \in 1 .. Len(s) |-> F(s[i])]
           b == [i \in 1 .. Len(t) |-> F(t[i])]
           c == [i \in 1 .. Len(s) + Len(t) |-> F((s \o t)[i])]
<1>1. a = NamesOf(vp, id, s) /\ b = NamesOf(vp, id, t) /\ c = NamesOf(vp, id, s \o t)
  BY DEF NamesOf
<1>2. Len(s) \in Nat /\ Len(t) \in Nat
  OBVIOUS
<1>3. \A x \in Int \X Kinds : F(x) \in S
  OBVIOUS
<1> HIDE DEF S, F
<1>4. a \in Seq(S) /\ b \in Seq(S) /\ c \in Seq(S)
  BY <1>2, <1>3
<1>5. Len(a) = Len(s) /\ Len(b) = Len(t) /\ Len(c) = Len(s) + Len(t)
  BY <1>2
<1>6. \A i \in 1 .. Len(s) : c[i] = a[i]
  BY <1>2
<1>7. \A i \in 1 .. Len(t) : c[i + Len(s)] = b[i]
  BY <1>2
<1> HIDE DEF a, b, c
<1>8. Len(c) = Len(a) + Len(b) /\ \A i \in 1 .. Len(a) : c[i] = a[i]
  BY <1>5, <1>6
<1>9. \A i \in 1 .. Len(b) : c[i + Len(a)] = b[i]
  BY <1>5, <1>7
<1>10. a \o b = c
  BY <1>4, <1>8, <1>9, ConcatIs
<1> QED
  BY <1>1, <1>10

\* The names of parameters that belong to no expert.
LEMMA NamesOfSole ==
  ASSUME NEW vp, NEW id, NEW kinds \in Seq(Kinds)
  PROVE  /\ Sole(kinds) \in Seq(Int \X Kinds)
         /\ NamesOf(vp, id, Sole(kinds)) = SoleParams(vp, id, kinds)
<1> QED
  BY DEF NamesOf, Sole, SoleParams, None

\* The names of one parameter of every local expert.
LEMMA NamesOfExperts ==
  ASSUME NEW l, LocalExperts(l) \in Nat, NEW vp, NEW id, NEW kind \in Kinds
  PROVE  /\ OfExperts(l, kind) \in Seq(Int \X Kinds)
         /\ NamesOf(vp, id, OfExperts(l, kind)) = ExpertParams(l, vp, id, kind)
  BY DEF NamesOf, OfExperts, ExpertParams

MlpParams(l, vp, id, layer) ==
  IF Dense(l, layer) THEN SoleParams(vp, id, <<"fc1", "fc2">>)
  ELSE SoleParams(vp, id, <<"router">>) \o ExpertParams(l, vp, id, "expert_fc1")
       \o ExpertParams(l, vp, id, "expert_fc2") \o SoleParams(vp, id, <<"shared_fc1", "shared_fc2">>)

\* The lists of kinds the model is written with are lists of kinds.
LEMMA KindSequences ==
  /\ LightningKinds \in Seq(Kinds) /\ LoraKinds \in Seq(Kinds) /\ PlainKinds \in Seq(Kinds)
  /\ <<"fc1", "fc2">> \in Seq(Kinds) /\ <<"router">> \in Seq(Kinds) /\ <<"shared_fc1", "shared_fc2">> \in Seq(Kinds)
  /\ <<"word_embeddings">> \in Seq(Kinds) /\ <<"final_layernorm", "output_layer">> \in Seq(Kinds)
<1> QED
  BY DEF LightningKinds, Kinds, LoraKinds, PlainKinds

\* The parameters of a layer.
LEMMA LayerParamsAre ==
  ASSUME NEW l, NEW layer, l.qLora \in BOOLEAN, LocalExperts(l) \in Nat, NEW vp, NEW id
  PROVE  NamesOf(vp, id, McoreLayer(l, layer))
           = SoleParams(vp, id, AttentionKinds(l, layer)) \o MlpParams(l, vp, id, layer)
<1> DEFINE P == Int \X Kinds
           router == Sole(<<"router">>)
           shared == Sole(<<"shared_fc1", "shared_fc2">>)
           one == OfExperts(l, "expert_fc1")
           two == OfExperts(l, "expert_fc2")
<1>1. \A s, t \in Seq(P) : NamesOf(vp, id, s \o t) = NamesOf(vp, id, s) \o NamesOf(vp, id, t)
  BY ONLY NamesOfConcat DEF P
<1>2. AttentionKinds(l, layer) \in Seq(Kinds)
  BY KindSequences DEF AttentionKinds
<1>3. "expert_fc1" \in Kinds /\ "expert_fc2" \in Kinds
  BY DEF Kinds
<1>4. /\ router \in Seq(P) /\ shared \in Seq(P) /\ one \in Seq(P) /\ two \in Seq(P)
      /\ Sole(<<"fc1", "fc2">>) \in Seq(P) /\ Sole(AttentionKinds(l, layer)) \in Seq(P)
  BY <1>2, <1>3, KindSequences, NamesOfSole, NamesOfExperts
<1>5. NamesOf(vp, id, router) = SoleParams(vp, id, <<"router">>)
  BY KindSequences, NamesOfSole
<1>6. NamesOf(vp, id, shared) = SoleParams(vp, id, <<"shared_fc1", "shared_fc2">>)
  BY KindSequences, NamesOfSole
<1>7. /\ NamesOf(vp, id, one) = ExpertParams(l, vp, id, "expert_fc1")
      /\ NamesOf(vp, id, two) = ExpertParams(l, vp, id, "expert_fc2")
  BY <1>3, NamesOfExperts
<1>8. /\ MlpNames(l, layer) \in Seq(P)
      /\ NamesOf(vp, id, MlpNames(l, layer)) = MlpParams(l, vp, id, layer)
  <2>1. CASE Dense(l, layer)
    BY <2>1, <1>4, KindSequences, NamesOfSole DEF MlpNames, MlpParams
  <2>2. CASE ~Dense(l, layer)
    <3>1. MlpNames(l, layer) = router \o one \o two \o shared
      BY <2>2 DEF MlpNames
    <3> HIDE DEF P, router, shared, one, two
    <3>2. router \o one \in Seq(P) /\ router \o one \o two \in Seq(P) /\ router \o one \o two \o shared \in Seq(P)
      BY <1>4
    <3>3. NamesOf(vp, id, router \o one) = NamesOf(vp, id, router) \o NamesOf(vp, id, one)
      BY ONLY <1>1, <1>4
    <3>4. NamesOf(vp, id, router \o one \o two) = NamesOf(vp, id, router \o one) \o NamesOf(vp, id, two)
      BY ONLY <1>1, <1>4, <3>2
    <3>5. NamesOf(vp, id, router \o one \o two \o shared)
            = NamesOf(vp, id, router \o one \o two) \o NamesOf(vp, id, shared)
      BY ONLY <1>1, <1>4, <3>2
    <3>6. NamesOf(vp, id, MlpNames(l, layer)) = MlpParams(l, vp, id, layer)
      BY <2>2, <3>1, <3>3, <3>4, <3>5, <1>5, <1>6, <1>7 DEF MlpParams
    <3> QED
      BY <3>1, <3>2, <3>6
  <2> QED
    BY <2>1, <2>2
<1>9. McoreLayer(l, layer) = Sole(AttentionKinds(l, layer)) \o MlpNames(l, layer)
  BY LayerIs
<1>10. NamesOf(vp, id, Sole(AttentionKinds(l, layer)) \o MlpNames(l, layer))
         = NamesOf(vp, id, Sole(AttentionKinds(l, layer))) \o NamesOf(vp, id, MlpNames(l, layer))
  BY ONLY <1>1, <1>4, <1>8
<1> QED
  BY <1>2, NamesOfSole, <1>8, <1>9, <1>10

-----------------------------------------------------------------------------
\* The kinds that may stand between the two halves of a fused down projection, and that
\* one of them is followed by the next.
Opens == {"linear_q_down_proj", "linear_q_up_layer_norm", "linear_q_up_proj"}
Closes == {"linear_q_up_layer_norm", "linear_q_up_proj", "linear_kv_down_proj"}
Follows(p, q) == p.kind \in Opens /\ q.kind \in Closes /\ p.layer = q.layer /\ p.vp = q.vp

\* Between the two down projections of a layer come only its query projection.
Linked(s) ==
  \A i \in 1 .. Len(s) :
    /\ s[i].kind \in Closes => i > 1 /\ Follows(s[i - 1], s[i])
    /\ s[i].kind \in Opens => i < Len(s) /\ Follows(s[i], s[i + 1])

\* The kinds outside the layers, of experts, and of a layer by its number.
OuterKinds == {"word_embeddings", "final_layernorm", "output_layer"}
ExpertKinds == {"expert_fc1", "expert_fc2"}
AttentionSet(l, layer) ==
  IF Lightning(l, layer)
    THEN {"attn_input_layernorm", "linear_qkv", "q_layernorm", "k_layernorm", "linear_gate", "gate_norm",
          "linear_proj", "pre_mlp_layernorm"}
    ELSE {"input_layernorm", "linear_kv_down_proj", "linear_kv_up_layer_norm", "linear_kv_up_proj",
          "linear_proj", "pre_mlp_layernorm"}
         \cup IF l.qLora THEN Opens ELSE {"linear_q_proj"}

MlpSet(l, layer) == IF Dense(l, layer) THEN {"fc1", "fc2"} ELSE {"router", "shared_fc1", "shared_fc2"}

InLayer(l, layer, p) ==
  \/ p.expert = None /\ p.kind \in AttentionSet(l, layer) \cup MlpSet(l, layer)
  \/ ~Dense(l, layer) /\ p.expert \in 0 .. LocalExperts(l) - 1 /\ p.kind \in ExpertKinds
IsBias(l, layer, p) == ~Dense(l, layer) /\ p.expert = None /\ p.kind = "expert_bias"

\* In a concatenation every opening projection still has its closing one behind it.
LEMMA LinkedConcat ==
  ASSUME NEW s \in Seq(ParamSet), NEW t \in Seq(ParamSet), Linked(s), Linked(t)
  PROVE  Linked(s \o t)
<1> DEFINE n == Len(s)
           m == Len(t)
           u == s \o t
<1>1. n \in Nat /\ m \in Nat /\ Len(u) = n + m
  OBVIOUS
<1>2. \A i \in 1 .. n : u[i] = s[i]
  OBVIOUS
<1>3. \A i \in 1 .. m : u[i + n] = t[i]
  OBVIOUS
<1> HIDE DEF u
<1> SUFFICES ASSUME NEW i \in 1 .. n + m
             PROVE  /\ u[i].kind \in Closes => i > 1 /\ Follows(u[i - 1], u[i])
                    /\ u[i].kind \in Opens => i < n + m /\ Follows(u[i], u[i + 1])
  BY <1>1 DEF Linked, u
<1>4. CASE i <= n
  <2>1. i \in 1 .. n /\ u[i] = s[i]
    BY <1>1, <1>2, <1>4
  <2>2. i > 1 => u[i - 1] = s[i - 1]
    BY <1>1, <1>2, <1>4
  <2>3. i < n => u[i + 1] = s[i + 1]
    BY <1>1, <1>2, <1>4
  <2> QED
    BY <2>1, <2>2, <2>3, <1>1 DEF Linked
<1>5. CASE i > n
  <2> DEFINE j == i - n
  <2>1. j \in 1 .. m /\ i = j + n
    BY <1>1, <1>5
  <2> HIDE DEF j
  <2>2. u[i] = t[j]
    BY <2>1, <1>3
  <2>3. j > 1 => u[i - 1] = t[j - 1]
    <3> SUFFICES ASSUME j > 1 PROVE u[i - 1] = t[j - 1]
      OBVIOUS
    <3>1. j - 1 \in 1 .. m /\ i - 1 = (j - 1) + n
      BY <2>1, <1>1
    <3> QED
      BY <3>1, <1>3
  <2>4. j < m => u[i + 1] = t[j + 1]
    <3> SUFFICES ASSUME j < m PROVE u[i + 1] = t[j + 1]
      OBVIOUS
    <3>1. j + 1 \in 1 .. m /\ i + 1 = (j + 1) + n
      BY <2>1, <1>1
    <3> QED
      BY <3>1, <1>3
  <2> QED
    BY <2>1, <2>2, <2>3, <2>4, <1>1 DEF Linked
<1> QED
  BY <1>1, <1>4, <1>5

\* What a run of parameters of one layer holds, place by place.
LEMMA SoleFacts ==
  ASSUME NEW vp \in Int, NEW id \in Int, NEW kinds \in Seq(Kinds)
  PROVE  /\ SoleParams(vp, id, kinds) \in Seq(ParamSet)
         /\ Len(SoleParams(vp, id, kinds)) = Len(kinds)
         /\ \A i \in 1 .. Len(kinds) :
              SoleParams(vp, id, kinds)[i] = [vp |-> vp, layer |-> id, expert |-> None, kind |-> kinds[i]]
<1> QED
  BY DEF SoleParams, ParamSet, None

\* What a run of parameters of the local experts holds, place by place.
LEMMA ExpertFacts ==
  ASSUME NEW l, LocalExperts(l) \in Nat, NEW vp \in Int, NEW id \in Int, NEW kind \in Kinds
  PROVE  /\ ExpertParams(l, vp, id, kind) \in Seq(ParamSet)
         /\ Len(ExpertParams(l, vp, id, kind)) = LocalExperts(l)
         /\ \A e \in 1 .. LocalExperts(l) :
              ExpertParams(l, vp, id, kind)[e] = [vp |-> vp, layer |-> id, expert |-> e - 1, kind |-> kind]
<1>1. \A e \in 1 .. LocalExperts(l) : [vp |-> vp, layer |-> id, expert |-> e - 1, kind |-> kind] \in ParamSet
  BY DEF ParamSet
<1> QED
  BY <1>1 DEF ExpertParams

\* In a list of kinds, what opens a fused projection is followed by the next of its kinds.
KindsLinked(kinds) ==
  \A i \in 1 .. Len(kinds) :
    /\ kinds[i] \in Closes => i > 1 /\ kinds[i - 1] \in Opens
    /\ kinds[i] \in Opens => i < Len(kinds) /\ kinds[i + 1] \in Closes

\* What a sequence of parameters of one layer has in common with its kinds.
LEMMA SoleIs ==
  ASSUME NEW vp \in Int, NEW id \in Int, NEW kinds \in Seq(Kinds)
  PROVE  /\ \A x \in Elements(SoleParams(vp, id, kinds)) :
              x.vp = vp /\ x.layer = id /\ x.expert = None /\ x.kind \in Elements(kinds)
         /\ \A k \in Elements(kinds) : \E x \in Elements(SoleParams(vp, id, kinds)) : x.kind = k
         /\ Distinct(kinds) => Distinct(SoleParams(vp, id, kinds))
         /\ KindsLinked(kinds) => Linked(SoleParams(vp, id, kinds))
<1> DEFINE s == SoleParams(vp, id, kinds)
           n == Len(kinds)
<1>1. /\ s \in Seq(ParamSet) /\ Len(s) = n /\ n \in Nat
      /\ \A i \in 1 .. n : s[i] = [vp |-> vp, layer |-> id, expert |-> None, kind |-> kinds[i]]
  BY SoleFacts
<1> HIDE DEF s
<1>2. \A i \in 1 .. n : s[i].vp = vp /\ s[i].layer = id /\ s[i].expert = None /\ s[i].kind = kinds[i]
  <2> SUFFICES ASSUME NEW i \in 1 .. n
               PROVE  s[i].vp = vp /\ s[i].layer = id /\ s[i].expert = None /\ s[i].kind = kinds[i]
    OBVIOUS
  <2> DEFINE e == [vp |-> vp, layer |-> id, expert |-> None, kind |-> kinds[i]]
  <2>1. s[i] = e
    BY <1>1
  <2>2. e.vp = vp /\ e.layer = id /\ e.expert = None /\ e.kind = kinds[i]
    OBVIOUS
  <2> HIDE DEF e
  <2> QED
    BY <2>1, <2>2
<1>3. Len(s) = n /\ n \in Nat
  BY <1>1
<1>4. KindsLinked(kinds) => Linked(s)
  <2> SUFFICES ASSUME KindsLinked(kinds), NEW i \in 1 .. n
               PROVE  /\ s[i].kind \in Closes => i > 1 /\ Follows(s[i - 1], s[i])
                      /\ s[i].kind \in Opens => i < n /\ Follows(s[i], s[i + 1])
    BY <1>3 DEF Linked
  <2> QED
    BY <1>2, <1>3 DEF Follows, KindsLinked
<1> QED
  BY <1>2, <1>3, <1>4 DEF s, Elements, Distinct

\* The kinds of a layer's attention: each once, and the halves of a fused projection in order.
LEMMA AttentionKindsAre ==
  ASSUME NEW l, NEW layer, l.qLora \in BOOLEAN
  PROVE  /\ AttentionKinds(l, layer) \in Seq(Kinds)
         /\ Elements(AttentionKinds(l, layer)) = AttentionSet(l, layer)
         /\ Distinct(AttentionKinds(l, layer))
         /\ l.qLora => KindsLinked(AttentionKinds(l, layer))
<1>1. AttentionKinds(l, layer) \in Seq(Kinds)
  BY KindSequences DEF AttentionKinds
<1>2. CASE Lightning(l, layer)
  <2>1. Len(LightningKinds) = 8
    BY DEF LightningKinds
  <2>2. KindsLinked(LightningKinds)
    BY <2>1 DEF KindsLinked, LightningKinds, Opens, Closes
  <2> QED
    BY <1>1, <1>2, <2>1, <2>2 DEF AttentionKinds, Distinct, LightningKinds, Elements, AttentionSet
<1>3. CASE ~Lightning(l, layer) /\ l.qLora
  <2>1. Len(LoraKinds) = 9
    BY DEF LoraKinds
  <2>2. Elements(LoraKinds) = AttentionSet(l, layer)
    BY <2>1, <1>3 DEF Elements, LoraKinds, AttentionSet, Opens
  <2>3. KindsLinked(LoraKinds)
    BY <2>1 DEF KindsLinked, LoraKinds, Opens, Closes
  <2> QED
    BY <1>1, <1>3, <2>2, <2>1, <2>3 DEF AttentionKinds, Distinct, LoraKinds
<1>4. CASE ~Lightning(l, layer) /\ ~l.qLora
  <2>1. Len(PlainKinds) = 7
    BY DEF PlainKinds
  <2>2. Elements(PlainKinds) = AttentionSet(l, layer)
    BY <2>1, <1>4 DEF Elements, PlainKinds, AttentionSet, Opens
  <2> QED
    BY <1>1, <1>4, <2>2, <2>1 DEF AttentionKinds, Distinct, PlainKinds
<1> QED
  BY <1>2, <1>3, <1>4

\* A part of a model: of which parameters it consists, and in what order.
Part(s, set, l) ==
  /\ s \in Seq(ParamSet)
  /\ Elements(s) = set
  /\ Distinct(s)
  /\ l.qLora => Linked(s)

\* Two parts of a model that share no parameter make one part.
LEMMA PartConcat ==
  ASSUME NEW l, NEW s, NEW t, NEW A, NEW B, Part(s, A, l), Part(t, B, l), A \cap B = {}
  PROVE  Part(s \o t, A \cup B, l)
<1> QED
  BY ConcatElements, ConcatDistinct, LinkedConcat DEF Part

\* The parameters of a layer of given kinds.
Of(vp, id, kinds) == {p \in ParamSet : p.vp = vp /\ p.layer = id /\ p.expert = None /\ p.kind \in kinds}
OfExpert(l, vp, id, kind) ==
  {p \in ParamSet : p.vp = vp /\ p.layer = id /\ p.expert \in 0 .. LocalExperts(l) - 1 /\ p.kind = kind}

\* A run of parameters of one layer is a part of the model.
LEMMA SolePart ==
  ASSUME NEW l, NEW vp \in Int, NEW id \in Int, NEW kinds \in Seq(Kinds), Distinct(kinds),
         l.qLora => KindsLinked(kinds)
  PROVE  Part(SoleParams(vp, id, kinds), Of(vp, id, Elements(kinds)), l)
<1>1. SoleParams(vp, id, kinds) \in Seq(ParamSet)
  BY SoleFacts
<1>2. \A x \in Elements(SoleParams(vp, id, kinds)) : x \in ParamSet
  BY <1>1 DEF Elements
<1>3. \A x \in Elements(SoleParams(vp, id, kinds)) :
         x.vp = vp /\ x.layer = id /\ x.expert = None /\ x.kind \in Elements(kinds)
  BY SoleIs
<1>4. ASSUME NEW p \in Of(vp, id, Elements(kinds)) PROVE p \in Elements(SoleParams(vp, id, kinds))
  <2>1. PICK x \in Elements(SoleParams(vp, id, kinds)) : x.kind = p.kind
    BY SoleIs DEF Of
  <2> QED
    BY <2>1, <1>2, <1>3 DEF ParamSet, Of
<1> QED
  BY <1>1, <1>2, <1>3, SoleIs, <1>4 DEF Part, Of

\* A run of parameters of the local experts is a part of the model.
LEMMA ExpertPart ==
  ASSUME NEW l, LocalExperts(l) \in Nat, NEW vp \in Int, NEW id \in Int, NEW kind \in ExpertKinds
  PROVE  Part(ExpertParams(l, vp, id, kind), OfExpert(l, vp, id, kind), l)
<1> DEFINE s == ExpertParams(l, vp, id, kind)
           n == LocalExperts(l)
<1>1. kind \in Kinds /\ kind \notin Opens /\ kind \notin Closes
  BY DEF ExpertKinds, Kinds, Opens, Closes
<1>2. /\ s \in Seq(ParamSet) /\ Len(s) = n
      /\ \A e \in 1 .. n : s[e] = [vp |-> vp, layer |-> id, expert |-> e - 1, kind |-> kind]
  BY <1>1, ExpertFacts
<1> HIDE DEF s
<1>3. \A e \in 1 .. n : s[e] \in ParamSet /\ s[e].vp = vp /\ s[e].layer = id /\ s[e].expert = e - 1 /\ s[e].kind = kind
  BY <1>2
<1>4. Elements(s) = OfExpert(l, vp, id, kind)
  <2>1. ASSUME NEW p \in OfExpert(l, vp, id, kind) PROVE p \in Elements(s)
    <3>1. p.expert + 1 \in 1 .. n /\ (p.expert + 1) - 1 = p.expert /\ p \in ParamSet
      BY DEF OfExpert
    <3> QED
      BY <1>2, <3>1, <1>3 DEF Elements, ParamSet, OfExpert
  <2> QED
    BY <1>2, <1>3, <2>1 DEF Elements, OfExpert
<1>5. Distinct(s)
  <2> SUFFICES ASSUME NEW i \in 1 .. n, NEW j \in 1 .. n, s[i] = s[j] PROVE i = j
    BY <1>2 DEF Distinct
  <2> QED
    BY <1>3
<1> QED
  BY <1>2, <1>4, <1>5, <1>1, <1>3 DEF Part, s, Linked

-----------------------------------------------------------------------------
\* The assumptions on the layouts, for one of them.
LEMMA LayoutFacts ==
  ASSUME NEW l \in Layouts
  PROVE  /\ l.tp \in Nat \ {0} /\ l.pp \in Nat \ {0} /\ l.vp \in Nat \ {0} /\ l.ep \in Nat \ {0}
         /\ l.heads \in Nat \ {0} /\ l.kvHeads \in Nat \ {0} /\ l.headRows \in Nat \ {0}
         /\ l.hidden \in Nat \ {0} /\ l.group \in Nat \ {0}
         /\ l.kvChannels \in Nat /\ l.layers \in Nat /\ l.dense \in Nat /\ l.experts \in Nat /\ l.width \in Nat
         /\ l.replicated \in BOOLEAN /\ l.qLora \in BOOLEAN
         /\ l.layers % (l.pp * l.vp) = 0
         /\ StageSize(l) \in Nat /\ LocalExperts(l) \in Nat
<1>1. /\ l.tp \in Nat \ {0} /\ l.pp \in Nat \ {0} /\ l.vp \in Nat \ {0} /\ l.ep \in Nat \ {0}
      /\ l.layers % (l.pp * l.vp) = 0
  BY HybridModelAssumption DEF HybridModelAssumption
<1> QED
  BY <1>1, McoreConverterAssumption DEF StageSize, LocalExperts, McoreConverterAssumption

\* The parameters of one layer of a stage.
InStage(l, vp, id, layer) == {p \in ParamSet : p.vp = vp /\ p.layer = id /\ InLayer(l, layer, p)}

\* A layer is a part of the model, and has a layernorm before its MLP.
LEMMA LayerPart ==
  ASSUME NEW l \in Layouts, NEW layer, NEW vp \in Int, NEW id \in Int
  PROVE  Part(NamesOf(vp, id, McoreLayer(l, layer)), InStage(l, vp, id, layer), l)
<1>1. l.qLora \in BOOLEAN /\ LocalExperts(l) \in Nat
  BY LayoutFacts
<1> DEFINE kinds == AttentionKinds(l, layer)
           A == SoleParams(vp, id, kinds)
           M == MlpParams(l, vp, id, layer)
           mlp == {p \in ParamSet : p.vp = vp /\ p.layer = id /\
                     \/ p.expert = None /\ p.kind \in MlpSet(l, layer)
                     \/ ~Dense(l, layer) /\ p.expert \in 0 .. LocalExperts(l) - 1 /\ p.kind \in ExpertKinds}
<1>2. NamesOf(vp, id, McoreLayer(l, layer)) = A \o M
  BY <1>1, LayerParamsAre
<1>3. Part(A, Of(vp, id, AttentionSet(l, layer)), l)
  BY <1>1, AttentionKindsAre, SolePart
<1>4. Part(M, mlp, l)
  <2>1. CASE Dense(l, layer)
    <3> DEFINE k == <<"fc1", "fc2">>
    <3>1. k \in Seq(Kinds) /\ Distinct(k) /\ KindsLinked(k) /\ Elements(k) = {"fc1", "fc2"}
      BY KindSequences DEF Distinct, KindsLinked, Opens, Closes, Elements
    <3> HIDE DEF k
    <3>2. Part(SoleParams(vp, id, k), Of(vp, id, {"fc1", "fc2"}), l)
      BY <3>1, SolePart
    <3> QED
      BY <2>1, <3>2 DEF MlpParams, Part, k, Of, MlpSet
  <2>2. CASE ~Dense(l, layer)
    <3> DEFINE k == <<"router">>
               h == <<"shared_fc1", "shared_fc2">>
               K == SoleParams(vp, id, k)
               H == SoleParams(vp, id, h)
               O == ExpertParams(l, vp, id, "expert_fc1")
               T == ExpertParams(l, vp, id, "expert_fc2")
               a == Of(vp, id, {"router"})
               b == OfExpert(l, vp, id, "expert_fc1")
               c == OfExpert(l, vp, id, "expert_fc2")
               d == Of(vp, id, {"shared_fc1", "shared_fc2"})
    <3>1. k \in Seq(Kinds) /\ Distinct(k) /\ KindsLinked(k) /\ Elements(k) = {"router"}
      BY KindSequences DEF Distinct, KindsLinked, Opens, Closes, Elements
    <3>2. h \in Seq(Kinds) /\ Distinct(h) /\ KindsLinked(h) /\ Elements(h) = {"shared_fc1", "shared_fc2"}
      BY KindSequences DEF Distinct, KindsLinked, Opens, Closes, Elements
    <3>3. M = K \o O \o T \o H
      BY <2>2 DEF MlpParams
    <3> HIDE DEF k, h
    <3>4. Part(K, a, l) /\ Part(H, d, l)
      BY <3>1, <3>2, SolePart
    <3>5. Part(O, b, l) /\ Part(T, c, l)
      BY <1>1, ExpertPart DEF ExpertKinds
    <3>6. /\ a \cap b = {} /\ (a \cup b) \cap c = {} /\ ((a \cup b) \cup c) \cap d = {}
      BY DEF Of, OfExpert
    <3>7. ((a \cup b) \cup c) \cup d = mlp
      BY <2>2 DEF Of, OfExpert, MlpSet, ExpertKinds
    <3> HIDE DEF K, O, T, H, a, b, c, d
    <3>8. Part(K \o O \o T \o H, ((a \cup b) \cup c) \cup d, l)
      BY <3>4, <3>6, <3>5, PartConcat
    <3> QED
      BY <3>3, <3>7, <3>8 DEF Part
  <2> QED
    BY <2>1, <2>2
<1>5. Of(vp, id, AttentionSet(l, layer)) \cap mlp = {}
  BY DEF Of, AttentionSet, MlpSet, ExpertKinds, Opens
<1>6. Of(vp, id, AttentionSet(l, layer)) \cup mlp = InStage(l, vp, id, layer)
  BY DEF Of, InStage, InLayer
<1> HIDE DEF A, M, mlp
<1> QED
  BY <1>2, <1>6, <1>3, <1>4, <1>5, PartConcat

\* Parts of the model that share no parameter flatten to one part.
LEMMA FlattenPart ==
  ASSUME NEW l, NEW n \in Nat, NEW seqs, NEW sets, seqs = [i \in 1 .. n |-> seqs[i]],
         \A i \in 1 .. n : Part(seqs[i], sets[i], l),
         \A i, j \in 1 .. n : i # j => sets[i] \cap sets[j] = {}
  PROVE  Part(FlattenSeq(seqs), UNION {sets[i] : i \in 1 .. n}, l)
<1>1. \A i \in 1 .. n : seqs[i] \in Seq(ParamSet) /\ Elements(seqs[i]) = sets[i] /\ Distinct(seqs[i])
  BY DEF Part
<1>2. seqs \in Seq(Seq(ParamSet)) /\ Len(seqs) = n
  BY <1>1
<1>3. Distinct(FlattenSeq(seqs))
  <2>1. \A i, j \in 1 .. n : i # j => Elements(seqs[i]) \cap Elements(seqs[j]) = {}
    BY <1>1
  <2> QED
    BY <1>1, <1>2, <2>1, FlattenDistinct
<1>4. l.qLora => Linked(FlattenSeq(seqs))
  <2> SUFFICES ASSUME l.qLora PROVE Linked(FlattenSeq(seqs))
    OBVIOUS
  <2>1. CASE n = 0
    BY <1>2, <2>1 DEF Linked, FlattenSeq
  <2>2. CASE n # 0
    <3> DEFINE T == {s \in Seq(ParamSet) : Linked(s)}
    <3>1. \A s, t \in T : s \o t \in T
      <4> SUFFICES ASSUME NEW s \in T, NEW t \in T PROVE s \o t \in T
        OBVIOUS
      <4> QED
        BY LinkedConcat
    <3> HIDE DEF T
    <3> QED
      BY <1>2, <3>1, <2>2, FlattenKeeps DEF T, Part
  <2> QED
    BY <2>1, <2>2
<1>5. UNION {Elements(seqs[i]) : i \in 1 .. n} = UNION {sets[i] : i \in 1 .. n}
  BY <1>1
<1> QED
  BY <1>2, FlattenType, FlattenElements, <1>3, <1>4, <1>5 DEF Part

-----------------------------------------------------------------------------
\* The parameters of a chunk outside its layers, those of its layers, and its biases.
OuterOf(l, pp, vp) ==
  (IF pp = 0 /\ vp = 0 THEN {"word_embeddings"} ELSE {})
  \cup (IF pp = l.pp - 1 /\ vp = l.vp - 1 THEN {"final_layernorm", "output_layer"} ELSE {})
OuterParam(l, pp, vp, p) ==
  p.vp = vp /\ p.layer = None /\ p.expert = None /\ p.kind \in OuterOf(l, pp, vp)
StageParams(l, pp, vp) ==
  {p \in ParamSet : p.vp = vp /\ p.layer \in 0 .. StageSize(l) - 1 /\ InLayer(l, HeldLayer(l, pp, vp, p.layer), p)}
BiasParams(l, pp, vp) ==
  {p \in ParamSet : p.vp = vp /\ p.layer \in 0 .. StageSize(l) - 1 /\ IsBias(l, HeldLayer(l, pp, vp, p.layer), p)}

\* What is a parameter of a stage.
ParamOK(l, pp, p) ==
  /\ p \in ParamSet /\ p.vp \in 0 .. l.vp - 1
  /\ \/ OuterParam(l, pp, p.vp, p)
     \/ /\ p.layer \in 0 .. StageSize(l) - 1
        /\ \/ InLayer(l, HeldLayer(l, pp, p.vp, p.layer), p)
           \/ IsBias(l, HeldLayer(l, pp, p.vp, p.layer), p)

\* A layer shows in the parameters by its layernorm, which is no expert's.
HasLayer(s, vp, id) ==
  \E p \in Elements(s) : p.vp = vp /\ p.layer = id /\ p.expert = None /\ p.kind = "pre_mlp_layernorm"

\* The parameters of a stage, in the order they are converted.
Params(l, pp) ==
  FlattenSeq([vp \in 1 .. l.vp |-> NamedParameters(l, pp, vp - 1) \o ExpertBiases(l, pp, vp - 1)])

\* The empty sequence is a part of any set of parameters.
LEMMA EmptyPart ==
  ASSUME NEW l
  PROVE  Part(<<>>, {}, l)
  BY DEF Part, Elements, Distinct, Linked

\* The embeddings, and the head, are parts of the model.
LEMMA OuterPart ==
  ASSUME NEW l, NEW vp \in Int, NEW kinds \in Seq(Kinds), Distinct(kinds), KindsLinked(kinds)
  PROVE  /\ NamesOf(vp, None, Sole(kinds)) = SoleParams(vp, None, kinds)
         /\ Part(SoleParams(vp, None, kinds), Of(vp, None, Elements(kinds)), l)
<1> QED
  BY NamesOfSole, SolePart DEF None

\* One chunk of a stage names its parameters once each, and has every layer of the stage.
LEMMA StagePart ==
  ASSUME NEW l \in Layouts, NEW pp \in Int, NEW vp \in Int
  PROVE  Part(NamedParameters(l, pp, vp),
              {p \in ParamSet : OuterParam(l, pp, vp, p)} \cup StageParams(l, pp, vp), l)
<1> DEFINE n == StageSize(l)
           layers == [id \in 1 .. n |-> NamesOf(vp, id - 1, McoreLayer(l, HeldLayer(l, pp, vp, id - 1)))]
           sets == [id \in 1 .. n |-> InStage(l, vp, id - 1, HeldLayer(l, pp, vp, id - 1))]
           a == <<"word_embeddings">>
           b == <<"final_layernorm", "output_layer">>
           pre == IF pp = 0 /\ vp = 0 THEN SoleParams(vp, None, a) ELSE <<>>
           post == IF pp = l.pp - 1 /\ vp = l.vp - 1 THEN SoleParams(vp, None, b) ELSE <<>>
           mid == FlattenSeq(layers)
<1>1. n \in Nat
  BY LayoutFacts
<1>2. /\ a \in Seq(Kinds) /\ Distinct(a) /\ KindsLinked(a) /\ Elements(a) = {"word_embeddings"}
  BY KindSequences DEF Distinct, KindsLinked, Opens, Closes, Elements
<1>3. /\ b \in Seq(Kinds) /\ Distinct(b) /\ KindsLinked(b) /\ Elements(b) = {"final_layernorm", "output_layer"}
  BY KindSequences DEF Distinct, KindsLinked, Opens, Closes, Elements
<1>4. NamesOf(vp, None, <<<<None, "word_embeddings">>>>) = SoleParams(vp, None, a)
  BY DEF NamesOf, SoleParams
<1>5. NamesOf(vp, None, <<<<None, "final_layernorm">>, <<None, "output_layer">>>>) = SoleParams(vp, None, b)
  <2>1. Sole(b) = <<<<None, "final_layernorm">>, <<None, "output_layer">>>>
    BY DEF Sole
  <2> HIDE DEF b
  <2> QED
    BY <1>3, <2>1, OuterPart
<1>6. NamedParameters(l, pp, vp) = pre \o mid \o post
  BY <1>4, <1>5 DEF NamedParameters, NamesOf
<1> HIDE DEF a, b
<1> DEFINE A == IF pp = 0 /\ vp = 0 THEN Of(vp, None, {"word_embeddings"}) ELSE {}
           B == IF pp = l.pp - 1 /\ vp = l.vp - 1 THEN Of(vp, None, {"final_layernorm", "output_layer"}) ELSE {}
           S == UNION {sets[id] : id \in 1 .. n}
<1>7. Part(pre, A, l) /\ Part(post, B, l)
  BY <1>2, OuterPart, <1>3, EmptyPart
<1>8. Part(mid, S, l)
  <2>1. layers = [id \in 1 .. n |-> layers[id]]
    OBVIOUS
  <2>2. \A id \in 1 .. n : Part(layers[id], sets[id], l)
    BY <1>1, LayerPart
  <2>3. \A i, j \in 1 .. n : i # j => sets[i] \cap sets[j] = {}
    BY <1>1 DEF InStage
  <2> HIDE DEF layers, sets
  <2> QED
    BY <1>1, <2>1, <2>2, <2>3, FlattenPart
<1>9. S = StageParams(l, pp, vp)
  <2>1. ASSUME NEW id \in 1 .. n, NEW p \in InStage(l, vp, id - 1, HeldLayer(l, pp, vp, id - 1))
        PROVE  p \in StageParams(l, pp, vp)
    BY <1>1 DEF StageParams, InStage
  <2>2. ASSUME NEW p \in StageParams(l, pp, vp) PROVE p \in S
    <3>1. p.layer + 1 \in 1 .. n /\ (p.layer + 1) - 1 = p.layer
      BY <1>1 DEF StageParams
    <3> QED
      BY <3>1 DEF StageParams, InStage
  <2> QED
    BY <2>1, <2>2
<1>10. A \cap S = {} /\ (A \cup S) \cap B = {}
  <2> HIDE DEF S
  <2> QED
    BY <1>9, <1>1 DEF Of, StageParams, None
<1>11. (A \cup S) \cup B = {p \in ParamSet : OuterParam(l, pp, vp, p)} \cup StageParams(l, pp, vp)
  <2> HIDE DEF S
  <2> QED
    BY <1>9 DEF Of, OuterParam, OuterOf
<1> HIDE DEF pre, mid, post, A, B, S
<1>12. Part(pre \o mid \o post, (A \cup S) \cup B, l)
  BY <1>7, <1>10, <1>8, PartConcat
<1> QED
  BY <1>6, <1>11, <1>12

\* The expert biases of a chunk are a part of the model.
LEMMA BiasPart ==
  ASSUME NEW l \in Layouts, NEW pp \in Int, NEW vp \in Int
  PROVE  Part(ExpertBiases(l, pp, vp), BiasParams(l, pp, vp), l)
<1> DEFINE n == StageSize(l)
           bias(id) == [vp |-> vp, layer |-> id - 1, expert |-> None, kind |-> "expert_bias"]
           seqs == [id \in 1 .. n |-> IF Dense(l, HeldLayer(l, pp, vp, id - 1)) THEN <<>> ELSE <<bias(id)>>]
           sets == [id \in 1 .. n |-> {p \in BiasParams(l, pp, vp) : p.layer = id - 1}]
<1>1. n \in Nat
  BY LayoutFacts
<1>2. ASSUME NEW id \in 1 .. n PROVE Part(seqs[id], sets[id], l)
  <2>1. CASE Dense(l, HeldLayer(l, pp, vp, id - 1))
    <3>1. sets[id] = {} /\ seqs[id] = <<>>
      BY <2>1 DEF BiasParams, IsBias
    <3> HIDE DEF sets, seqs
    <3> QED
      BY <3>1, EmptyPart
  <2>2. CASE ~Dense(l, HeldLayer(l, pp, vp, id - 1))
    <3> DEFINE e == bias(id)
    <3>1. seqs[id] = <<e>>
      BY <2>2
    <3>2. e \in ParamSet
      BY <1>1 DEF ParamSet, Kinds, None
    <3>3. e \in BiasParams(l, pp, vp) /\ e.layer = id - 1
      <4>1. e.vp = vp /\ e.layer = id - 1 /\ e.expert = None /\ e.kind = "expert_bias"
        OBVIOUS
      <4> HIDE DEF e
      <4> QED
        BY <2>2, <3>2, <4>1, <1>1 DEF BiasParams, IsBias
    <3>4. e.kind \notin Opens /\ e.kind \notin Closes
      BY DEF Opens, Closes
    <3>5. sets[id] = {e}
      <4>1. ASSUME NEW p \in sets[id] PROVE p = e
        BY DEF ParamSet, BiasParams, IsBias
      <4> HIDE DEF e
      <4> QED
        BY <3>3, <4>1
    <3> HIDE DEF e, sets, seqs
    <3> QED
      BY <3>1, <3>5, <3>2, <3>4 DEF Part, Elements, Distinct, Linked
  <2> QED
    BY <2>1, <2>2
<1>3. \A i, j \in 1 .. n : i # j => sets[i] \cap sets[j] = {}
  OBVIOUS
<1>4. seqs = [id \in 1 .. n |-> seqs[id]]
  OBVIOUS
<1>5. ExpertBiases(l, pp, vp) = FlattenSeq(seqs)
  BY DEF ExpertBiases
<1>6. UNION {sets[i] : i \in 1 .. n} = BiasParams(l, pp, vp)
  <2>1. ASSUME NEW p \in BiasParams(l, pp, vp) PROVE p.layer + 1 \in 1 .. n /\ p \in sets[p.layer + 1]
    BY <1>1 DEF BiasParams
  <2> QED
    BY <2>1
<1> HIDE DEF seqs, sets
<1>7. Part(FlattenSeq(seqs), UNION {sets[i] : i \in 1 .. n}, l)
  BY <1>1, <1>2, <1>3, <1>4, FlattenPart
<1> QED
  BY <1>5, <1>6, <1>7 DEF Part

\* The parameters of a rank.
LEMMA ParamsPart ==
  ASSUME NEW l \in Layouts, NEW pp \in Int
  PROVE  /\ Part(Params(l, pp), {p \in ParamSet : ParamOK(l, pp, p)}, l)
         /\ \A vp \in 0 .. l.vp - 1, id \in 0 .. StageSize(l) - 1 : HasLayer(Params(l, pp), vp, id)
<1> DEFINE n == l.vp
           N(vp) == NamedParameters(l, pp, vp - 1)
           E(vp) == ExpertBiases(l, pp, vp - 1)
           seqs == [vp \in 1 .. n |-> N(vp) \o E(vp)]
           sets == [vp \in 1 .. n |-> ({p \in ParamSet : OuterParam(l, pp, vp - 1, p)} \cup StageParams(l, pp, vp - 1))
                                      \cup BiasParams(l, pp, vp - 1)]
<1>1. n \in Nat
  BY LayoutFacts
<1>2. ASSUME NEW vp \in 1 .. n
      PROVE  Part(seqs[vp], sets[vp], l)
  <2>1. vp - 1 \in Int
    BY <1>1
  <2>2. Part(N(vp), {p \in ParamSet : OuterParam(l, pp, vp - 1, p)} \cup StageParams(l, pp, vp - 1), l)
    BY <2>1, StagePart
  <2>3. Part(E(vp), BiasParams(l, pp, vp - 1), l)
    BY <2>1, BiasPart
  <2>4. ({p \in ParamSet : OuterParam(l, pp, vp - 1, p)} \cup StageParams(l, pp, vp - 1)) \cap BiasParams(l, pp, vp - 1) = {}
    BY
       DEF OuterParam, OuterOf, StageParams, BiasParams, InLayer, IsBias, AttentionSet, MlpSet,
         ExpertKinds, Opens
  <2>5. seqs[vp] = N(vp) \o E(vp)
    OBVIOUS
  <2>6. sets[vp] = ({p \in ParamSet : OuterParam(l, pp, vp - 1, p)} \cup StageParams(l, pp, vp - 1))
                   \cup BiasParams(l, pp, vp - 1)
    OBVIOUS
  <2> HIDE DEF N, E, seqs, sets
  <2>7. Part(N(vp) \o E(vp), sets[vp], l)
    <3> DEFINE A == {p \in ParamSet : OuterParam(l, pp, vp - 1, p)} \cup StageParams(l, pp, vp - 1)
               B == BiasParams(l, pp, vp - 1)
    <3>1. Part(N(vp), A, l) /\ Part(E(vp), B, l) /\ A \cap B = {} /\ sets[vp] = A \cup B
      BY <2>2, <2>3, <2>4, <2>6
    <3> HIDE DEF A, B
    <3>2. Part(N(vp) \o E(vp), A \cup B, l)
      BY ONLY <3>1, PartConcat
    <3> QED
      BY ONLY <3>1, <3>2
  <2> QED
    BY <2>5, <2>7
<1>3. \A i, j \in 1 .. n : i # j => sets[i] \cap sets[j] = {}
  BY DEF OuterParam, StageParams, BiasParams
<1>4. seqs = [vp \in 1 .. n |-> seqs[vp]]
  OBVIOUS
<1>5. Params(l, pp) = FlattenSeq(seqs)
  BY DEF Params
<1>6. UNION {sets[i] : i \in 1 .. n} = {p \in ParamSet : ParamOK(l, pp, p)}
  <2>1. ASSUME NEW i \in 1 .. n, NEW p \in sets[i] PROVE p \in ParamSet /\ ParamOK(l, pp, p)
    BY <1>1 DEF ParamOK, StageParams, BiasParams, OuterParam
  <2>2. ASSUME NEW p \in ParamSet, ParamOK(l, pp, p) PROVE p.vp + 1 \in 1 .. n /\ p \in sets[p.vp + 1]
    BY <2>2, <1>1 DEF ParamOK, StageParams, BiasParams
  <2> QED
    BY <2>1, <2>2
<1> HIDE DEF seqs, sets
<1>7. Part(FlattenSeq(seqs), UNION {sets[i] : i \in 1 .. n}, l)
  BY <1>1, <1>2, <1>3, <1>4, FlattenPart
<1>8. ASSUME NEW vp \in 0 .. l.vp - 1, NEW id \in 0 .. StageSize(l) - 1 PROVE HasLayer(Params(l, pp), vp, id)
  <2> DEFINE p == [vp |-> vp, layer |-> id, expert |-> None, kind |-> "pre_mlp_layernorm"]
  <2>1. p \in ParamSet /\ StageSize(l) \in Nat
    BY <1>1, LayoutFacts DEF ParamSet, Kinds, None
  <2> QED
    BY <1>5, <1>6, <1>7, <2>1 DEF HasLayer, Part, ParamOK, InLayer, AttentionSet
<1> QED
  BY <1>5, <1>6, <1>7, <1>8

----------------------------------------------------------------------------
\* What a conversion answers.

\* The first rank of a tensor parallel group, and the tensor that a conversion is given.
Base(l, r) == r - TpRank(l, r)
TensorOf(l, r, p) ==
  IF Gathers(l, r, p) THEN FlattenSeq([i \in 1 .. l.tp |-> McoreTensor(l, Base(l, r) + i - 1, p)])
  ELSE McoreTensor(l, r, p)

\* The first half of a fused projection, and the cache before and after a parameter.
DownOf(p) == [vp |-> p.vp, layer |-> p.layer, expert |-> None, kind |-> "linear_q_down_proj"]
Half(l, r, p, layer) == [layer |-> layer, part |-> "q_a_proj", rows |-> TensorOf(l, r, DownOf(p))]

CacheBefore(l, r, p, layer) ==
  IF l.qLora /\ TpRank(l, r) = 0 /\ p.kind \in Closes THEN {Half(l, r, p, layer)} ELSE {}
CacheAfter(l, r, p, layer) ==
  IF l.qLora /\ TpRank(l, r) = 0 /\ p.kind \in Opens THEN {Half(l, r, p, layer)} ELSE {}

\* The name of the part that a parameter of a kind becomes.
PartName ==
  [word_embeddings |-> "embed_tokens", final_layernorm |-> "norm", output_layer |-> "lm_head",
   input_layernorm |-> "input_layernorm", attn_input_layernorm |-> "input_layernorm",
   linear_qkv |-> "query_key_value", q_layernorm |-> "query_layernorm", k_layernorm |-> "key_layernorm",
   linear_gate |-> "g_proj", gate_norm |-> "g_norm", linear_proj |-> "dense",
   linear_q_proj |-> "q_proj", linear_kv_down_proj |-> "kv_a_proj_with_mqa",
   linear_kv_up_proj |-> "kv_b_proj", linear_kv_up_layer_norm |-> "kv_a_layernorm",
   linear_q_up_proj |-> "q_b_proj", linear_q_up_layer_norm |-> "q_a_layernorm",
   pre_mlp_layernorm |-> "post_attention_layernorm", router |-> "gate", expert_bias |-> "expert_bias",
   fc2 |-> "down_proj", expert_fc2 |-> "down_proj", shared_fc2 |-> "shared_down_proj"]

\* Parameters of MLPs that become two parts; types; experts by their number in the model.
FirstKinds == {"fc1", "expert_fc1", "shared_fc1"}
FirstNames(kind) ==
  IF kind = "shared_fc1" THEN <<"shared_gate_proj", "shared_up_proj">> ELSE <<"gate_proj", "up_proj">>
Dtype(kind) == IF kind \in {"output_layer", "expert_bias"} THEN "fp32" ELSE "bf16"
ExpertOf(l, r, p) == IF p.kind \in ExpertKinds THEN ExpertId(l, r, p.expert) ELSE None

\* The fused down projections of latent attention.
Fused(l, r, p) ==
  LET q == TensorOf(l, r, DownOf(p))
      kv == TensorOf(l, r, p)
  IN IF l.tp = 1 THEN q \o kv ELSE PackFused(q, kv, l.infTp)

\* The entries of a parameter, under a number of its layer.
EntriesOf(l, r, p, layer) ==
  LET rows == TensorOf(l, r, p)
      half == Len(rows) \div 2
  IN IF p.kind \in FirstKinds
       THEN <<Entry(layer, ExpertOf(l, r, p), FirstNames(p.kind)[1], "bf16", SubSeq(rows, 1, half)),
              Entry(layer, ExpertOf(l, r, p), FirstNames(p.kind)[2], "bf16", SubSeq(rows, half + 1, 2 * half))>>
     ELSE IF p.kind \in DownProjections /\ TpRank(l, r) # 0 THEN <<>>
     ELSE IF p.kind = "linear_q_down_proj" THEN <<>>
     ELSE IF p.kind = "linear_kv_down_proj" /\ l.qLora
       THEN <<Entry(layer, None, "fused_qkv_a_proj_with_mqa", "bf16", Fused(l, r, p))>>
     ELSE IF p.kind = "linear_qkv"
       THEN <<Entry(layer, None, "query_key_value", "bf16", ConvertQkv(l, r, rows))>>
     ELSE <<Entry(layer, ExpertOf(l, r, p), PartName[p.kind], Dtype(p.kind), rows)>>

\* The half that comes first waits.
LEMMA FirstHalf ==
  ASSUME NEW l, NEW layer, NEW rows
  PROVE  TryFuse(l, {}, layer, "q_a_proj", rows)
           = Converted(<<>>, {[layer |-> layer, part |-> "q_a_proj", rows |-> rows]})
<1> DEFINE h == [layer |-> layer, part |-> "q_a_proj", rows |-> rows]
           halves == {x \in {} : ~(x.layer = layer /\ x.part = "q_a_proj")} \cup {h}
           mine == {x \in halves : x.layer = layer}
<1>1. halves = {h} /\ mine = {h}
  OBVIOUS
<1>2. Cardinality({h}) = 1
  BY FS_Singleton
<1>3. Cardinality(mine) < 2
  BY <1>1, <1>2
<1> HIDE DEF h
<1> QED
  BY <1>1, <1>3 DEF TryFuse, h

\* The second half of a fused projection takes the first out of the cache and is fused with it.
LEMMA SecondHalf ==
  ASSUME NEW l, NEW layer, NEW q, NEW kv
  PROVE  TryFuse(l, {[layer |-> layer, part |-> "q_a_proj", rows |-> q]}, layer, "kv_a_proj_with_mqa", kv)
           = Converted(<<Entry(layer, None, "fused_qkv_a_proj_with_mqa", "bf16",
                               IF l.tp = 1 THEN q \o kv ELSE PackFused(q, kv, l.infTp))>>, {})
<1> DEFINE g == [layer |-> layer, part |-> "q_a_proj", rows |-> q]
           h == [layer |-> layer, part |-> "kv_a_proj_with_mqa", rows |-> kv]
           halves == {x \in {g} : ~(x.layer = layer /\ x.part = "kv_a_proj_with_mqa")} \cup {h}
           mine == {x \in halves : x.layer = layer}
           Mate(x) == (CHOOSE y \in mine : y.part = x).rows
<1>1. /\ g.layer = layer /\ g.part = "q_a_proj" /\ g.rows = q
      /\ h.layer = layer /\ h.part = "kv_a_proj_with_mqa" /\ h.rows = kv
  OBVIOUS
<1>2. g # h
  BY <1>1
<1> HIDE DEF g, h
<1>3. halves = {g, h} /\ mine = {g, h}
  BY <1>1
<1>4. Cardinality({g, h}) = 2
  <2>1. Cardinality({g}) = 1 /\ IsFiniteSet({g}) /\ h \notin {g}
    BY <1>2, FS_Singleton
  <2> QED
    BY <2>1, FS_AddElement
<1>5. ~(Cardinality(mine) < 2)
  BY <1>3, <1>4
<1>6. TryFuse(l, {g}, layer, "kv_a_proj_with_mqa", kv)
        = IF Cardinality(mine) < 2 THEN Converted(<<>>, halves)
          ELSE Converted(<<Entry(layer, None, "fused_qkv_a_proj_with_mqa", "bf16",
                 IF l.tp = 1 THEN Mate("q_a_proj") \o Mate("kv_a_proj_with_mqa")
                 ELSE PackFused(Mate("q_a_proj"), Mate("kv_a_proj_with_mqa"), l.infTp))>>, halves \ mine)
  BY DEF TryFuse, h
<1> QED
  BY <1>5, <1>1, <1>3, <1>6 DEF g

\* The answer of a conversion: the entries, and the cache after it.
Outcome(l, r, p, layer) == Converted(EntriesOf(l, r, p, layer), CacheAfter(l, r, p, layer))

\* A parameter of a lightning layer.
LEMMA LightningIs ==
  ASSUME NEW l, NEW r, NEW p, NEW layer, IsLinearLayer(l, layer),
         p.kind \in {"attn_input_layernorm", "linear_qkv", "q_layernorm", "k_layernorm", "linear_gate",
                     "gate_norm", "linear_proj"}
  PROVE  ConvertAttention(l, r, CacheBefore(l, r, p, layer), layer, p.kind, TensorOf(l, r, p))
           = Outcome(l, r, p, layer)
<1> DEFINE rows == TensorOf(l, r, p)
           kind == p.kind
<1>1. CacheBefore(l, r, p, layer) = {} /\ CacheAfter(l, r, p, layer) = {}
  BY DEF CacheBefore, CacheAfter, Closes, Opens
<1>2. ConvertAttention(l, r, {}, layer, kind, rows) = ConvertLightning(l, r, {}, layer, kind, rows)
  BY DEF ConvertAttention, MlaParams, DownProjections
<1>3. kind \notin FirstKinds /\ kind \notin DownProjections /\ kind \notin ExpertKinds
  BY DEF FirstKinds, DownProjections, ExpertKinds
<1>4. CASE kind = "linear_qkv"
  BY <1>1, <1>2, <1>4, <1>3 DEF Outcome, EntriesOf, ConvertLightning, LightningName
<1>5. CASE kind # "linear_qkv"
  <2>1. EntriesOf(l, r, p, layer) = <<Entry(layer, None, PartName[kind], "bf16", rows)>>
    BY <1>3, <1>5 DEF EntriesOf, ExpertOf, Dtype
  <2> QED
    BY <1>1, <1>2, <1>5, <2>1 DEF Outcome, ConvertLightning, LightningName, PartName
<1> QED
  BY <1>4, <1>5

\* A parameter of a layer with latent attention.
LEMMA MlaIs ==
  ASSUME NEW l, NEW r, NEW p, NEW layer, l.qLora \in BOOLEAN,
         p \in ParamSet, p.expert = None,
         p.kind \in {"linear_kv_down_proj", "linear_kv_up_layer_norm", "linear_kv_up_proj", "linear_proj"}
                    \cup IF l.qLora THEN Opens ELSE {"linear_q_proj"}
  PROVE  ConvertAttention(l, r, CacheBefore(l, r, p, layer), layer, p.kind, TensorOf(l, r, p))
           = Outcome(l, r, p, layer)
<1> DEFINE rows == TensorOf(l, r, p)
           kind == p.kind
           before == CacheBefore(l, r, p, layer)
<1>1. kind \notin FirstKinds /\ kind \notin ExpertKinds /\ kind # "linear_qkv"
  BY DEF FirstKinds, ExpertKinds, Opens
<1>2. ExpertOf(l, r, p) = None /\ Dtype(kind) = "bf16"
  BY DEF ExpertOf, ExpertKinds, Dtype, Opens
<1>3. kind \in DOMAIN MlaName
  BY DEF MlaName, Opens
<1>4. CASE kind = "linear_proj"
  <2>1. before = {} /\ CacheAfter(l, r, p, layer) = {}
    BY <1>4 DEF CacheBefore, CacheAfter, Closes, Opens
  <2>2. kind \notin DownProjections /\ kind \in DOMAIN LightningName
    BY <1>4 DEF DownProjections, LightningName
  <2>3. LightningName[kind] = "dense" /\ MlaName[kind] = "dense" /\ PartName[kind] = "dense"
    BY <1>4 DEF LightningName, MlaName, PartName
  <2>4. EntriesOf(l, r, p, layer) = <<Entry(layer, None, "dense", "bf16", rows)>>
    BY <1>1, <1>2, <1>4, <2>2, <2>3 DEF EntriesOf
  <2> QED
    BY <2>1, <2>2, <2>3, <1>3, <2>4 DEF Outcome, ConvertAttention, ConvertLightning, ConvertMla
<1>5. CASE kind # "linear_proj"
  <2>1. ConvertAttention(l, r, before, layer, kind, rows) = ConvertMla(l, r, before, layer, kind, rows)
    BY <1>5 DEF ConvertAttention, MlaParams, DownProjections, Opens
  <2>2. CASE kind \notin DownProjections
    <3>1. MlaName[kind] = PartName[kind]
      BY <2>2 DEF MlaName, PartName, Opens, DownProjections
    <3>2. EntriesOf(l, r, p, layer) = <<Entry(layer, None, PartName[kind], "bf16", rows)>>
      BY <1>1, <1>2, <2>2 DEF EntriesOf, DownProjections
    <3>3. before = CacheAfter(l, r, p, layer)
      BY <2>2 DEF CacheBefore, CacheAfter, Opens, Closes, DownProjections
    <3> QED
      BY <2>1, <1>3, <2>2, <3>1, <3>2, <3>3 DEF Outcome, ConvertMla
  <2>3. CASE kind \in DownProjections /\ TpRank(l, r) # 0
    BY <2>1, <2>3, <1>3, <1>1 DEF Outcome, CacheBefore, CacheAfter, ConvertMla, EntriesOf
  <2>4. CASE kind = "linear_q_down_proj" /\ TpRank(l, r) = 0
    <3>1. l.qLora
      BY <2>4 DEF Opens
    <3>2. before = {} /\ CacheAfter(l, r, p, layer) = {Half(l, r, p, layer)}
      BY <2>4, <3>1 DEF CacheBefore, CacheAfter, Opens, Closes
    <3>3. ConvertMla(l, r, {}, layer, kind, rows) = TryFuse(l, {}, layer, "q_a_proj", rows)
      BY <1>3, <2>4, <3>1 DEF ConvertMla, DownProjections, MlaName
    <3>4. EntriesOf(l, r, p, layer) = <<>>
      BY <1>1, <2>4 DEF EntriesOf, DownProjections
    <3> QED
      BY <2>1, <3>2, <2>4, <3>3, FirstHalf, <3>4 DEF Outcome, Half, DownOf, ParamSet
  <2>5. CASE kind = "linear_kv_down_proj" /\ TpRank(l, r) = 0 /\ l.qLora
    <3>1. ConvertMla(l, r, before, layer, kind, rows) = TryFuse(l, before, layer, "kv_a_proj_with_mqa", rows)
      BY <1>3, <2>5 DEF ConvertMla, DownProjections, MlaName
    <3>2. TryFuse(l, {Half(l, r, p, layer)}, layer, "kv_a_proj_with_mqa", rows)
            = Converted(<<Entry(layer, None, "fused_qkv_a_proj_with_mqa", "bf16", Fused(l, r, p))>>, {})
      BY SecondHalf DEF Half, Fused
    <3>3. EntriesOf(l, r, p, layer) = <<Entry(layer, None, "fused_qkv_a_proj_with_mqa", "bf16", Fused(l, r, p))>>
      BY <1>1, <2>5 DEF EntriesOf, DownProjections
    <3> QED
      BY <2>1, <2>5, <3>1, <3>2, <3>3 DEF Outcome, CacheBefore, CacheAfter, Opens, Closes
  <2>6. CASE kind = "linear_kv_down_proj" /\ TpRank(l, r) = 0 /\ ~l.qLora
    <3>1. MlaName[kind] = "kv_a_proj_with_mqa" /\ PartName[kind] = "kv_a_proj_with_mqa"
      BY <2>6 DEF MlaName, PartName
    <3>2. EntriesOf(l, r, p, layer) = <<Entry(layer, None, "kv_a_proj_with_mqa", "bf16", rows)>>
      BY <1>1, <1>2, <2>6, <3>1 DEF EntriesOf, DownProjections
    <3> QED
      BY <2>1, <2>6, <1>3, <3>1, <3>2
         DEF Outcome, CacheBefore, CacheAfter, ConvertMla, DownProjections
  <2> QED
    BY <2>2, <2>3, <2>4, <2>5, <2>6 DEF DownProjections
<1> QED
  BY <1>4, <1>5

\* The kinds that ConvertMlp knows.
AllMlpKinds ==
  {"router", "expert_bias", "pre_mlp_layernorm", "shared_fc1", "shared_fc2", "expert_fc1", "expert_fc2", "fc1", "fc2"}

\* ConvertMlp answers what EntriesOf says, without the cache.
LEMMA MlpIs ==
  ASSUME NEW l, NEW r, NEW p, NEW layer, p.kind \in AllMlpKinds
  PROVE  ConvertMlp(l, r, layer, p, TensorOf(l, r, p)) = EntriesOf(l, r, p, layer)
<1> DEFINE rows == TensorOf(l, r, p)
           kind == p.kind
<1>1. CASE kind \in FirstKinds
  <2>1. CASE kind = "fc1"
    BY <1>1, <2>1
       DEF ConvertMlp, EntriesOf, ConvertLinear, Projections, FirstNames, ExpertOf, ExpertKinds
  <2>2. CASE kind = "expert_fc1"
    BY <1>1, <2>2
       DEF ConvertMlp, EntriesOf, ConvertLinear, Projections, FirstNames, ExpertOf, ExpertKinds
  <2>3. CASE kind = "shared_fc1"
    BY <1>1, <2>3
       DEF ConvertMlp, EntriesOf, ConvertLinear, SharedProjections, FirstNames, ExpertOf,
         ExpertKinds
  <2> QED
    BY <1>1, <2>1, <2>2, <2>3 DEF FirstKinds
<1>2. CASE kind \notin FirstKinds
  <2>1. EntriesOf(l, r, p, layer) = <<Entry(layer, ExpertOf(l, r, p), PartName[kind], Dtype(kind), rows)>>
    BY <1>2 DEF EntriesOf, AllMlpKinds, DownProjections
  <2>2. CASE kind = "fc2"
    BY <2>1, <2>2 DEF ConvertMlp, ConvertLinear, Projections, ExpertOf, ExpertKinds, PartName, Dtype
  <2>3. CASE kind = "expert_fc2"
    BY <2>1, <2>3 DEF ConvertMlp, ConvertLinear, Projections, ExpertOf, ExpertKinds, PartName, Dtype
  <2>4. CASE kind = "shared_fc2"
    BY <2>1, <2>4
       DEF ConvertMlp, ConvertLinear, SharedProjections, ExpertOf, ExpertKinds, PartName, Dtype
  <2>5. CASE kind \in {"router", "expert_bias", "pre_mlp_layernorm"}
    BY <2>1, <2>5 DEF ConvertMlp, ExpertOf, ExpertKinds, PartName, Dtype
  <2> QED
    BY <1>2, <2>2, <2>3, <2>4, <2>5 DEF AllMlpKinds, FirstKinds
<1> QED
  BY <1>1, <1>2

----------------------------------------------------------------------------
\* Numbers, sizes and rows.

\* Quotient and remainder.
LEMMA Euclid ==
  ASSUME NEW w \in Nat, NEW d \in Nat \ {0}
  PROVE  \E q \in Nat, r \in 0 .. d - 1 : q = w \div d /\ r = w % d /\ w = q * d + r
<1>1. ASSUME NEW q \in Nat, NEW r \in Nat, q = w \div d, r = w % d PROVE w = q * d + r
  BY <1>1
<1>2. PICK q \in Nat, r \in 0 .. d - 1 : q = w \div d /\ r = w % d
  OBVIOUS
<1> QED
  BY <1>2, <1>1

\* A number given as quotient and remainder has them.
LEMMA EuclidUnique ==
  ASSUME NEW d \in Nat \ {0}, NEW b \in Nat, NEW a \in 0 .. d - 1
  PROVE  (b * d + a) \div d = b /\ (b * d + a) % d = a
<1> DEFINE w == b * d + a
<1>1. b * d \in Nat /\ w \in Nat /\ b * d <= w /\ w < b * d + d /\ w = b * d + a
  OBVIOUS
<1> HIDE DEF w
<1>2. PICK q \in Nat, r \in 0 .. d - 1 : q = w \div d /\ r = w % d /\ w = q * d + r
  BY <1>1, Euclid
<1> QED
  BY <1>1, <1>2 DEF w

\* Between two multiples of d lies at least d.
LEMMA MultipleLess ==
  ASSUME NEW a \in Nat, NEW b \in Nat, NEW d \in Nat \ {0}, a < b
  PROVE  a * d + d <= b * d /\ a * d \in Nat /\ b * d \in Nat
<1> QED
  OBVIOUS

\* A width that divides a positive number is positive, and so is the quotient.
LEMMA Divides ==
  ASSUME NEW w \in Nat \ {0}, NEW d \in Nat \ {0}, w % d = 0
  PROVE  w \div d \in Nat \ {0} /\ w = (w \div d) * d
<1>1. PICK a \in Nat, u \in 0 .. d - 1 : a = w \div d /\ u = w % d /\ w = a * d + u
  BY Euclid
<1> QED
  BY <1>1

\* A bijection onto a finite set preserves the number of elements.
LEMMA SameCount ==
  ASSUME NEW S, NEW T, IsFiniteSet(T), NEW f \in [S -> T],
         \A a, b \in S : f[a] = f[b] => a = b,
         \A t \in T : \E s \in S : f[s] = t
  PROVE  IsFiniteSet(S) /\ Cardinality(S) = Cardinality(T)
<1> QED
  BY Fun_IsInj, Fun_IsSurj, FS_Injection

\* A parameter on a rank, and what the conversion makes of it.
LEMMA ConversionIs ==
  ASSUME NEW l \in Layouts, NEW r, NEW pp, NEW map, NEW p, ParamOK(l, pp, p),
         (p.layer # None /\ Lightning(l, HeldLayer(l, pp, p.vp, p.layer)))
           => IsLinearLayer(l, McorePpName(l, r, map, p)),
         p.kind = "linear_qkv" => QkvFormat(l, Len(TensorOf(l, r, p))) # "unsupported"
  PROVE  ConvertParam(l, r, map, CacheBefore(l, r, p, McorePpName(l, r, map, p)), p, TensorOf(l, r, p))
           = Outcome(l, r, p, McorePpName(l, r, map, p))
<1> DEFINE layer == McorePpName(l, r, map, p)
           rows == TensorOf(l, r, p)
           before == CacheBefore(l, r, p, layer)
<1>1. l.qLora \in BOOLEAN /\ StageSize(l) \in Nat /\ LocalExperts(l) \in Nat
  BY LayoutFacts
<1>2. CASE OuterParam(l, pp, p.vp, p)
  <2>1. layer = None
    BY <1>2 DEF McorePpName, OuterParam
  <2>2. before = {} /\ CacheAfter(l, r, p, layer) = {}
    BY <1>2 DEF CacheBefore, CacheAfter, OuterParam, OuterOf, Opens, Closes
  <2>3. p.kind \in OuterKinds
    BY <1>2 DEF OuterParam, OuterOf, OuterKinds
  <2>4. EntriesOf(l, r, p, layer) = <<Entry(None, None, PartName[p.kind], Dtype(p.kind), rows)>>
    BY <2>1, <2>3 DEF EntriesOf, FirstKinds, OuterKinds, DownProjections, ExpertOf, ExpertKinds
  <2> QED
    BY <2>2, <2>4, <2>3 DEF Outcome, ConvertParam, OuterKinds, PartName, Dtype
<1>3. CASE ~OuterParam(l, pp, p.vp, p)
  <2> DEFINE held == HeldLayer(l, pp, p.vp, p.layer)
  <2>1. /\ p \in ParamSet /\ p.layer \in 0 .. StageSize(l) - 1 /\ p.layer # None
        /\ InLayer(l, held, p) \/ IsBias(l, held, p)
    BY <1>1, <1>3 DEF ParamOK, None
  <2> HIDE DEF held
  <2>2. CASE p.kind \in AllMlpKinds
    <3>1. before = {} /\ CacheAfter(l, r, p, layer) = {}
      BY <2>2 DEF CacheBefore, CacheAfter, AllMlpKinds, Opens, Closes
    <3>2. p.kind \notin OuterKinds /\ p.kind \notin AttentionParams /\ p.kind # "input_layernorm"
      BY <2>2 DEF AllMlpKinds, OuterKinds, AttentionParams, MlaParams, DownProjections
    <3> QED
      BY <3>1, <3>2, <2>2, MlpIs DEF Outcome, ConvertParam, OuterKinds
  <2>3. CASE p.kind \notin AllMlpKinds
    <3>1. p.expert = None /\ p.kind \in AttentionSet(l, held) /\ p.kind # "pre_mlp_layernorm"
      BY <2>1, <2>3 DEF InLayer, IsBias, AllMlpKinds, MlpSet, ExpertKinds
    <3>2. CASE p.kind = "input_layernorm"
      <4>1. ConvertParam(l, r, map, {}, p, rows)
              = Converted(<<Entry(layer, None, "input_layernorm", "bf16", rows)>>, {})
        BY <3>2 DEF ConvertParam, AttentionParams, MlaParams, DownProjections
      <4>2. EntriesOf(l, r, p, layer) = <<Entry(layer, None, "input_layernorm", "bf16", rows)>>
        BY <3>2 DEF EntriesOf, FirstKinds, DownProjections, ExpertOf, ExpertKinds, PartName, Dtype
      <4> QED
        BY <3>2, <4>1, <4>2 DEF Outcome, CacheBefore, CacheAfter, Opens, Closes
    <3>3. CASE p.kind # "input_layernorm"
      <4>1. p.kind \notin OuterKinds /\ p.kind \in AttentionParams
        BY <3>1, <3>3
           DEF AttentionSet, Opens, OuterKinds, AttentionParams, MlaParams, DownProjections
      <4>2. ConvertParam(l, r, map, before, p, rows) = ConvertAttention(l, r, before, layer, p.kind, rows)
        BY <4>1 DEF ConvertParam, OuterKinds
      <4>3. CASE Lightning(l, held)
        BY <4>2, <2>1, <4>3, <3>1, LightningIs DEF held, AttentionSet
      <4>4. CASE ~Lightning(l, held)
        <5>1. p.kind \in {"linear_kv_down_proj", "linear_kv_up_layer_norm", "linear_kv_up_proj", "linear_proj"}
                    \cup IF l.qLora THEN Opens ELSE {"linear_q_proj"}
          BY <3>1, <3>3, <4>4 DEF AttentionSet
        <5> QED
          BY <1>1, <2>1, <3>1, <4>2, <5>1, MlaIs
      <4> QED
        BY <4>3, <4>4
    <3> QED
      BY <3>2, <3>3
  <2> QED
    BY <2>2, <2>3
<1> QED
  BY <1>2, <1>3

-----------------------------------------------------------------------------
(* The tensors.                                                            *)

\* The parts, and the rows of tensors.
PartNames ==
  {"embed_tokens", "norm", "lm_head", "input_layernorm", "g_proj", "g_norm", "dense", "query_layernorm",
   "key_layernorm", "q_proj", "q_a_proj", "q_a_layernorm", "q_b_proj", "kv_a_proj", "kv_a_layernorm", "kv_b_proj",
   "post_attention_layernorm", "gate", "expert_bias", "gate_proj", "up_proj", "down_proj",
   "shared_gate_proj", "shared_up_proj", "shared_down_proj", "q", "k", "v"}
RowSet == Int \X Int \X PartNames \X Nat

\* A full tensor is a sequence of rows of its size.
LEMMA FullType ==
  ASSUME NEW l \in Layouts, NEW layer \in Int, NEW expert \in Int, NEW part \in PartNames
  PROVE  /\ Size(l, part) \in Nat
         /\ Full(l, layer, expert, part) \in Seq(RowSet)
         /\ Len(Full(l, layer, expert, part)) = Size(l, part)
<1>1. Size(l, part) \in Nat
  BY LayoutFacts DEF Size
<1> QED
  BY <1>1 DEF Full, RowSet

\* A piece of a sequence has the length that was cut.
LEMMA PieceOf ==
  ASSUME NEW S, NEW s \in Seq(S), NEW a \in Nat, NEW n \in Nat, a + n <= Len(s)
  PROVE  SubSeq(s, a + 1, a + n) \in Seq(S) /\ Len(SubSeq(s, a + 1, a + n)) = n
  OBVIOUS

\* A sequence written place by place is a sequence over its elements.
LEMMA PartsType ==
  ASSUME NEW S, NEW n \in Nat, NEW seqs, seqs = [i \in 1 .. n |-> seqs[i]],
         \A i \in 1 .. n : seqs[i] \in Seq(S)
  PROVE  seqs \in Seq(Seq(S)) /\ Len(seqs) = n
  OBVIOUS

\* The rows of one head.
HeadOf(l, layer, part, h) == SubSeq(Full(l, layer, None, part), h * l.headRows + 1, (h + 1) * l.headRows)

\* A head of a projection has headRows rows.
LEMMA HeadRows ==
  ASSUME NEW l \in Layouts, NEW layer \in Int, NEW part \in {"q", "k", "v"}, NEW h \in Nat,
         h < (IF part = "q" THEN l.heads ELSE l.kvHeads)
  PROVE  HeadOf(l, layer, part, h) \in Seq(RowSet) /\ Len(HeadOf(l, layer, part, h)) = l.headRows
<1> DEFINE n == IF part = "q" THEN l.heads ELSE l.kvHeads
           d == l.headRows
           s == Full(l, layer, None, part)
<1>1. d \in Nat \ {0} /\ n \in Nat /\ part \in PartNames /\ None \in Int
  BY LayoutFacts DEF PartNames, None
<1>2. s \in Seq(RowSet) /\ Len(s) = n * d
  BY <1>1, FullType DEF Size
<1> HIDE DEF s, d, n
<1>3. h < n
  BY DEF n
<1>4. SubSeq(s, h * d + 1, h * d + d) \in Seq(RowSet) /\ Len(SubSeq(s, h * d + 1, h * d + d)) = d
  BY <1>1, <1>2, <1>3, MultipleLess, PieceOf
<1> QED
  BY <1>1, <1>4 DEF HeadOf, s, d

\* The query heads of a key-value head.
PerKv(l) == l.heads \div l.kvHeads

\* Every rank of a tensor parallel group has the same whole number of key-value heads.
LEMMA HeadCounts ==
  ASSUME NEW l \in Layouts
  PROVE  /\ PerKv(l) \in Nat \ {0} /\ l.heads = PerKv(l) * l.kvHeads
         /\ l.kvHeads \div l.tp \in Nat \ {0} /\ l.kvHeads = (l.kvHeads \div l.tp) * l.tp
<1> QED
  BY McoreConverterAssumption, LayoutFacts, Divides DEF PerKv, McoreConverterAssumption

\* A key-value head of linear_qkv with its queries.
QkvGroup(l, layer, g) ==
  FlattenSeq([h \in 1 .. PerKv(l) |-> HeadOf(l, layer, "q", g * PerKv(l) + h - 1)])
  \o HeadOf(l, layer, "k", g) \o HeadOf(l, layer, "v", g)

\* The query heads of a group, its key and its value.
LEMMA GroupRows ==
  ASSUME NEW l \in Layouts, NEW layer \in Int, NEW g \in Nat, g < l.kvHeads
  PROVE  /\ QkvGroup(l, layer, g) \in Seq(RowSet)
         /\ Len(QkvGroup(l, layer, g)) = (PerKv(l) + 2) * l.headRows
<1> DEFINE n == PerKv(l)
           d == l.headRows
           seqs == [h \in 1 .. n |-> HeadOf(l, layer, "q", g * n + h - 1)]
           K == HeadOf(l, layer, "k", g)
           V == HeadOf(l, layer, "v", g)
<1>1. n \in Nat \ {0} /\ d \in Nat \ {0} /\ l.kvHeads \in Nat \ {0} /\ l.heads = n * l.kvHeads
  BY LayoutFacts, HeadCounts
<1>2. K \in Seq(RowSet) /\ Len(K) = d /\ V \in Seq(RowSet) /\ Len(V) = d
  BY HeadRows
<1>3. ASSUME NEW h \in 1 .. n PROVE seqs[h] \in Seq(RowSet) /\ Len(seqs[h]) = d
  <2>1. g * n + h - 1 \in Nat /\ g * n + h - 1 < l.heads
    BY <1>1, MultipleLess
  <2>2. seqs[h] = HeadOf(l, layer, "q", g * n + h - 1)
    OBVIOUS
  <2> HIDE DEF n, seqs
  <2> QED
    BY <2>1, <2>2, HeadRows
<1>4. seqs = [h \in 1 .. n |-> seqs[h]]
  OBVIOUS
<1>5. QkvGroup(l, layer, g) = FlattenSeq(seqs) \o K \o V
  BY DEF QkvGroup
<1> HIDE DEF seqs, n, d, K, V
<1>6. seqs \in Seq(Seq(RowSet)) /\ Len(seqs) = n
  BY <1>1, <1>3, <1>4
<1>7. FlattenSeq(seqs) \in Seq(RowSet) /\ Len(FlattenSeq(seqs)) = n * d
  BY <1>1, <1>3, <1>6, FlattenType, FlattenLength
<1>8. (n + 2) * d = n * d + d + d
  BY <1>1
<1> QED
  BY <1>5, <1>2, <1>7, <1>8 DEF n, d

\* The number of rows of linear_qkv that a training rank holds.
LEMMA LinearQkvRows ==
  ASSUME NEW l \in Layouts, NEW layer \in Int, NEW k \in Nat, k < l.tp
  PROVE  /\ LinearQkv(l, layer, k) \in Seq(RowSet)
         /\ Len(LinearQkv(l, layer, k))
              = IF l.replicated THEN 3 * l.heads * l.headRows
                ELSE (l.kvHeads \div l.tp) * ((PerKv(l) + 2) * l.headRows)
<1> DEFINE d == l.headRows
           groups == l.kvHeads \div l.tp
<1>1. /\ d \in Nat \ {0} /\ l.heads \in Nat \ {0} /\ l.kvHeads \in Nat \ {0} /\ l.tp \in Nat \ {0}
      /\ PerKv(l) \in Nat \ {0} /\ l.heads = PerKv(l) * l.kvHeads
      /\ groups \in Nat \ {0} /\ l.kvHeads = groups * l.tp
  BY LayoutFacts, HeadCounts
<1>2. CASE l.replicated
  <2> DEFINE Repeated(part) == FlattenSeq([h \in 1 .. l.heads |-> HeadOf(l, layer, part, (h - 1) \div PerKv(l))])
             Q == Full(l, layer, None, "q")
  <2>1. ASSUME NEW part \in {"k", "v"}
        PROVE  Repeated(part) \in Seq(RowSet) /\ Len(Repeated(part)) = l.heads * d
    <3> DEFINE seqs == [h \in 1 .. l.heads |-> HeadOf(l, layer, part, (h - 1) \div PerKv(l))]
    <3>1. ASSUME NEW h \in 1 .. l.heads PROVE seqs[h] \in Seq(RowSet) /\ Len(seqs[h]) = d
      <4>1. PICK q \in Nat, u \in 0 .. PerKv(l) - 1 : q = (h - 1) \div PerKv(l) /\ h - 1 = q * PerKv(l) + u
        <5> DEFINE m == PerKv(l)
                   w == h - 1
        <5>1. m \in Nat \ {0} /\ w \in Nat
          BY <1>1
        <5> HIDE DEF m, w
        <5> QED
          BY <5>1, Euclid DEF m, w
      <4>2. q < l.kvHeads
        <5> SUFFICES ASSUME l.kvHeads <= q PROVE FALSE
          BY <1>1
        <5> QED
          BY <1>1, <4>1
      <4> QED
        BY <4>1, <4>2, HeadRows
    <3>2. seqs = [h \in 1 .. l.heads |-> seqs[h]]
      OBVIOUS
    <3> HIDE DEF seqs
    <3>3. seqs \in Seq(Seq(RowSet)) /\ Len(seqs) = l.heads
      <4> DEFINE n == l.heads
      <4>1. n \in Nat /\ (\A h \in 1 .. n : seqs[h] \in Seq(RowSet)) /\ seqs = [h \in 1 .. n |-> seqs[h]]
        BY <1>1, <3>1, <3>2
      <4> HIDE DEF n
      <4> QED
        BY <4>1, PartsType DEF n
    <3> QED
      BY <1>1, <3>1, <3>3, FlattenType, FlattenLength DEF seqs
  <2>2. Q \in Seq(RowSet) /\ Len(Q) = l.heads * d
    BY FullType DEF PartNames, None, Size
  <2>3. LinearQkv(l, layer, k) = Q \o Repeated("k") \o Repeated("v")
    BY <1>2 DEF LinearQkv, HeadOf, PerKv
  <2> HIDE DEF Repeated, Q
  <2>4. 3 * l.heads * d = l.heads * d + l.heads * d + l.heads * d
    BY <1>1
  <2> QED
    BY <1>2, <2>3, <2>2, <2>1, <2>4
<1>3. CASE ~l.replicated
  <2> DEFINE seqs == [g \in 1 .. groups |-> QkvGroup(l, layer, k * groups + g - 1)]
  <2>1. ASSUME NEW g \in 1 .. groups PROVE seqs[g] \in Seq(RowSet) /\ Len(seqs[g]) = (PerKv(l) + 2) * d
    <3> DEFINE b == k * groups + g - 1
    <3>1. b \in Nat /\ b < l.kvHeads
      BY <1>1, MultipleLess
    <3>2. seqs[g] = QkvGroup(l, layer, b)
      OBVIOUS
    <3> HIDE DEF b, seqs
    <3> QED
      BY <3>1, <3>2, GroupRows
  <2>2. seqs = [g \in 1 .. groups |-> seqs[g]]
    OBVIOUS
  <2>3. LinearQkv(l, layer, k) = FlattenSeq(seqs)
    BY <1>3 DEF LinearQkv, QkvGroup, HeadOf, PerKv
  <2>4. (PerKv(l) + 2) * d \in Nat
    BY <1>1
  <2> HIDE DEF seqs
  <2>5. seqs \in Seq(Seq(RowSet)) /\ Len(seqs) = groups
    <3> HIDE DEF groups
    <3> QED
      BY <1>1, <2>1, <2>2, PartsType
  <2>6. FlattenSeq(seqs) \in Seq(RowSet) /\ Len(FlattenSeq(seqs)) = groups * ((PerKv(l) + 2) * d)
    BY <2>1, <2>4, <2>5, FlattenType, FlattenLength
  <2> QED
    BY <1>3, <2>3, <2>6
<1> QED
  BY <1>2, <1>3

----------------------------------------------------------------------------
\* Ranks and groups.

\* A number below n * a has a quotient below n.
LEMMA QuotientLess ==
  ASSUME NEW w \in Nat, NEW a \in Nat \ {0}, NEW n \in Nat, w < n * a
  PROVE  w \div a < n /\ w \div a \in Nat /\ w % a \in 0 .. a - 1
<1>1. PICK q \in Nat, u \in 0 .. a - 1 : q = w \div a /\ u = w % a /\ w = q * a + u
  BY Euclid
<1>2. SUFFICES ASSUME n <= q PROVE FALSE
  BY <1>1
<1> QED
  BY <1>1, <1>2

\* Place u of block q lies below n * a when block q is one of n.
LEMMA PlaceLess ==
  ASSUME NEW q \in Nat, NEW a \in Nat \ {0}, NEW n \in Nat, NEW u \in 0 .. a - 1, q < n
  PROVE  q * a + u < n * a
<1> DEFINE e == q * a
           f == n * a
<1> HIDE DEF e, f
<1> QED
  BY MultipleLess DEF e, f

\* Dividing by a product is dividing twice.
LEMMA QuotientTwice ==
  ASSUME NEW w \in Nat, NEW a \in Nat \ {0}, NEW b \in Nat \ {0}
  PROVE  w \div (a * b) = (w \div a) \div b
<1>1. PICK q \in Nat, u \in 0 .. a - 1 : q = w \div a /\ w = q * a + u
  BY Euclid
<1>2. PICK s \in Nat, v \in 0 .. b - 1 : s = q \div b /\ q = s * b + v
  BY Euclid
<1> DEFINE d == b * a
           x == v * a + u
<1>3. d \in Nat \ {0} /\ x \in Nat
  BY <1>1, <1>2
<1>4. x < d
  BY <1>2, PlaceLess
<1>5. w = s * d + x
  <2>1. (s * b + v) * a = s * (b * a) + v * a
    BY <1>1, <1>2
  <2> QED
    <3>1. q * a = s * (b * a) + v * a
      BY <1>2, <2>1
    <3> QED
      BY <1>1, <3>1, <1>2
<1> HIDE DEF d, x
<1>6. w \div d = s
  <2>1. x \in 0 .. d - 1
    BY <1>3, <1>4
  <2> QED
    BY <1>2, <1>3, <1>5, <2>1, EuclidUnique
<1> QED
  BY <1>1, <1>2, <1>6 DEF d

\* The coordinates of a rank, and of the ranks of its tensor parallel group.
LEMMA RankFacts ==
  ASSUME NEW l \in Layouts, NEW r \in Ranks(l)
  PROVE  /\ r \in Nat /\ TpRank(l, r) \in 0 .. l.tp - 1 /\ PpRank(l, r) \in 0 .. l.pp - 1
         /\ EpRank(l, r) \in Nat
         /\ Base(l, r) \in Nat
         /\ \A k \in 0 .. l.tp - 1 :
              /\ Base(l, r) + k \in Ranks(l) /\ TpRank(l, Base(l, r) + k) = k
              /\ (Base(l, r) + k) \div l.tp = r \div l.tp
              /\ Base(l, Base(l, r) + k) = Base(l, r)
              /\ PpRank(l, Base(l, r) + k) = PpRank(l, r)
<1> DEFINE t == l.tp
           e == l.ep
           n == l.pp
           q == r \div t
<1>1. t \in Nat \ {0} /\ e \in Nat \ {0} /\ n \in Nat \ {0}
  BY LayoutFacts
<1>2. r \in Nat /\ r < t * e * n
  BY <1>1 DEF Ranks
<1> HIDE DEF t, e, n
<1>3. t * e * n = (n * e) * t /\ n * e \in Nat
  BY <1>1
<1>4. q \in Nat /\ q < n * e /\ r % t \in 0 .. t - 1
  BY <1>1, <1>2, <1>3, QuotientLess
<1>5. r = q * t + (r % t)
  BY <1>1, <1>2, Euclid
<1>6. q \div e < n /\ q \div e \in Nat /\ q % e \in 0 .. e - 1
  BY <1>1, <1>4, QuotientLess
<1>7. PpRank(l, r) = q \div e
  BY <1>1, <1>2, QuotientTwice DEF PpRank, t, e
<1>8. TpRank(l, r) = r % t /\ EpRank(l, r) = q % e
  BY DEF TpRank, EpRank, t, e
<1> HIDE DEF q
<1>9. Base(l, r) = q * t /\ q * t \in Nat
  BY <1>1, <1>4, <1>5, <1>8 DEF Base
<1>10. ASSUME NEW k \in 0 .. t - 1
       PROVE  /\ q * t + k \in Ranks(l) /\ TpRank(l, q * t + k) = k
              /\ (q * t + k) \div t = q
              /\ Base(l, q * t + k) = q * t
              /\ PpRank(l, q * t + k) = q \div e
  <2> DEFINE x == q * t + k
  <2>1. x \in Nat /\ x < (n * e) * t
    BY <1>1, <1>3, <1>4, <1>9, PlaceLess
  <2>2. x \div t = q /\ x % t = k
    BY <1>1, <1>4, EuclidUnique
  <2> HIDE DEF x
  <2>3. x \in Ranks(l)
    BY <2>1, <1>1, <1>3 DEF Ranks, t, e, n
  <2>4. PpRank(l, x) = q \div e
    BY <2>2, <1>1, <2>1, QuotientTwice DEF PpRank, t, e
  <2> QED
    BY <2>2, <2>3, <2>4, <1>9 DEF x, Base, TpRank, t
<1>11. (q \div e) \in 0 .. n - 1 /\ q % e \in Nat
  BY <1>1, <1>6
<1>12. r \div t = q
  BY DEF q
<1> QED
  BY <1>2, <1>4, <1>7, <1>8, <1>9, <1>10, <1>11, <1>12 DEF t, e, n

\* The ranks that gather together.
LEMMA GroupFacts ==
  ASSUME NEW l \in Layouts, NEW r \in Ranks(l), NEW q \in TpGroup(l, r)
  PROVE  /\ q \in Ranks(l) /\ Base(l, q) = Base(l, r) /\ PpRank(l, q) = PpRank(l, r)
         /\ q = Base(l, r) + TpRank(l, q) /\ TpGroup(l, q) = TpGroup(l, r)
<1>1. q \in Ranks(l) /\ q \div l.tp = r \div l.tp
  BY DEF TpGroup
<1>2. l.tp \in Nat \ {0} /\ q \in Nat /\ r \in Nat /\ TpRank(l, q) \in 0 .. l.tp - 1
  BY <1>1, RankFacts, LayoutFacts
<1>3. Base(l, q) = (q \div l.tp) * l.tp /\ Base(l, r) = (r \div l.tp) * l.tp
  <2> DEFINE t == l.tp
  <2>1. t \in Nat \ {0}
    BY <1>2
  <2> HIDE DEF t
  <2>2. ASSUME NEW x \in Nat PROVE x - (x % t) = (x \div t) * t
    <3>1. PICK c \in Nat, u \in 0 .. t - 1 : c = x \div t /\ u = x % t /\ x = c * t + u
      BY <2>1, Euclid
    <3> QED
      BY <3>1, <2>1
  <2> QED
    BY <1>2, <2>2 DEF Base, TpRank, t
<1> QED
  BY <1>1, <1>2, <1>3, RankFacts DEF Base, TpGroup

\* The ranks of a tensor parallel group are numbered from its base.
LEMMA GroupIs ==
  ASSUME NEW l \in Layouts, NEW r \in Ranks(l)
  PROVE  /\ r \in TpGroup(l, r) /\ Base(l, r) \in TpGroup(l, r) /\ TpRank(l, Base(l, r)) = 0
         /\ TpGroup(l, Base(l, r)) = TpGroup(l, r)
         /\ \A k \in 0 .. l.tp - 1 : Base(l, r) + k \in TpGroup(l, r)
<1> QED
  BY RankFacts, LayoutFacts, GroupFacts DEF TpGroup

\* Every stage of the pipeline has a rank.
LEMMA StageHasRank ==
  ASSUME NEW l \in Layouts, NEW pp \in 0 .. l.pp - 1
  PROVE  \E r \in Ranks(l) : PpRank(l, r) = pp
<1> DEFINE d == l.tp * l.ep
           n == l.pp
<1>1. d \in Nat \ {0} /\ n \in Nat \ {0} /\ pp \in Nat /\ pp < n
  BY LayoutFacts
<1>2. l.tp * l.ep * l.pp = n * d
  BY LayoutFacts
<1> HIDE DEF d, n
<1>3. pp * d + 0 < n * d /\ (pp * d + 0) \div d = pp
  BY <1>1, PlaceLess, EuclidUnique
<1> QED
  BY <1>2, <1>3, <1>1 DEF PpRank, d, Ranks

----------------------------------------------------------------------------
\* The rows of linear_qkv.

\* Layer numbers are numbers.
LEMMA HeldInt ==
  ASSUME NEW l \in Layouts, NEW pp \in Int, NEW vp \in Int, NEW id \in Int
  PROVE  HeldLayer(l, pp, vp, id) \in Int
<1> DEFINE w == l.layers \div l.vp
           m == StageSize(l)
<1>1. HeldLayer(l, pp, vp, id) = vp * w + pp * m + id
  BY DEF HeldLayer
<1>2. w \in Nat /\ m \in Nat
  BY LayoutFacts
<1> HIDE DEF w, m
<1> QED
  BY <1>1, <1>2

\* The gathered linear_qkv has the size the training job gives it.
LEMMA QkvTensor ==
  ASSUME NEW l \in Layouts, NEW r \in Ranks(l), NEW p \in ParamSet, p.kind = "linear_qkv", p.layer # None
  PROVE  Len(TensorOf(l, r, p)) = QkvSize(l)
<1> DEFINE t == l.tp
           n == (PerKv(l) + 2) * l.headRows
           groups == l.kvHeads \div l.tp
           held == HeldLayer(l, PpRank(l, r), p.vp, p.layer)
           size == IF l.replicated THEN 3 * l.heads * l.headRows ELSE groups * n
<1>1. /\ t \in Nat \ {0} /\ l.heads \in Nat \ {0} /\ l.kvHeads \in Nat \ {0} /\ l.headRows \in Nat \ {0}
      /\ PerKv(l) \in Nat \ {0} /\ groups \in Nat \ {0} /\ l.kvHeads = groups * t
      /\ l.replicated \in BOOLEAN /\ n \in Nat
  BY LayoutFacts, HeadCounts
<1>2. held \in Int
  BY RankFacts, HeldInt DEF ParamSet
<1>3. \A k \in 0 .. t - 1 : /\ McoreTensor(l, Base(l, r) + k, p) = LinearQkv(l, held, k)
                            /\ LinearQkv(l, held, k) \in Seq(RowSet) /\ Len(LinearQkv(l, held, k)) = size
  <2> SUFFICES ASSUME NEW k \in 0 .. t - 1
               PROVE  /\ McoreTensor(l, Base(l, r) + k, p) = LinearQkv(l, held, k)
                      /\ LinearQkv(l, held, k) \in Seq(RowSet) /\ Len(LinearQkv(l, held, k)) = size
    OBVIOUS
  <2>1. McoreTensor(l, Base(l, r) + k, p) = LinearQkv(l, held, k)
    BY RankFacts DEF McoreTensor
  <2>2. k \in Nat /\ k < l.tp
    BY <1>1
  <2> HIDE DEF held
  <2> QED
    BY <1>2, <2>1, <2>2, LinearQkvRows
<1>4. size \in Nat
  BY <1>1
<1>5. t * size = QkvSize(l)
  <2>1. CASE l.replicated
    <3>1. size = QkvSize(l)
      BY <2>1 DEF QkvSize
    <3> HIDE DEF size
    <3> QED
      BY McoreConverterAssumption, <1>4, <2>1, <3>1 DEF McoreConverterAssumption
  <2>2. CASE ~l.replicated
    <3> DEFINE a == PerKv(l) + 2
               d == l.headRows
               K == l.kvHeads
    <3>1. a \in Nat /\ d \in Nat /\ K \in Nat
      BY <1>1
    <3>2. size = groups * (a * d) /\ QkvSize(l) = a * K * d /\ K = groups * t
      BY <1>1, <2>2 DEF QkvSize, PerKv
    <3> HIDE DEF a, d, K, t, groups, size, n
    <3> QED
      BY <3>2, <1>1, <3>1
  <2> QED
    BY <1>1, <2>1, <2>2
<1> HIDE DEF held, size, n, groups
<1>6. CASE t > 1
  <2> DEFINE seqs == [i \in 1 .. t |-> McoreTensor(l, Base(l, r) + i - 1, p)]
  <2>1. TensorOf(l, r, p) = FlattenSeq(seqs)
    BY <1>6 DEF TensorOf, Gathers
  <2>2. ASSUME NEW i \in 1 .. t PROVE seqs[i] \in Seq(RowSet) /\ Len(seqs[i]) = size
    <3>1. i - 1 \in 0 .. t - 1 /\ Base(l, r) + i - 1 = Base(l, r) + (i - 1)
      BY <1>1, RankFacts
    <3>2. seqs[i] = McoreTensor(l, Base(l, r) + (i - 1), p)
      BY <3>1
    <3> HIDE DEF seqs
    <3> QED
      BY <1>3, <3>1, <3>2
  <2>3. seqs = [i \in 1 .. t |-> seqs[i]]
    OBVIOUS
  <2> HIDE DEF seqs, t
  <2>4. seqs \in Seq(Seq(RowSet)) /\ Len(seqs) = t
    BY <2>3, <1>1, <2>2, PartsType
  <2> QED
    BY <1>5, <2>1, <2>4, <1>4, <2>2, FlattenLength
<1>7. CASE t = 1
  BY <1>5, <1>3, <1>7, RankFacts, <1>4 DEF TensorOf, Gathers, Base
<1> QED
  BY <1>1, <1>6, <1>7

\* Every conversion of a parameter of a rank succeeds, in both phases.
LEMMA Supported ==
  ASSUME NEW l \in Layouts, NEW r \in Ranks(l), NEW p, ParamOK(l, PpRank(l, r), p), p.kind = "linear_qkv"
  PROVE  QkvFormat(l, Len(TensorOf(l, r, p))) # "unsupported"
<1>1. p \in ParamSet /\ p.layer # None
  BY LayoutFacts DEF ParamOK, None, OuterParam, OuterOf
<1> QED
  BY <1>1, QkvTensor, McoreConverterAssumption DEF McoreConverterAssumption

\* The number of a layer within its stage tells a lightning layer.
LEMMA LocalNumber ==
  ASSUME NEW l \in Layouts, NEW pp \in 0 .. l.pp - 1, NEW p, ParamOK(l, pp, p),
         p.layer # None, Lightning(l, HeldLayer(l, pp, p.vp, p.layer))
  PROVE  IsLinearLayer(l, p.layer)
<1> QED
  BY McoreConverterAssumption DEF McoreConverterAssumption, ParamOK, OuterParam

\* So does its number in the model.
LEMMA GlobalNumber ==
  ASSUME NEW l \in Layouts, NEW pp \in 0 .. l.pp - 1, NEW p, ParamOK(l, pp, p),
         p.layer # None, Lightning(l, HeldLayer(l, pp, p.vp, p.layer))
  PROVE  IsLinearLayer(l, HeldLayer(l, pp, p.vp, p.layer))
<1> QED
  BY LocalNumber DEF IsLinearLayer, Lightning

----------------------------------------------------------------------------
\* The numbering of the layers.

\* Quotient and remainder order numbers as pairs.
LEMMA QuotientOrder ==
  ASSUME NEW x \in Nat, NEW y \in Nat, NEW d \in Nat \ {0}
  PROVE  /\ x \div d < y \div d => x < y
         /\ x \div d = y \div d => (x < y <=> x % d < y % d) /\ (x = y <=> x % d = y % d)
<1>1. PICK a \in Nat, u \in 0 .. d - 1 : a = x \div d /\ u = x % d /\ x = a * d + u
  BY Euclid
<1>2. PICK b \in Nat, v \in 0 .. d - 1 : b = y \div d /\ v = y % d /\ y = b * d + v
  BY Euclid
<1>3. ASSUME a < b PROVE x < y
  BY <1>1, <1>2, <1>3, MultipleLess
<1>4. ASSUME a = b PROVE (x < y <=> u < v) /\ (x = y <=> u = v)
  BY <1>1, <1>2, <1>4
<1> QED
  BY <1>1, <1>2, <1>3, <1>4

\* Number w is number b of block a, with d numbers to a block.
Splits(w, d, a, b) == d \in Nat \ {0} /\ a \in Nat /\ b \in 0 .. d - 1 /\ w \in Nat /\ w = a * d + b

\* Where layers are: stage, chunk, place within it; and the number of the layer at a place.
Places(l) == (0 .. l.pp - 1) \X (0 .. l.vp - 1) \X (0 .. StageSize(l) - 1)
LayerNumbers(l) == 0 .. l.layers - 1
Held(l, x) == HeldLayer(l, x[1], x[2], x[3])
Layered(l) == l.layers # 0

\* Splits names the quotient and the remainder.
LEMMA SplitsUnique ==
  ASSUME NEW w, NEW d, NEW a, NEW b, Splits(w, d, a, b)
  PROVE  w \div d = a /\ w % d = b
<1> QED
  BY EuclidUnique DEF Splits

\* The layers divide evenly over chunks and stages.
LEMMA LayerSizes ==
  ASSUME NEW l \in Layouts, Layered(l)
  PROVE  \E m \in Nat \ {0}, w \in Nat \ {0} :
           /\ m = l.layers \div (l.pp * l.vp) /\ w = l.layers \div l.vp
           /\ w = l.pp * m /\ l.layers = l.vp * w
<1>1. PICK pp \in Nat \ {0}, vp \in Nat \ {0} : pp = l.pp /\ vp = l.vp
  BY LayoutFacts
<1>2. PICK b \in Nat \ {0} : b = pp * vp
  BY <1>1
<1>3. l.layers % b = 0
  BY <1>1, <1>2, LayoutFacts
<1>4. PICK m \in Nat \ {0} : m = l.layers \div b /\ l.layers = m * b
  <2>1. l.layers \in Nat \ {0}
    BY LayoutFacts DEF Layered
  <2> QED
    BY <1>3, <2>1, Divides
<1>5. PICK w \in Nat \ {0} : w = pp * m
  BY <1>1
<1>6. m * (pp * vp) = (pp * m) * vp
  BY <1>1
<1>7. l.layers = w * vp
  BY <1>2, <1>4, <1>5, <1>6
<1>8. w = l.layers \div vp
  BY <1>7, LayoutFacts, SplitsUnique DEF Splits
<1>9. w * vp = vp * w
  OBVIOUS
<1> QED
  BY <1>1, <1>2, <1>4, <1>5, <1>7, <1>8, <1>9

\* The number of a held layer splits into chunk, stage and place.
LEMMA HeldSplits ==
  ASSUME NEW l \in Layouts, Layered(l), NEW m \in Nat \ {0}, NEW w \in Nat \ {0},
         m = l.layers \div (l.pp * l.vp), w = l.layers \div l.vp, w = l.pp * m, l.layers = l.vp * w,
         NEW x \in Places(l)
  PROVE  \E k : Splits(Held(l, x), w, x[2], k) /\ Splits(k, m, x[1], x[3]) /\ Held(l, x) \in LayerNumbers(l)
<1>1. PICK pp \in Nat \ {0}, vp \in Nat \ {0} : pp = l.pp /\ vp = l.vp
  BY LayoutFacts
<1>2. PICK a \in 0 .. pp - 1, v \in 0 .. vp - 1, i \in 0 .. m - 1 : x[1] = a /\ x[2] = v /\ x[3] = i
  BY <1>1 DEF Places, StageSize
<1>3. PICK k \in Nat : k = a * m + i
  BY <1>2
<1>4. k < w
  <2>1. a * m + m <= pp * m /\ a * m \in Nat /\ pp * m \in Nat
    BY <1>2, MultipleLess
  <2>2. PICK e \in Nat : e = a * m /\ e + m <= w
    BY <1>1, <2>1
  <2> QED
    BY <1>2, <1>3, <2>2
<1>5. PICK n \in Nat : n = v * w + k
  BY <1>2, <1>3
<1>6. n < vp * w
  <2>1. v * w + w <= vp * w /\ v * w \in Nat /\ vp * w \in Nat
    BY <1>2, MultipleLess
  <2>2. PICK e \in Nat, f \in Nat : e = v * w /\ f = vp * w /\ e + w <= f
    BY <2>1
  <2>3. n < f
    BY <1>4, <1>5, <2>2
  <2> QED
    BY <2>2, <2>3
<1>7. Held(l, x) = n
  <2>1. v * w + a * m + i = v * w + (a * m + i)
    BY <1>2
  <2> QED
    BY <1>3, <1>5, <1>2, <2>1 DEF Held, HeldLayer, StageSize
<1>8. n \in LayerNumbers(l)
  BY <1>1, <1>6, LayoutFacts DEF Layered, LayerNumbers
<1>9. Splits(n, w, v, k) /\ Splits(k, m, a, i)
  <2>1. v \in Nat /\ a \in Nat /\ k \in 0 .. w - 1
    BY <1>2, <1>4
  <2> QED
    BY <1>2, <1>3, <1>5, <2>1 DEF Splits
<1> QED
  BY <1>2, <1>7, <1>8, <1>9

\* Layers are numbered in the order of chunk, stage and place, each once.
LEMMA HeldOrder ==
  ASSUME NEW l \in Layouts, Layered(l), NEW x \in Places(l), NEW y \in Places(l)
  PROVE  /\ StageBefore(x, y) <=> Held(l, x) < Held(l, y)
         /\ Held(l, x) = Held(l, y) => x = y
<1>1. PICK m \in Nat \ {0}, w \in Nat \ {0} :
        /\ m = l.layers \div (l.pp * l.vp) /\ w = l.layers \div l.vp
        /\ w = l.pp * m /\ l.layers = l.vp * w
  BY LayerSizes
<1>2. PICK j : Splits(Held(l, x), w, x[2], j) /\ Splits(j, m, x[1], x[3])
  BY <1>1, HeldSplits
<1>3. PICK k : Splits(Held(l, y), w, y[2], k) /\ Splits(k, m, y[1], y[3])
  BY <1>1, HeldSplits
<1>4. PICK g \in Nat, h \in Nat, j1 \in Nat, k1 \in Nat :
        g = Held(l, x) /\ h = Held(l, y) /\ j1 = j /\ k1 = k
  BY <1>2, <1>3 DEF Splits
<1>5. PICK a \in Nat, v \in Nat, i \in Nat, b \in Nat, u \in Nat, n \in Nat :
        /\ a = x[1] /\ v = x[2] /\ i = x[3] /\ b = y[1] /\ u = y[2] /\ n = y[3]
        /\ x = <<a, v, i>> /\ y = <<b, u, n>>
  <2>1. \A z \in Places(l) : z[1] \in Nat /\ z[2] \in Nat /\ z[3] \in Nat /\ z = <<z[1], z[2], z[3]>>
    BY DEF Places, StageSize
  <2> QED
    BY <2>1
<1>6. g \div w = v /\ g % w = j1 /\ h \div w = u /\ h % w = k1
  BY <1>2, <1>3, <1>4, <1>5, SplitsUnique
<1>7. j1 \div m = a /\ j1 % m = i /\ k1 \div m = b /\ k1 % m = n
  BY <1>2, <1>3, <1>4, <1>5, SplitsUnique
<1>8. /\ v < u => g < h
      /\ u < v => h < g
      /\ v = u => (g < h <=> j1 < k1) /\ (g = h <=> j1 = k1)
  BY <1>6, QuotientOrder
<1>9. /\ a < b => j1 < k1
      /\ b < a => k1 < j1
      /\ a = b => (j1 < k1 <=> i < n) /\ (j1 = k1 <=> i = n)
  BY <1>7, QuotientOrder
<1> QED
  BY <1>4, <1>8, <1>9, <1>5 DEF StageBefore

\* Every layer is held somewhere.
LEMMA HeldOnto ==
  ASSUME NEW l \in Layouts, Layered(l), NEW n \in LayerNumbers(l)
  PROVE  \E x \in Places(l) : Held(l, x) = n
<1>1. PICK m \in Nat \ {0}, w \in Nat \ {0} :
        /\ m = l.layers \div (l.pp * l.vp) /\ w = l.layers \div l.vp
        /\ w = l.pp * m /\ l.layers = l.vp * w
  BY LayerSizes
<1>2. PICK pp \in Nat \ {0}, vp \in Nat \ {0} : pp = l.pp /\ vp = l.vp
  BY LayoutFacts
<1>3. n \in Nat /\ n < vp * w
  BY <1>1, <1>2, LayoutFacts DEF Layered, LayerNumbers
<1>4. PICK v \in Nat, k \in 0 .. w - 1 : n = v * w + k
  <2>1. \E v \in Nat, k \in 0 .. w - 1 : v = n \div w /\ k = n % w /\ n = v * w + k
    BY <1>3, Euclid
  <2> QED
    BY <2>1
<1>5. PICK a \in Nat, i \in 0 .. m - 1 : k = a * m + i
  <2>1. \E a \in Nat, i \in 0 .. m - 1 : a = k \div m /\ i = k % m /\ k = a * m + i
    BY <1>4, Euclid
  <2> QED
    BY <2>1
<1>6. v < vp
  <2>1. SUFFICES ASSUME vp <= v PROVE FALSE
    BY <1>4
  <2> QED
    BY <1>3, <1>4, <2>1
<1>7. a < pp
  <2>1. SUFFICES ASSUME pp <= a PROVE FALSE
    BY <1>5
  <2>2. PICK e \in Nat, f \in Nat : e = pp * m /\ f = a * m /\ e <= f
    BY <1>5, <2>1
  <2> QED
    BY <1>4, <1>5, <2>2, <1>1, <1>2
<1>8. <<a, v, i>> \in Places(l)
  BY <1>1, <1>2, <1>4, <1>5, <1>6, <1>7 DEF Places, StageSize
<1>9. Held(l, <<a, v, i>>) = n
  BY <1>4, <1>5, <1>1 DEF Held, HeldLayer, StageSize
<1> QED
  BY <1>8, <1>9

\* As many places lie before a place as the number of its layer says.
LEMMA NamesAreLayers ==
  ASSUME NEW l \in Layouts, Layered(l), NEW x \in Places(l)
  PROVE  Cardinality({y \in Places(l) : StageBefore(y, x)}) = Held(l, x) /\ Held(l, x) \in LayerNumbers(l)
<1> DEFINE n == Held(l, x)
           S == {y \in Places(l) : StageBefore(y, x)}
           f == [y \in S |-> Held(l, y)]
<1>1. \A y \in Places(l) : Held(l, y) \in LayerNumbers(l)
  BY LayerSizes, HeldSplits
<1>2. n \in Nat /\ n \in LayerNumbers(l) /\ LayerNumbers(l) \subseteq Nat
  BY <1>1, LayoutFacts DEF Layered, LayerNumbers
<1> HIDE DEF n
<1>3. ASSUME NEW y \in S PROVE Held(l, y) \in 0 .. n - 1
  BY <1>2, <1>1, HeldOrder DEF n
<1>4. f \in [S -> 0 .. n - 1]
  BY <1>3
<1>5. \A y, z \in S : f[y] = f[z] => y = z
  BY HeldOrder
<1>6. ASSUME NEW k \in 0 .. n - 1 PROVE \E y \in S : f[y] = k
  <2>1. k \in LayerNumbers(l) /\ k < n
    BY <1>2, LayoutFacts DEF Layered, LayerNumbers
  <2>2. PICK y \in Places(l) : Held(l, y) = k
    BY <2>1, HeldOnto
  <2> QED
    BY <2>2, <2>1, HeldOrder DEF n
<1>7. IsFiniteSet(0 .. n - 1) /\ Cardinality(0 .. n - 1) = n
  <2>1. n \in Nat
    BY <1>2
  <2> QED
    BY <2>1, FS_Interval
<1>8. Cardinality(S) = n
  <2> HIDE DEF S, f
  <2> QED
    BY <1>4, <1>5, <1>6, <1>7, SameCount
<1> QED
  BY <1>2, <1>8 DEF n, Places

----------------------------------------------------------------------------
\* The tensors made of a parameter.

\* The tensors that a conversion makes of a parameter, with their parts.
Piece(part, dtype, rows) == [part |-> part, dtype |-> dtype, rows |-> rows]
Pieces(l, r, p) ==
  LET rows == TensorOf(l, r, p)
      half == Len(rows) \div 2
  IN IF p.kind \in FirstKinds
       THEN <<Piece(FirstNames(p.kind)[1], "bf16", SubSeq(rows, 1, half)),
              Piece(FirstNames(p.kind)[2], "bf16", SubSeq(rows, half + 1, 2 * half))>>
     ELSE IF p.kind \in DownProjections /\ TpRank(l, r) # 0 THEN <<>>
     ELSE IF p.kind = "linear_q_down_proj" THEN <<>>
     ELSE IF p.kind = "linear_kv_down_proj" /\ l.qLora
       THEN <<Piece("fused_qkv_a_proj_with_mqa", "bf16", Fused(l, r, p))>>
     ELSE IF p.kind = "linear_qkv" THEN <<Piece("query_key_value", "bf16", ConvertQkv(l, r, rows))>>
     ELSE <<Piece(PartName[p.kind], Dtype(p.kind), rows)>>
Pick(l, r, p, layer, i) ==
  Entry(layer, ExpertOf(l, r, p), Pieces(l, r, p)[i].part, Pieces(l, r, p)[i].dtype, Pieces(l, r, p)[i].rows)

PartsOf(l, kind) ==
  IF kind \in FirstKinds THEN {FirstNames(kind)[1], FirstNames(kind)[2]}
  ELSE IF kind = "linear_q_down_proj" THEN {}
  ELSE IF kind = "linear_kv_down_proj" /\ l.qLora THEN {"fused_qkv_a_proj_with_mqa"}
  ELSE {PartName[kind]}

\* A parameter becomes at most two tensors, of different parts.
LEMMA PiecesAre ==
  ASSUME NEW l, NEW r, NEW p, NEW layer
  PROVE  /\ Len(Pieces(l, r, p)) \in 0 .. 2
         /\ Len(EntriesOf(l, r, p, layer)) = Len(Pieces(l, r, p))
         /\ EntriesOf(l, r, p, layer) = [i \in 1 .. Len(Pieces(l, r, p)) |-> Pick(l, r, p, layer, i)]
         /\ \A i \in 1 .. Len(Pieces(l, r, p)) : Pieces(l, r, p)[i].part \in PartsOf(l, p.kind)
         /\ \A i, j \in 1 .. Len(Pieces(l, r, p)) : Pieces(l, r, p)[i].part = Pieces(l, r, p)[j].part => i = j
<1> DEFINE rows == TensorOf(l, r, p)
           half == Len(rows) \div 2
           E == EntriesOf(l, r, p, layer)
           P == Pieces(l, r, p)
           x == ExpertOf(l, r, p)
<1>1. ASSUME NEW part, NEW dtype, NEW s
      PROVE  /\ Piece(part, dtype, s).part = part /\ Piece(part, dtype, s).dtype = dtype
             /\ Piece(part, dtype, s).rows = s
  BY DEF Piece
<1> DEFINE Goal == /\ Len(P) \in 0 .. 2
                   /\ Len(E) = Len(P)
                   /\ E = [i \in 1 .. Len(P) |-> Pick(l, r, p, layer, i)]
                   /\ \A i \in 1 .. Len(P) : P[i].part \in PartsOf(l, p.kind)
                   /\ \A i, j \in 1 .. Len(P) : P[i].part = P[j].part => i = j
<1>2. ASSUME NEW part, NEW dtype, NEW s, P = <<Piece(part, dtype, s)>>, E = <<Entry(layer, x, part, dtype, s)>>,
             part \in PartsOf(l, p.kind)
      PROVE  Goal
  <2>1. Len(P) = 1 /\ P[1] = Piece(part, dtype, s) /\ Len(E) = 1
    BY <1>2
  <2>2. Pick(l, r, p, layer, 1) = Entry(layer, x, part, dtype, s)
    BY <1>1, <2>1 DEF Pick
  <2> HIDE DEF P, E, x
  <2> QED
    BY <1>1, <1>2, <2>1, <2>2
<1>3. ASSUME P = <<>>, E = <<>> PROVE Goal
  BY <1>3
<1>4. CASE p.kind \in FirstKinds
  <2> DEFINE a == FirstNames(p.kind)[1]
             b == FirstNames(p.kind)[2]
             s == SubSeq(rows, 1, half)
             t == SubSeq(rows, half + 1, 2 * half)
  <2>1. P = <<Piece(a, "bf16", s), Piece(b, "bf16", t)>>
    BY <1>4 DEF Pieces
  <2>2. E = <<Entry(layer, x, a, "bf16", s), Entry(layer, x, b, "bf16", t)>>
    BY <1>4 DEF EntriesOf
  <2>3. a # b /\ a \in PartsOf(l, p.kind) /\ b \in PartsOf(l, p.kind)
    BY <1>4 DEF PartsOf, FirstNames
  <2> HIDE DEF a, b, s, t, P, E, x
  <2> QED
    BY <2>2, <2>3, <2>1, <1>1 DEF P, E, Pick, x
<1>5. CASE p.kind \notin FirstKinds
  <2>1. CASE p.kind \in DownProjections /\ TpRank(l, r) # 0
    BY <1>3, <1>5, <2>1 DEF Pieces, EntriesOf
  <2>2. CASE p.kind = "linear_q_down_proj"
    BY <1>3, <1>5, <2>2 DEF Pieces, EntriesOf
  <2>3. CASE p.kind = "linear_kv_down_proj" /\ TpRank(l, r) = 0
    <3>1. x = None /\ p.kind \in DownProjections /\ p.kind \notin FirstKinds
      BY <2>3 DEF ExpertOf, ExpertKinds, DownProjections, FirstKinds
    <3>2. CASE l.qLora
      BY <1>2, <2>3, <3>1, <3>2 DEF Pieces, EntriesOf, PartsOf
    <3>3. CASE ~l.qLora
      BY <1>2, <2>3, <3>1, <3>3 DEF Pieces, EntriesOf, PartsOf
    <3> QED
      BY <3>2, <3>3
  <2>4. CASE p.kind = "linear_qkv"
    <3>1. /\ P = <<Piece("query_key_value", "bf16", ConvertQkv(l, r, rows))>>
          /\ E = <<Entry(layer, x, "query_key_value", "bf16", ConvertQkv(l, r, rows))>>
      BY <1>5, <2>4 DEF Pieces, EntriesOf, ExpertOf, ExpertKinds, DownProjections
    <3> QED
      BY <1>2, <3>1, <1>5, <2>4 DEF PartsOf, PartName
  <2>5. CASE p.kind \notin DownProjections /\ p.kind # "linear_qkv"
    BY <1>2, <1>5, <2>5 DEF Pieces, EntriesOf, PartsOf, DownProjections
  <2> QED
    BY <2>1, <2>2, <2>3, <2>4, <2>5 DEF DownProjections
<1> QED
  BY <1>4, <1>5

\* The entries of a parameter, as a set.
Made(l, r, p, layer) == Elements(EntriesOf(l, r, p, layer))

\* What the tensors made of a parameter have in common.
LEMMA MadeFacts ==
  ASSUME NEW l, NEW r, NEW p, NEW layer
  PROVE  /\ EntriesOf(l, r, p, layer) \in Seq(Made(l, r, p, layer))
         /\ DOMAIN EntriesOf(l, r, p, layer) = 1 .. Len(Pieces(l, r, p))
         /\ Len(EntriesOf(l, r, p, layer)) = Len(Pieces(l, r, p)) /\ Len(Pieces(l, r, p)) \in 0 .. 2
         /\ Made(l, r, p, layer) = {Pick(l, r, p, layer, i) : i \in 1 .. Len(Pieces(l, r, p))}
         /\ \A e \in Made(l, r, p, layer) : e.layer = layer /\ e.expert = ExpertOf(l, r, p) /\ e.part \in PartsOf(l, p.kind)
         /\ \A e \in Made(l, r, p, layer) : \E i \in 1 .. Len(Pieces(l, r, p)) :
              e.part = Pieces(l, r, p)[i].part /\ e.rows = Pieces(l, r, p)[i].rows /\ e.dtype = Pieces(l, r, p)[i].dtype
         /\ \A i, j \in 1 .. Len(Pieces(l, r, p)) :
              EntriesOf(l, r, p, layer)[i].part = EntriesOf(l, r, p, layer)[j].part => i = j
<1> DEFINE n == Len(Pieces(l, r, p))
           E == EntriesOf(l, r, p, layer)
           M == Made(l, r, p, layer)
           F(i) == Pick(l, r, p, layer, i)
<1>1. /\ n \in 0 .. 2 /\ Len(E) = n /\ E = [i \in 1 .. n |-> F(i)]
      /\ \A i \in 1 .. n : Pieces(l, r, p)[i].part \in PartsOf(l, p.kind)
      /\ \A i, j \in 1 .. n : Pieces(l, r, p)[i].part = Pieces(l, r, p)[j].part => i = j
  <2>1. /\ n \in 0 .. 2 /\ Len(E) = n /\ E = [i \in 1 .. n |-> Pick(l, r, p, layer, i)]
        /\ \A i \in 1 .. n : Pieces(l, r, p)[i].part \in PartsOf(l, p.kind)
        /\ \A i, j \in 1 .. n : Pieces(l, r, p)[i].part = Pieces(l, r, p)[j].part => i = j
    <3>1. \A i \in 1 .. n : Pieces(l, r, p)[i].part \in PartsOf(l, p.kind)
      BY PiecesAre
    <3>2. \A i, j \in 1 .. n : Pieces(l, r, p)[i].part = Pieces(l, r, p)[j].part => i = j
      BY PiecesAre
    <3> QED
      BY PiecesAre, <3>1, <3>2
  <2> HIDE DEF E, n
  <2> QED
    BY <2>1
<1>2. M = {E[i] : i \in 1 .. Len(E)}
  BY DEF Made, Elements
<1>3. ASSUME NEW i PROVE /\ F(i).layer = layer /\ F(i).expert = ExpertOf(l, r, p)
                         /\ F(i).part = Pieces(l, r, p)[i].part /\ F(i).rows = Pieces(l, r, p)[i].rows
                         /\ F(i).dtype = Pieces(l, r, p)[i].dtype
  BY DEF Pick, Entry
<1> HIDE DEF n, E, F, M
<1>4. M = {F(i) : i \in 1 .. n} /\ DOMAIN E = 1 .. n /\ \A i \in 1 .. n : E[i] = F(i)
  BY <1>1, <1>2
<1>5. ASSUME NEW i \in 1 .. n, NEW j \in 1 .. n, E[i].part = E[j].part PROVE i = j
  BY <1>1, <1>3, <1>4, <1>5
<1> QED
  BY <1>1, <1>4, <1>3, <1>5 DEF n, E, M, F

----------------------------------------------------------------------------
\* No tensor is made twice.

\* The number of a layer in the model.
Global(l, r, p) == IF p.layer = None THEN None ELSE HeldLayer(l, PpRank(l, r), p.vp, p.layer)

\* A stage holds no layer twice.
LEMMA HeldApart ==
  ASSUME NEW l \in Layouts, NEW pp \in 0 .. l.pp - 1, NEW a \in 0 .. l.vp - 1, NEW b \in 0 .. l.vp - 1,
         NEW i \in 0 .. StageSize(l) - 1, NEW j \in 0 .. StageSize(l) - 1
  PROVE  /\ HeldLayer(l, pp, a, i) \in Nat
         /\ HeldLayer(l, pp, a, i) = HeldLayer(l, pp, b, j) => a = b /\ i = j
<1> DEFINE x == <<pp, a, i>>
           y == <<pp, b, j>>
<1>1. Layered(l)
  <2> SUFFICES ASSUME l.layers = 0 PROVE FALSE
    BY DEF Layered
  <2> QED
    BY LayoutFacts DEF StageSize
<1>2. x \in Places(l) /\ y \in Places(l)
  BY DEF Places
<1>3. Held(l, x) = HeldLayer(l, pp, a, i) /\ Held(l, y) = HeldLayer(l, pp, b, j)
  BY DEF Held
<1>4. x = y => a = b /\ i = j
  OBVIOUS
<1> HIDE DEF x, y
<1>5. Held(l, x) \in LayerNumbers(l)
  BY <1>1, <1>2, NamesAreLayers
<1>6. Held(l, x) \in Nat
  BY <1>5, LayoutFacts DEF LayerNumbers
<1> QED
  BY <1>3, <1>4, <1>1, <1>2, HeldOrder, <1>6

\* The kind of parameter of a layer that a part is of.
Source(l, layer, expert) ==
  IF expert # None THEN [gate_proj |-> "expert_fc1", up_proj |-> "expert_fc1", down_proj |-> "expert_fc2"]
  ELSE
  [input_layernorm |-> IF Lightning(l, layer) THEN "attn_input_layernorm" ELSE "input_layernorm",
   query_key_value |-> "linear_qkv", query_layernorm |-> "q_layernorm", key_layernorm |-> "k_layernorm",
   g_proj |-> "linear_gate", g_norm |-> "gate_norm", dense |-> "linear_proj", q_proj |-> "linear_q_proj",
   kv_a_proj_with_mqa |-> "linear_kv_down_proj", fused_qkv_a_proj_with_mqa |-> "linear_kv_down_proj",
   kv_b_proj |-> "linear_kv_up_proj", kv_a_layernorm |-> "linear_kv_up_layer_norm",
   q_b_proj |-> "linear_q_up_proj", q_a_layernorm |-> "linear_q_up_layer_norm",
   post_attention_layernorm |-> "pre_mlp_layernorm", gate |-> "router", expert_bias |-> "expert_bias",
   gate_proj |-> "fc1", up_proj |-> "fc1", down_proj |-> "fc2",
   shared_gate_proj |-> "shared_fc1", shared_up_proj |-> "shared_fc1", shared_down_proj |-> "shared_fc2"]

\* The part a tensor is named for and its layer tell the parameter it was made of.
LEMMA SourceOf ==
  ASSUME NEW l, NEW layer, NEW p, InLayer(l, layer, p) \/ IsBias(l, layer, p), NEW part \in PartsOf(l, p.kind)
  PROVE  Source(l, layer, p.expert)[part] = p.kind
<1>1. CASE p.kind \in ExpertKinds
  <2>1. p.kind = "expert_fc1" \/ p.kind = "expert_fc2"
    BY <1>1 DEF ExpertKinds
  <2>2. p.expert # None
    BY <2>1 DEF InLayer, IsBias, AttentionSet, MlpSet, ExpertKinds, Opens, None
  <2> QED
    BY <2>1, <2>2 DEF Source, PartsOf, FirstKinds, FirstNames, PartName
<1>2. CASE p.kind \notin ExpertKinds
  <2>1. p.kind \in AttentionSet(l, layer) \cup MlpSet(l, layer) \cup {"expert_bias"} /\ p.expert = None
    BY <1>2 DEF InLayer, IsBias
  <2>2. CASE p.kind \in MlpSet(l, layer) \cup {"expert_bias"}
    <3>1. p.kind \in {"fc1", "fc2", "router", "shared_fc1", "shared_fc2", "expert_bias"}
      BY <2>2 DEF MlpSet
    <3> QED
      BY <2>1, <3>1 DEF Source, PartsOf, FirstKinds, FirstNames, PartName
  <2>3. CASE p.kind \in AttentionSet(l, layer) /\ Lightning(l, layer)
    BY <2>1, <2>3 DEF Source, PartsOf, FirstKinds, PartName, AttentionSet
  <2>4. CASE p.kind \in AttentionSet(l, layer) /\ ~Lightning(l, layer)
    BY <2>1, <2>4 DEF Source, PartsOf, FirstKinds, PartName, AttentionSet, Opens
  <2> QED
    BY <2>1, <2>2, <2>3, <2>4
<1> QED
  BY <1>1, <1>2

\* Two parameters of a rank never have a part of the same name.
LEMMA PartsApart ==
  ASSUME NEW l \in Layouts, NEW r \in Ranks(l), NEW p, NEW q,
         ParamOK(l, PpRank(l, r), p), ParamOK(l, PpRank(l, r), q),
         Global(l, r, p) = Global(l, r, q), ExpertOf(l, r, p) = ExpertOf(l, r, q),
         NEW part \in PartsOf(l, p.kind), part \in PartsOf(l, q.kind)
  PROVE  p = q
<1> DEFINE pp == PpRank(l, r)
<1>1. pp \in 0 .. l.pp - 1 /\ EpRank(l, r) \in Nat
  BY RankFacts
<1>2. ASSUME NEW x, ParamOK(l, pp, x), x.layer # None
      PROVE  /\ x \in ParamSet /\ x.vp \in 0 .. l.vp - 1 /\ x.layer \in 0 .. StageSize(l) - 1
             /\ InLayer(l, Global(l, r, x), x) \/ IsBias(l, Global(l, r, x), x)
             /\ Global(l, r, x) \in Nat
  BY <1>2, <1>1, HeldApart DEF Global, ParamOK, OuterParam
<1>3. ASSUME NEW x, ParamOK(l, pp, x), x.layer = None PROVE x \in ParamSet /\ OuterParam(l, pp, x.vp, x)
  BY <1>3, LayoutFacts DEF ParamOK, None
<1>4. p = [vp |-> p.vp, layer |-> p.layer, expert |-> p.expert, kind |-> p.kind]
  BY DEF ParamOK, ParamSet
<1>5. q = [vp |-> q.vp, layer |-> q.layer, expert |-> q.expert, kind |-> q.kind]
  BY DEF ParamOK, ParamSet
<1>6. CASE p.layer = None \/ q.layer = None
  <2>1. p.layer = None /\ q.layer = None
    BY <1>6, <1>2 DEF Global, None
  <2> QED
    BY <1>4, <1>5, <2>1, <1>3 DEF OuterParam, OuterOf, PartsOf, FirstKinds, PartName
<1>7. CASE p.layer # None /\ q.layer # None
  <2> DEFINE layer == Global(l, r, p)
  <2>1. p.vp = q.vp /\ p.layer = q.layer
    <3>1. /\ p.vp \in 0 .. l.vp - 1 /\ p.layer \in 0 .. StageSize(l) - 1
          /\ q.vp \in 0 .. l.vp - 1 /\ q.layer \in 0 .. StageSize(l) - 1
      BY <1>2, <1>7
    <3>2. HeldLayer(l, pp, p.vp, p.layer) = HeldLayer(l, pp, q.vp, q.layer)
      BY <1>7 DEF Global
    <3> HIDE DEF pp
    <3> QED
      BY <1>1, <3>1, <3>2, HeldApart
  <2>2. ASSUME NEW x \in {p, q}
        PROVE  /\ InLayer(l, layer, x) \/ IsBias(l, layer, x)
               /\ x.kind \in ExpertKinds => x.expert \in Nat /\ ExpertOf(l, r, x) = x.expert + EpRank(l, r) * LocalExperts(l)
               /\ x.kind \notin ExpertKinds => x.expert = None /\ ExpertOf(l, r, x) = None
    <3>1. InLayer(l, layer, x) \/ IsBias(l, layer, x)
      BY <1>2, <1>7
    <3>2. x.kind \in ExpertKinds => x.expert \in Nat
      BY <3>1, LayoutFacts DEF InLayer, IsBias, AttentionSet, MlpSet, ExpertKinds, Opens
    <3> QED
      BY <3>1, <3>2 DEF ExpertOf, ExpertId, LocalExperts, InLayer, IsBias
  <2> DEFINE e == EpRank(l, r) * LocalExperts(l)
  <2> HIDE DEF e
  <2>3. (p.kind \in ExpertKinds <=> q.kind \in ExpertKinds) /\ p.expert = q.expert
    BY <1>1, LayoutFacts, <2>2 DEF None, e
  <2> HIDE DEF layer
  <2>4. Source(l, layer, p.expert)[part] = p.kind
    <3>1. InLayer(l, layer, p) \/ IsBias(l, layer, p)
      BY <2>2
    <3> QED
      BY ZenonT(30), <3>1, SourceOf
  <2>5. Source(l, layer, q.expert)[part] = q.kind
    <3>1. InLayer(l, layer, q) \/ IsBias(l, layer, q)
      BY <2>2
    <3> QED
      BY <3>1, SourceOf
  <2> QED
    BY <1>4, <1>5, <2>1, <2>3, <2>4, <2>5
<1> QED
  BY <1>6, <1>7

\* The entries of different parameters have different names.
LEMMA NamesApart ==
  ASSUME NEW l \in Layouts, NEW r \in Ranks(l), NEW p, NEW q,
         ParamOK(l, PpRank(l, r), p), ParamOK(l, PpRank(l, r), q), p # q,
         NEW e \in Made(l, r, p, Global(l, r, p)), NEW f \in Made(l, r, q, Global(l, r, q))
  PROVE  Name(e) # Name(f)
<1> SUFFICES ASSUME Name(e) = Name(f) PROVE FALSE
  OBVIOUS
<1>1. e.layer = Global(l, r, p) /\ e.expert = ExpertOf(l, r, p) /\ e.part \in PartsOf(l, p.kind)
  BY MadeFacts
<1>2. f.layer = Global(l, r, q) /\ f.expert = ExpertOf(l, r, q) /\ f.part \in PartsOf(l, q.kind)
  BY MadeFacts
<1> QED
  BY <1>1, <1>2, PartsApart DEF Name

----------------------------------------------------------------------------
\* Folds.

\* Putting a sequence of tensors into a dictionary, one at a time.
LEMMA PutFold ==
  ASSUME NEW base, NEW seq, Len(seq) \in Nat, DOMAIN seq = 1 .. Len(seq)
  PROVE  \E g : /\ g[0] = base
                /\ \A i \in 1 .. Len(seq) : g[i] = Put(g[i - 1], seq[i])
                /\ FoldLeft(Put, base, seq) = g[Len(seq)]
<1> DEFINE n == Len(seq)
           P == SUBSET (1 .. n)
           Greatest(s) == CHOOSE x \in s : \A y \in s : x >= y
           Step(h, s) == IF s = {} THEN base ELSE Put(h[s \ {Greatest(s)}], seq[Greatest(s)])
           iter[s \in P] == Step(iter, s)
           T == {m \in Nat : \E h : \A s \in P : s \subseteq 1 .. m => h[s] = Step(h, s)}
<1>1. ASSUME NEW m \in Nat, NEW s, s \subseteq 1 .. m + 1, ~(s \subseteq 1 .. m)
      PROVE  Greatest(s) = m + 1 /\ m + 1 \in s /\ s \ {m + 1} \subseteq 1 .. m
  <2>1. m + 1 \in s /\ \A y \in s : y \in Int /\ m + 1 >= y
    BY <1>1
  <2>2. Greatest(s) = m + 1
    BY <2>1
  <2> QED
    BY <2>1, <2>2, <1>1
<1>2. 0 \in T
  <2> DEFINE h == [s \in P |-> base]
  <2>1. \A s \in P : s \subseteq 1 .. 0 => h[s] = Step(h, s)
    OBVIOUS
  <2> HIDE DEF h, Step
  <2> QED
    BY <2>1
<1>3. ASSUME NEW m \in Nat, m \in T PROVE m + 1 \in T
  <2>1. PICK h : \A s \in P : s \subseteq 1 .. m => h[s] = Step(h, s)
    BY <1>3
  <2> DEFINE k == [s \in P |-> IF s \subseteq 1 .. m THEN h[s] ELSE Step(h, s)]
  <2>2. ASSUME NEW s \in P, s \subseteq 1 .. m + 1 PROVE k[s] = Step(k, s)
    <3>1. s \ {Greatest(s)} \subseteq 1 .. m
      <4>1. CASE s \subseteq 1 .. m
        BY <4>1
      <4>2. CASE ~(s \subseteq 1 .. m)
        <5> HIDE DEF Greatest
        <5> QED
          BY <1>1, <2>2, <4>2
      <4> QED
        BY <4>1, <4>2
    <3> HIDE DEF Greatest
    <3>2. k[s \ {Greatest(s)}] = h[s \ {Greatest(s)}]
      BY <3>1
    <3>3. k[s] = Step(h, s)
      BY <2>1
    <3> HIDE DEF k
    <3> QED
      BY <3>3, <3>2
  <2> HIDE DEF k, Step
  <2> QED
    BY <2>2
<1>4. n \in T
  <2> HIDE DEF T
  <2> QED
    BY <1>2, <1>3, Induction
<1>5. \E h : h = [s \in P |-> Step(h, s)]
  <2>1. PICK h : \A s \in P : h[s] = Step(h, s)
    BY <1>4
  <2> DEFINE k == [s \in P |-> h[s]]
  <2>2. \A s \in P : Step(k, s) = Step(h, s)
    <3> SUFFICES ASSUME NEW s \in P PROVE Step(k, s) = Step(h, s)
      OBVIOUS
    <3> HIDE DEF Greatest
    <3> QED
      OBVIOUS
  <2>3. \A s \in P : k[s] = Step(k, s)
    <3> HIDE DEF Step
    <3> QED
      BY <2>1, <2>2
  <2>4. k = [s \in P |-> k[s]]
    OBVIOUS
  <2> HIDE DEF k, Step
  <2> QED
    BY <2>3, <2>4
<1>6. iter = [s \in P |-> Step(iter, s)]
  <2> HIDE DEF Step
  <2> QED
    BY <1>5 DEF iter
<1>7. FoldLeft(Put, base, seq) = iter[1 .. n]
  BY DEF FoldLeft, MapThenFoldSet, Max
<1> HIDE DEF iter
<1> DEFINE g == [i \in 0 .. n |-> iter[1 .. i]]
<1>8. g[0] = base
  BY <1>6
<1>9. ASSUME NEW i \in 1 .. n PROVE g[i] = Put(g[i - 1], seq[i])
  <2> DEFINE s == 1 .. i
  <2>1. s \in P /\ s # {} /\ s \ {i} = 1 .. i - 1 /\ s \subseteq 1 .. (i - 1) + 1 /\ ~(s \subseteq 1 .. i - 1)
    <3>1. i \in s /\ i \notin 1 .. i - 1
      OBVIOUS
    <3>2. s \in P /\ s \subseteq 1 .. (i - 1) + 1
      OBVIOUS
    <3>3. s \ {i} = 1 .. i - 1
      OBVIOUS
    <3> HIDE DEF s, P
    <3> QED
      BY <3>1, <3>2, <3>3
  <2>2. Greatest(s) = i
    <3> HIDE DEF s, Greatest
    <3> QED
      BY <1>1, <2>1
  <2>3. g[i] = iter[s] /\ g[i - 1] = iter[1 .. i - 1]
    OBVIOUS
  <2>4. iter[s] = Step(iter, s)
    <3> HIDE DEF s, Step
    <3> QED
      BY <1>6, <2>1
  <2> HIDE DEF s, Greatest, g
  <2> QED
    BY <2>1, <2>2, <2>3, <2>4
<1>10. g[n] = iter[1 .. n]
  OBVIOUS
<1> HIDE DEF g
<1> QED
  BY <1>7, <1>8, <1>9, <1>10

\* One step of the grouping by size.
TakeOne(tensors, acc, i) ==
  LET current == Append(acc.current, i) IN
  IF Len(RowsOf(tensors, current)) > MaxTensorSize
    THEN [closed |-> Append(acc.closed, current), current |-> <<>>]
    ELSE [closed |-> acc.closed, current |-> current]

Nothing == [closed |-> <<>>, current |-> <<>>]
TakeAll(tensors, seq) == FoldLeft(LAMBDA acc, i : TakeOne(tensors, acc, i), Nothing, seq)

\* Taking a sequence of indices into groups, one at a time.
LEMMA TakeFold ==
  ASSUME NEW tensors, NEW seq, Len(seq) \in Nat, DOMAIN seq = 1 .. Len(seq)
  PROVE  \E g : /\ g[0] = Nothing
                /\ \A i \in 1 .. Len(seq) : g[i] = TakeOne(tensors, g[i - 1], seq[i])
                /\ TakeAll(tensors, seq) = g[Len(seq)]
<1> DEFINE n == Len(seq)
           P == SUBSET (1 .. n)
           Greatest(s) == CHOOSE x \in s : \A y \in s : x >= y
           Step(h, s) == IF s = {} THEN Nothing ELSE TakeOne(tensors, h[s \ {Greatest(s)}], seq[Greatest(s)])
           iter[s \in P] == Step(iter, s)
           T == {m \in Nat : \E h : \A s \in P : s \subseteq 1 .. m => h[s] = Step(h, s)}
<1>1. ASSUME NEW m \in Nat, NEW s, s \subseteq 1 .. m + 1, ~(s \subseteq 1 .. m)
      PROVE  Greatest(s) = m + 1 /\ m + 1 \in s /\ s \ {m + 1} \subseteq 1 .. m
  <2>1. m + 1 \in s /\ \A y \in s : y \in Int /\ m + 1 >= y
    BY <1>1
  <2>2. Greatest(s) = m + 1
    BY <2>1
  <2> QED
    BY <2>1, <2>2, <1>1
<1>2. 0 \in T
  <2> DEFINE h == [s \in P |-> Nothing]
  <2>1. \A s \in P : s \subseteq 1 .. 0 => h[s] = Step(h, s)
    OBVIOUS
  <2> HIDE DEF h, Step
  <2> QED
    BY <2>1
<1>3. ASSUME NEW m \in Nat, m \in T PROVE m + 1 \in T
  <2>1. PICK h : \A s \in P : s \subseteq 1 .. m => h[s] = Step(h, s)
    BY <1>3
  <2> DEFINE k == [s \in P |-> IF s \subseteq 1 .. m THEN h[s] ELSE Step(h, s)]
  <2>2. ASSUME NEW s \in P, s \subseteq 1 .. m + 1 PROVE k[s] = Step(k, s)
    <3>1. s \ {Greatest(s)} \subseteq 1 .. m
      <4>1. CASE s \subseteq 1 .. m
        BY <4>1
      <4>2. CASE ~(s \subseteq 1 .. m)
        <5> HIDE DEF Greatest
        <5> QED
          BY <1>1, <2>2, <4>2
      <4> QED
        BY <4>1, <4>2
    <3> HIDE DEF Greatest
    <3>2. k[s \ {Greatest(s)}] = h[s \ {Greatest(s)}]
      BY <3>1
    <3>3. k[s] = Step(h, s)
      BY <2>1
    <3> HIDE DEF k
    <3> QED
      BY <3>3, <3>2
  <2> HIDE DEF k, Step
  <2> QED
    BY <2>2
<1>4. n \in T
  <2> HIDE DEF T
  <2> QED
    BY <1>2, <1>3, Induction
<1>5. \E h : h = [s \in P |-> Step(h, s)]
  <2>1. PICK h : \A s \in P : h[s] = Step(h, s)
    BY <1>4
  <2> DEFINE k == [s \in P |-> h[s]]
  <2>2. \A s \in P : Step(k, s) = Step(h, s)
    <3> SUFFICES ASSUME NEW s \in P PROVE Step(k, s) = Step(h, s)
      OBVIOUS
    <3> HIDE DEF Greatest
    <3> QED
      OBVIOUS
  <2>3. \A s \in P : k[s] = Step(k, s)
    <3> HIDE DEF Step
    <3> QED
      BY <2>1, <2>2
  <2>4. k = [s \in P |-> k[s]]
    OBVIOUS
  <2> HIDE DEF k, Step
  <2> QED
    BY <2>3, <2>4
<1>6. iter = [s \in P |-> Step(iter, s)]
  <2> HIDE DEF Step
  <2> QED
    BY <1>5 DEF iter
<1>7. TakeAll(tensors, seq) = iter[1 .. n]
  BY DEF TakeAll, FoldLeft, MapThenFoldSet, Max
<1> HIDE DEF iter
<1> DEFINE g == [i \in 0 .. n |-> iter[1 .. i]]
<1>8. g[0] = Nothing
  BY <1>6
<1>9. ASSUME NEW i \in 1 .. n PROVE g[i] = TakeOne(tensors, g[i - 1], seq[i])
  <2> DEFINE s == 1 .. i
  <2>1. s \in P /\ s # {} /\ s \ {i} = 1 .. i - 1 /\ s \subseteq 1 .. (i - 1) + 1 /\ ~(s \subseteq 1 .. i - 1)
    <3>1. i \in s /\ i \notin 1 .. i - 1
      OBVIOUS
    <3>2. s \in P /\ s \subseteq 1 .. (i - 1) + 1
      OBVIOUS
    <3>3. s \ {i} = 1 .. i - 1
      OBVIOUS
    <3> HIDE DEF s, P
    <3> QED
      BY <3>1, <3>2, <3>3
  <2>2. Greatest(s) = i
    <3> HIDE DEF s, Greatest
    <3> QED
      BY <1>1, <2>1
  <2>3. g[i] = iter[s] /\ g[i - 1] = iter[1 .. i - 1]
    OBVIOUS
  <2>4. iter[s] = Step(iter, s)
    <3> HIDE DEF s, Step
    <3> QED
      BY <1>6, <2>1
  <2> HIDE DEF s, Greatest, g
  <2> QED
    BY <2>1, <2>2, <2>3, <2>4
<1>10. g[n] = iter[1 .. n]
  OBVIOUS
<1> HIDE DEF g
<1> QED
  BY <1>7, <1>8, <1>9, <1>10

----------------------------------------------------------------------------
\* The inductive invariant.

\* All parameters of a rank, and how many of them it has converted.
All(r) == McoreModelParameters(layout, r)
Gone(r) == Len(All(r)) - Len(pending[r])
Named(r, p) == IF phase[r] = "meta" THEN p.layer ELSE Global(layout, r, p)
CacheDue(r) ==
  IF pending[r] = <<>> THEN {} ELSE CacheBefore(layout, r, Param(r), Named(r, Param(r)))

\* What the metadata says of a parameter under the number of its stage.
Tagged(e, vp) ==
  [layer |-> e.layer, expert |-> e.expert, part |-> e.part, dtype |-> e.dtype, rows |-> e.rows, vp |-> vp]
Announced(r, p) == {Tagged(e, p.vp) : e \in Made(layout, r, p, p.layer)}
SoFar(r, n) == UNION {Announced(r, All(r)[i]) : i \in 1 .. n}

\* The shapes of the variables; the first pass ends for all ranks together.
Shapes ==
  /\ layout \in Layouts
  /\ phase \in [Ranks(layout) -> {"meta", "convert", "grouped", "done"}]
  /\ DOMAIN pending = Ranks(layout) /\ DOMAIN cache = Ranks(layout) /\ DOMAIN converted = Ranks(layout)
  /\ \A r, q \in Ranks(layout) : phase[r] = "meta" => phase[q] = "meta"
\* A rank has converted a prefix of its parameters, and groups when there are no more.
Progress ==
  \A r \in Ranks(layout) :
    /\ Gone(r) \in 0 .. Len(All(r)) /\ pending[r] = SubSeq(All(r), Gone(r) + 1, Len(All(r)))
    /\ phase[r] \in {"grouped", "done"} => pending[r] = <<>>
\* The cache holds a first half exactly while its second half is still to come.
CacheIsDue == \A r \in Ranks(layout) : cache[r] = CacheDue(r)
\* A rank that is behind another of its group has no gather to catch up with.
Lockstep ==
  \A r \in Ranks(layout) : \A q \in TpGroup(layout, r) : \A i \in Gone(r) + 1 .. Gone(q) :
    ~Gathers(layout, r, All(r)[i])
\* The map of layers numbers every parameter as the model does.
MapIsGlobal ==
  \A r \in Ranks(layout), p \in ParamSet :
    phase[r] # "meta" /\ ParamOK(layout, PpRank(layout, r), p) =>
      McorePpName(layout, r, layerMap, p) = Global(layout, r, p)
\* In the first pass a rank has announced what it has converted.
ReportedSoFar ==
  \A r \in Ranks(layout) : phase[r] = "meta" =>
    /\ converted[r] \in Seq(SoFar(r, Len(All(r))))
    /\ Elements(converted[r]) = SoFar(r, Gone(r))

\* The inductive invariant.
Core == Shapes /\ Progress /\ CacheIsDue /\ Lockstep /\ MapIsGlobal /\ ReportedSoFar

\* What the parameters of a rank's stage are.
LEMMA AllFacts ==
  ASSUME layout \in Layouts, NEW r \in Ranks(layout)
  PROVE  /\ PpRank(layout, r) \in 0 .. layout.pp - 1
         /\ All(r) \in Seq(ParamSet) /\ Len(All(r)) \in Nat
         /\ \A i \in 1 .. Len(All(r)) : ParamOK(layout, PpRank(layout, r), All(r)[i]) /\ All(r)[i] \in ParamSet
         /\ Elements(All(r)) = {p \in ParamSet : ParamOK(layout, PpRank(layout, r), p)}
         /\ Distinct(All(r))
         /\ layout.qLora => Linked(All(r))
         /\ \A vp \in 0 .. layout.vp - 1, id \in 0 .. StageSize(layout) - 1 : HasLayer(All(r), vp, id)
         /\ \A q \in TpGroup(layout, r) : All(q) = All(r)
<1>1. PpRank(layout, r) \in 0 .. layout.pp - 1 /\ PpRank(layout, r) \in Int
  BY RankFacts, LayoutFacts
<1>2. \A q : All(q) = Params(layout, PpRank(layout, q))
  BY DEF All, Params, McoreModelParameters
<1> HIDE DEF All
<1> QED
  BY <1>1, <1>2, ParamsPart, GroupFacts DEF Part, Elements

\* The next parameter of a rank.
LEMMA NextParam ==
  ASSUME layout \in Layouts, NEW r \in Ranks(layout), Gone(r) \in 0 .. Len(All(r)),
         pending[r] = SubSeq(All(r), Gone(r) + 1, Len(All(r)))
  PROVE  /\ pending[r] \in Seq(ParamSet)
         /\ pending[r] = <<>> <=> Gone(r) = Len(All(r))
         /\ pending[r] # <<>> =>
              /\ Gone(r) + 1 \in 1 .. Len(All(r))
              /\ Param(r) = All(r)[Gone(r) + 1]
              /\ Tail(pending[r]) = SubSeq(All(r), Gone(r) + 2, Len(All(r)))
              /\ Len(Tail(pending[r])) = Len(All(r)) - (Gone(r) + 1)
<1> DEFINE s == All(r)
           n == Gone(r)
<1>1. s \in Seq(ParamSet) /\ Len(s) \in Nat /\ n \in 0 .. Len(s)
  BY AllFacts
<1> HIDE DEF s, n
<1>2. /\ SubSeq(s, n + 1, Len(s)) \in Seq(ParamSet) /\ Len(SubSeq(s, n + 1, Len(s))) = Len(s) - n
      /\ \A i \in 1 .. Len(s) - n : SubSeq(s, n + 1, Len(s))[i] = s[i + n]
  BY <1>1
<1>3. SubSeq(s, n + 1, Len(s)) = <<>> <=> n = Len(s)
  <2> DEFINE u == SubSeq(s, n + 1, Len(s))
  <2>1. u \in Seq(ParamSet) /\ Len(u) = Len(s) - n
    BY <1>2
  <2> HIDE DEF u
  <2>2. u = <<>> <=> Len(u) = 0
    BY <2>1
  <2>3. Len(s) - n = 0 <=> n = Len(s)
    BY <1>1
  <2> QED
    BY <2>1, <2>2, <2>3 DEF u
<1>4. ASSUME n # Len(s)
      PROVE  /\ n + 1 \in 1 .. Len(s)
             /\ Head(SubSeq(s, n + 1, Len(s))) = s[n + 1]
             /\ Tail(SubSeq(s, n + 1, Len(s))) = SubSeq(s, n + 2, Len(s))
             /\ Len(Tail(SubSeq(s, n + 1, Len(s)))) = Len(s) - (n + 1)
  <2>1. n + 1 \in 1 .. Len(s)
    BY <1>1, <1>4
  <2>2. Head(SubSeq(s, n + 1, Len(s))) = s[n + 1]
    BY <1>1, <1>2, <1>3, <1>4
  <2> DEFINE u == SubSeq(s, n + 1, Len(s))
             v == SubSeq(s, n + 2, Len(s))
  <2>3. v \in Seq(ParamSet) /\ Len(v) = Len(s) - (n + 1)
        /\ \A i \in 1 .. Len(s) - (n + 1) : v[i] = s[i + (n + 1)]
    BY <1>1, <2>1
  <2>4. u # <<>> /\ u \in Seq(ParamSet)
    BY <1>2, <1>3, <1>4
  <2> HIDE DEF u, v
  <2>5. Tail(u) \in Seq(ParamSet) /\ Len(Tail(u)) = Len(u) - 1 /\ \A i \in 1 .. Len(u) - 1 : Tail(u)[i] = u[i + 1]
    BY <2>4
  <2>6. Len(u) = Len(s) - n /\ \A i \in 1 .. Len(s) - n : u[i] = s[i + n]
    BY <1>2 DEF u
  <2>7. Len(Tail(u)) = Len(v)
    <3>1. Len(Tail(u)) = Len(u) - 1 /\ Len(u) = Len(s) - n /\ Len(v) = Len(s) - (n + 1)
      BY <2>3, <2>5, <2>6
    <3>2. n \in Int /\ Len(s) \in Int
      BY <1>1
    <3> QED
      BY <3>1, <3>2
  <2>8. ASSUME NEW i \in 1 .. Len(v) PROVE Tail(u)[i] = v[i]
    <3>1. i \in 1 .. Len(u) - 1 /\ i + 1 \in 1 .. Len(s) - n /\ (i + 1) + n = i + (n + 1)
      BY <1>1, <2>3, <2>6
    <3>2. Tail(u)[i] = s[(i + 1) + n]
      BY <2>5, <2>6, <3>1
    <3>3. v[i] = s[i + (n + 1)]
      BY <2>3, <2>8
    <3> QED
      BY <3>1, <3>2, <3>3
  <2>9. Tail(u) = v
    BY <2>3, <2>5, <2>7, <2>8
  <2> QED
    BY <2>1, <2>2, <2>3, <2>9 DEF u, v
<1> QED
  BY <1>2, <1>3, <1>4 DEF s, n, Param

\* A conversion yields what the parameter is due.
LEMMA ResultIs ==
  ASSUME Core, NEW q \in Ranks(layout), Converting(q)
  PROVE  ConvertParam(layout, q, IF phase[q] = "meta" THEN <<>> ELSE layerMap, cache[q], Param(q),
                      TensorOf(layout, q, Param(q)))
           = Outcome(layout, q, Param(q), Named(q, Param(q)))
<1> DEFINE p == Param(q)
           pp == PpRank(layout, q)
           map == IF phase[q] = "meta" THEN <<>> ELSE layerMap
<1>1. layout \in Layouts /\ Gone(q) \in 0 .. Len(All(q)) /\ pending[q] = SubSeq(All(q), Gone(q) + 1, Len(All(q)))
      /\ pending[q] # <<>> /\ phase[q] \in {"meta", "convert"}
  BY DEF Core, Shapes, Progress, Converting
<1>2. ParamOK(layout, pp, p) /\ p \in ParamSet /\ pp \in 0 .. layout.pp - 1
  BY <1>1, NextParam, AllFacts
<1> HIDE DEF p
<1>3. McorePpName(layout, q, map, p) = Named(q, p)
  <2>1. CASE phase[q] = "meta"
    BY <2>1 DEF McorePpName, Named
  <2>2. CASE phase[q] # "meta"
    BY <1>2, <2>2 DEF Core, MapIsGlobal, Named
  <2> QED
    BY <2>1, <2>2
<1>4. ASSUME p.layer # None, Lightning(layout, HeldLayer(layout, pp, p.vp, p.layer))
      PROVE  IsLinearLayer(layout, Named(q, p))
  <2>1. CASE phase[q] = "meta"
    BY <1>1, <1>2, <1>4, <2>1, LocalNumber DEF Named
  <2>2. CASE phase[q] # "meta"
    BY <1>1, <1>2, <1>4, GlobalNumber, <2>2 DEF Named, Global
  <2> QED
    BY <2>1, <2>2
<1> HIDE DEF pp, map
<1>5. ConvertParam(layout, q, map, CacheBefore(layout, q, p, McorePpName(layout, q, map, p)), p, TensorOf(layout, q, p))
        = Outcome(layout, q, p, McorePpName(layout, q, map, p))
  BY <1>1, <1>2, <1>3, <1>4, Supported, ConversionIs DEF pp
<1> QED
  BY <1>1, <1>3, <1>5 DEF map, p, Core, CacheIsDue, CacheDue

----------------------------------------------------------------------------
\* What Convert does.

\* The answer to the parameter a rank is at.
OutcomeOf(q) == Outcome(layout, q, Param(q), Named(q, Param(q)))
EntriesDue(q) == EntriesOf(layout, q, Param(q), Named(q, Param(q)))

\* What a conversion of the ranks in T does, of which none fails.
ConvertEffect(T) ==
  /\ layout' = layout /\ meta' = meta /\ layerMap' = layerMap /\ buffer' = buffer /\ weights' = weights
  /\ DOMAIN converted' = Ranks(layout) /\ DOMAIN cache' = Ranks(layout) /\ DOMAIN pending' = Ranks(layout)
  /\ phase' = phase
  /\ \A q \in T :
       /\ converted'[q] = IF phase[q] = "meta" THEN converted[q] \o Reported(q, EntriesDue(q))
                          ELSE FoldLeft(Put, converted[q], EntriesDue(q))
       /\ cache'[q] = CacheAfter(layout, q, Param(q), Named(q, Param(q)))
       /\ pending'[q] = Tail(pending[q])
  /\ \A q \in Ranks(layout) \ T :
       converted'[q] = converted[q] /\ cache'[q] = cache[q] /\ pending'[q] = pending[q]

\* Convert, taken by the ranks T, has the effect ConvertEffect(T).
LEMMA ConvertDoes ==
  ASSUME Core, NEW T \in SUBSET Ranks(layout), NEW tensors, DOMAIN tensors = T,
         \A q \in T : Converting(q) /\ tensors[q] = TensorOf(layout, q, Param(q)),
         Convert(tensors)
  PROVE  ConvertEffect(T)
<1> DEFINE Result(q) == ConvertParam(layout, q, IF phase[q] = "meta" THEN <<>> ELSE layerMap, cache[q],
                                     Param(q), tensors[q])
           result == [q \in DOMAIN tensors |-> Result(q)]
<1>1. \A q : /\ OutcomeOf(q).ok = TRUE /\ OutcomeOf(q).entries = EntriesDue(q)
             /\ OutcomeOf(q).cache = CacheAfter(layout, q, Param(q), Named(q, Param(q)))
  BY DEF OutcomeOf, Outcome, Converted, EntriesDue
<1>2. \A q \in T : /\ result[q].ok = TRUE /\ result[q].entries = EntriesDue(q)
                   /\ result[q].cache = CacheAfter(layout, q, Param(q), Named(q, Param(q)))
  BY ResultIs, <1>1 DEF OutcomeOf
<1>3. /\ converted' = [q \in Ranks(layout) |->
          IF ~(q \in T) THEN converted[q]
          ELSE IF phase[q] = "meta" THEN converted[q] \o Reported(q, result[q].entries)
          ELSE FoldLeft(Put, converted[q], result[q].entries)]
      /\ cache' = [q \in Ranks(layout) |-> IF q \in T THEN result[q].cache ELSE cache[q]]
      /\ pending' = [q \in Ranks(layout) |-> IF q \in T THEN Tail(pending[q]) ELSE pending[q]]
      /\ phase' = [q \in Ranks(layout) |-> IF q \in T /\ ~result[q].ok THEN "failed" ELSE phase[q]]
      /\ UNCHANGED <<layout, meta, layerMap, buffer, weights>>
  BY DEF Convert
<1> HIDE DEF result
<1> QED
  BY <1>3, <1>2 DEF ConvertEffect, Core, Shapes

\* A conversion without a gather is taken by one rank.
LEMMA LocalConverts ==
  ASSUME Core, NEW r \in Ranks(layout), ConvertLocal(r)
  PROVE  ConvertEffect({r}) /\ Converting(r) /\ ~Gathers(layout, r, Param(r))
<1> DEFINE tensors == [q \in {r} |-> McoreTensor(layout, q, Param(q))]
<1>1. Converting(r) /\ ~Gathers(layout, r, Param(r)) /\ Convert(tensors)
  BY DEF ConvertLocal
<1>2. DOMAIN tensors = {r} /\ tensors[r] = TensorOf(layout, r, Param(r))
  BY <1>1 DEF TensorOf
<1> HIDE DEF tensors
<1> QED
  BY <1>1, <1>2, ConvertDoes

\* The ranks of a group that gather are at the same parameter.
LEMMA GroupAtOne ==
  ASSUME Core, NEW r \in Ranks(layout),
         \A q \in TpGroup(layout, r) : Converting(q) /\ Gathers(layout, q, Param(q))
  PROVE  \A q \in TpGroup(layout, r) : Gone(q) = Gone(r) /\ Param(q) = Param(r)
<1>1. layout \in Layouts
  BY DEF Core, Shapes
<1>2. ASSUME NEW a \in TpGroup(layout, r), NEW b \in TpGroup(layout, r) PROVE ~(Gone(a) < Gone(b))
  <2>1. a \in Ranks(layout) /\ b \in Ranks(layout) /\ b \in TpGroup(layout, a) /\ pending[a] # <<>>
    BY <1>1, GroupFacts DEF Converting
  <2>2. Gone(a) \in 0 .. Len(All(a)) /\ Gone(b) \in 0 .. Len(All(b))
        /\ pending[a] = SubSeq(All(a), Gone(a) + 1, Len(All(a)))
    BY <2>1 DEF Core, Progress
  <2>3. ASSUME Gone(a) < Gone(b) PROVE FALSE
    <3>1. Gone(a) + 1 \in Gone(a) + 1 .. Gone(b)
      BY <2>2, <2>3, <1>1, <2>1, AllFacts
    <3> QED
      BY <2>1, <1>1, <2>2, NextParam, <3>1 DEF Core, Lockstep
  <2> QED
    BY <2>3
<1>3. r \in TpGroup(layout, r)
  BY <1>1, GroupIs
<1>4. ASSUME NEW q \in TpGroup(layout, r) PROVE Gone(q) = Gone(r) /\ Param(q) = Param(r)
  <2>1. q \in Ranks(layout) /\ pending[q] # <<>> /\ pending[r] # <<>>
    BY <1>1, <1>3, GroupFacts DEF Converting
  <2>2. /\ Gone(q) \in 0 .. Len(All(q)) /\ Gone(r) \in 0 .. Len(All(r))
        /\ pending[q] = SubSeq(All(q), Gone(q) + 1, Len(All(q)))
        /\ pending[r] = SubSeq(All(r), Gone(r) + 1, Len(All(r)))
    BY <2>1 DEF Core, Progress
  <2>3. Len(All(q)) \in Nat /\ Len(All(r)) \in Nat /\ All(q) = All(r)
    BY <1>1, <2>1, AllFacts
  <2>4. Gone(q) = Gone(r)
    BY <1>2, <1>3, <2>2, <2>3
  <2> QED
    BY <1>1, <2>1, <2>2, NextParam, <2>3, <2>4
<1> QED
  BY <1>4

\* A conversion with a gather is taken by a whole group, at one parameter.
LEMMA GatheredConverts ==
  ASSUME Core, NEW r \in Ranks(layout), ConvertGathered(r)
  PROVE  /\ ConvertEffect(TpGroup(layout, r))
         /\ \A q \in TpGroup(layout, r) : Converting(q) /\ Gone(q) = Gone(r)
<1> DEFINE Tensor(i) == McoreTensor(layout, r + i - 1, Param(r + i - 1))
           gathered == FlattenSeq([i \in 1 .. layout.tp |-> Tensor(i)])
           T == TpGroup(layout, r)
           tensors == [q \in T |-> gathered]
<1>1. layout \in Layouts
  BY DEF Core, Shapes
<1>2. /\ TpRank(layout, r) = 0
      /\ \A q \in T : Converting(q) /\ Gathers(layout, q, Param(q))
      /\ Convert(tensors)
  BY DEF ConvertGathered
<1>3. \A q \in T : Gone(q) = Gone(r) /\ Param(q) = Param(r)
  BY <1>2, GroupAtOne
<1>4. r = Base(layout, r) /\ r \in Nat
  BY <1>1, <1>2, RankFacts DEF Base
<1>5. T \in SUBSET Ranks(layout) /\ \A q \in T : Base(layout, q) = r
  BY <1>1, <1>4, GroupFacts
<1>6. \A i \in 1 .. layout.tp : Tensor(i) = McoreTensor(layout, r + i - 1, Param(r))
  <2> SUFFICES ASSUME NEW i \in 1 .. layout.tp PROVE Tensor(i) = McoreTensor(layout, r + i - 1, Param(r))
    OBVIOUS
  <2> QED
    BY <1>3, <1>1, <1>4, LayoutFacts, GroupIs
<1>7. ASSUME NEW q \in T PROVE tensors[q] = TensorOf(layout, q, Param(q))
  <2>1. gathered = FlattenSeq([i \in 1 .. layout.tp |-> McoreTensor(layout, r + i - 1, Param(r))])
    BY <1>6
  <2> HIDE DEF gathered
  <2> QED
    BY <2>1, <1>2, <1>3, <1>5 DEF TensorOf
<1>8. DOMAIN tensors = T
  OBVIOUS
<1> HIDE DEF tensors
<1> HIDE DEF T
<1> QED
  BY <1>2, <1>3, <1>5, <1>8, <1>7, ConvertDoes DEF T

----------------------------------------------------------------------------
\* The cache and the groups.

\* A rank that has converted one more parameter, and one that waits.
LEMMA GoneOn ==
  ASSUME Core, NEW T \in SUBSET Ranks(layout), ConvertEffect(T), \A q \in T : Converting(q),
         NEW r \in Ranks(layout)
  PROVE  /\ All(r)' = All(r)
         /\ Len(All(r)) \in Nat /\ Gone(r) \in 0 .. Len(All(r)) /\ Gone(r)' \in 0 .. Len(All(r))
         /\ Gone(r)' = IF r \in T THEN Gone(r) + 1 ELSE Gone(r)
         /\ pending'[r] = SubSeq(All(r), Gone(r)' + 1, Len(All(r)))
         /\ r \in T => /\ Gone(r) + 1 \in 1 .. Len(All(r)) /\ Param(r) = All(r)[Gone(r) + 1]
                       /\ pending[r] # <<>> /\ phase[r] \in {"meta", "convert"}
<1>1. layout \in Layouts /\ layout' = layout /\ All(r)' = All(r)
  BY DEF Core, Shapes, ConvertEffect, All
<1>2. Gone(r) \in 0 .. Len(All(r)) /\ pending[r] = SubSeq(All(r), Gone(r) + 1, Len(All(r)))
  BY DEF Core, Progress
<1>3. Len(All(r)) \in Nat
  BY <1>1, AllFacts
<1>4. CASE r \in T
  <2>1. pending[r] # <<>> /\ phase[r] \in {"meta", "convert"} /\ pending'[r] = Tail(pending[r])
    BY <1>4 DEF Converting, ConvertEffect
  <2>2. /\ Gone(r) + 1 \in 1 .. Len(All(r)) /\ Param(r) = All(r)[Gone(r) + 1]
        /\ Tail(pending[r]) = SubSeq(All(r), Gone(r) + 2, Len(All(r)))
        /\ Len(Tail(pending[r])) = Len(All(r)) - (Gone(r) + 1)
    BY <1>1, <1>2, <2>1, NextParam
  <2>3. Gone(r)' = Len(All(r)) - Len(Tail(pending[r]))
    BY <1>1, <2>1 DEF Gone
  <2>4. Gone(r)' = Gone(r) + 1 /\ Gone(r)' + 1 = Gone(r) + 2
    BY <1>2, <1>3, <2>2, <2>3
  <2>5. pending'[r] = SubSeq(All(r), Gone(r)' + 1, Len(All(r)))
    BY <2>1, <2>2, <2>4
  <2>6. Gone(r)' \in 0 .. Len(All(r))
    BY <1>2, <1>3, <2>2, <2>4
  <2> QED
    BY <1>1, <1>2, <1>3, <1>4, <2>1, <2>2, <2>4, <2>5, <2>6
<1>5. CASE r \notin T
  <2>1. pending'[r] = pending[r]
    BY <1>5 DEF ConvertEffect
  <2>2. Gone(r)' = Gone(r)
    BY <1>1, <2>1 DEF Gone
  <2> QED
    BY <1>1, <1>2, <1>3, <1>5, <2>1, <2>2
<1> QED
  BY <1>4, <1>5

\* A conversion leaves the layer number a parameter goes by.
LEMMA NamedSame ==
  ASSUME NEW T, ConvertEffect(T), NEW r, NEW p
  PROVE  Named(r, p)' = Named(r, p')
  BY DEF ConvertEffect, Named, Global

\* The cache: what opens a pair of down projections is followed by what closes it.
LEMMA CacheFollows ==
  ASSUME NEW l \in Layouts, NEW r, NEW p, NEW q, NEW layer, Follows(p, q) \/ (p.kind \notin Opens /\ q.kind \notin Closes)
  PROVE  l.qLora => CacheAfter(l, r, p, layer) = CacheBefore(l, r, q, layer)
<1>1. CASE Follows(p, q)
  BY <1>1 DEF CacheAfter, CacheBefore, Half, Follows, DownOf
<1>2. CASE p.kind \notin Opens /\ q.kind \notin Closes
  BY <1>2 DEF CacheAfter, CacheBefore
<1> QED
  BY <1>1, <1>2

\* Both halves of a fused projection go by one layer number.
LEMMA NumberSame ==
  ASSUME NEW r, NEW p, NEW q, Follows(p, q)
  PROVE  Named(r, p) = Named(r, q)
  BY DEF Follows, Named, Global

\* A conversion keeps in the cache what is due there.
LEMMA ConvertKeepsCache ==
  ASSUME Core, NEW T \in SUBSET Ranks(layout), ConvertEffect(T), \A q \in T : Converting(q)
  PROVE  CacheIsDue'
<1>1. layout \in Layouts /\ layout' = layout /\ phase' = phase
  BY DEF Core, Shapes, ConvertEffect
<1> SUFFICES ASSUME NEW r \in Ranks(layout) PROVE cache'[r] = CacheDue(r)'
  BY <1>1 DEF CacheIsDue
<1>2. CASE r \notin T
  <2>1. cache'[r] = cache[r] /\ pending'[r] = pending[r]
    BY <1>2 DEF ConvertEffect
  <2>2. CacheDue(r)' = CacheDue(r)
    BY <1>1, <2>1 DEF CacheDue, Param, Named, Global
  <2> QED
    BY <2>1, <2>2 DEF Core, CacheIsDue
<1>3. CASE r \in T
  <2> DEFINE n == Gone(r) + 1
             s == All(r)
             p == Param(r)
             q == s[n + 1]
  <2>1. cache'[r] = CacheAfter(layout, r, p, Named(r, p)) /\ Gone(r)' = n /\ p = s[n] /\ n \in 1 .. Len(s)
        /\ pending'[r] = SubSeq(s, n + 1, Len(s)) /\ Len(s) \in Nat
    BY GoneOn, <1>3 DEF ConvertEffect
  <2>2. s \in Seq(ParamSet) /\ (layout.qLora => Linked(s))
    BY <1>1, AllFacts
  <2>3. CASE ~layout.qLora
    BY <2>1, <2>3, <1>1 DEF CacheAfter, CacheDue, CacheBefore
  <2>4. CASE layout.qLora /\ n = Len(s)
    <3>1. pending'[r] = <<>>
      <4> HIDE DEF s, n
      <4> QED
        BY <2>1, <2>2, <2>4
    <3> QED
      BY <2>1, <2>2, <2>4, <3>1 DEF CacheDue, CacheAfter, Linked
  <2>5. CASE layout.qLora /\ n # Len(s)
    <3>1. n + 1 \in 1 .. Len(s) /\ n < Len(s) /\ (n + 1) - 1 = n
      BY <2>1, <2>5
    <3>2. pending'[r] # <<>> /\ Head(pending'[r]) = q
      <4> HIDE DEF s, n
      <4>1. SubSeq(s, n + 1, Len(s)) \in Seq(ParamSet) /\ Len(SubSeq(s, n + 1, Len(s))) = Len(s) - n
            /\ SubSeq(s, n + 1, Len(s))[1] = s[1 + n]
        BY <2>1, <2>2, <3>1
      <4>2. Len(s) - n > 0 /\ 1 + n = n + 1
        BY <2>1, <3>1
      <4> QED
        BY <2>1, <4>1, <4>2
    <3>3. Follows(p, q) \/ (p.kind \notin Opens /\ q.kind \notin Closes)
      <4>1. q.kind \in Closes => Follows(p, q)
        <5> HIDE DEF n
        <5> QED
          BY <2>1, <3>1, <2>2, <2>5 DEF Linked
      <4> QED
        BY <2>1, <2>2, <2>5, <4>1 DEF Linked
    <3>4. CacheDue(r)' = CacheBefore(layout, r, q, Named(r, q))
      <4>1. Named(r, q)' = Named(r, q')
        BY NamedSame
      <4> HIDE DEF q
      <4> QED
        BY <1>1, <3>2 DEF Param, CacheDue, Named, Global
    <3> HIDE DEF q, p, n, s
    <3>5. CacheAfter(layout, r, p, Named(r, p)) = CacheBefore(layout, r, q, Named(r, p))
      BY <1>1, <2>5, <3>3, CacheFollows
    <3>6. CacheBefore(layout, r, q, Named(r, p)) = CacheBefore(layout, r, q, Named(r, q))
      <4>1. CASE Follows(p, q)
        BY <4>1, NumberSame
      <4>2. CASE q.kind \notin Closes
        BY <4>2 DEF CacheBefore
      <4> QED
        BY <3>3, <4>1, <4>2
    <3> QED
      BY <2>1, <3>4, <3>5, <3>6
  <2> QED
    BY <2>3, <2>4, <2>5
<1> QED
  BY <1>2, <1>3

\* A conversion leaves no rank of a group ahead of the others past a gather.
LEMMA ConvertKeepsStep ==
  ASSUME Core, NEW T \in SUBSET Ranks(layout), ConvertEffect(T), \A q \in T : Converting(q),
         \A q \in T : \A a \in TpGroup(layout, q) :
           IF a \in T THEN Gone(a) = Gone(q) ELSE ~Gathers(layout, q, Param(q))
  PROVE  Lockstep'
<1>1. layout \in Layouts /\ layout' = layout
  BY DEF Core, Shapes, ConvertEffect
<1> SUFFICES ASSUME NEW r \in Ranks(layout), NEW q \in TpGroup(layout, r), NEW i \in Gone(r)' + 1 .. Gone(q)'
             PROVE  ~Gathers(layout, r, All(r)[i])
  BY <1>1 DEF Lockstep, All
<1>2. q \in Ranks(layout) /\ r \in TpGroup(layout, q) /\ All(q) = All(r)
  BY <1>1, GroupFacts, GroupIs, AllFacts
<1>3. /\ Gone(r) \in Nat /\ Gone(q) \in Nat
      /\ Gone(r)' = (IF r \in T THEN Gone(r) + 1 ELSE Gone(r))
      /\ Gone(q)' = (IF q \in T THEN Gone(q) + 1 ELSE Gone(q))
      /\ (q \in T => Param(q) = All(q)[Gone(q) + 1])
  BY <1>2, GoneOn
<1>4. CASE i \in Gone(r) + 1 .. Gone(q)
  BY <1>4 DEF Core, Lockstep
<1>5. CASE ~(i \in Gone(r) + 1 .. Gone(q))
  BY <1>2, <1>3, <1>5 DEF Gathers
<1> QED
  BY <1>4, <1>5

----------------------------------------------------------------------------
\* Conversions keep the invariant.

\* What is reported of a parameter.
LEMMA ReportIs ==
  ASSUME NEW r, Len(EntriesDue(r)) \in Nat, phase[r] = "meta"
  PROVE  /\ Reported(r, EntriesDue(r)) \in Seq(Announced(r, Param(r)))
         /\ Elements(Reported(r, EntriesDue(r))) = Announced(r, Param(r))
<1> DEFINE E == EntriesDue(r)
           n == Len(E)
           R == Reported(r, E)
           vp == Param(r).vp
<1>1. E = EntriesOf(layout, r, Param(r), Param(r).layer)
  BY DEF EntriesDue, Named
<1>2. Announced(r, Param(r)) = {Tagged(e, vp) : e \in Elements(E)}
  BY <1>1 DEF Announced, Made
<1> HIDE DEF E
<1>3. R = [i \in 1 .. n |-> Tagged(E[i], vp)]
  BY <1>1, MadeFacts DEF Reported, Tagged
<1> HIDE DEF n, R
<1>4. R \in Seq(Announced(r, Param(r))) /\ Len(R) = n
  BY <1>3, <1>2 DEF E, n, Elements
<1>5. Elements(R) = Announced(r, Param(r))
  BY <1>2, <1>3, <1>4 DEF Elements, n
<1> QED
  BY <1>4, <1>5 DEF R, E

\* One more parameter announces its tensors.
LEMMA SoFarNext ==
  ASSUME NEW r, NEW n \in Nat
  PROVE  SoFar(r, n + 1) = SoFar(r, n) \cup Announced(r, All(r)[n + 1])
<1> QED
  BY DEF SoFar

\* What was announced stays announced.
LEMMA SoFarWithin ==
  ASSUME NEW r, NEW n \in Nat, NEW m \in Nat, m <= n
  PROVE  SoFar(r, m) \subseteq SoFar(r, n)
<1> QED
  BY DEF SoFar

\* A conversion reports what the parameters taken so far announce.
LEMMA ConvertKeepsReport ==
  ASSUME Core, NEW T \in SUBSET Ranks(layout), ConvertEffect(T), \A q \in T : Converting(q)
  PROVE  ReportedSoFar'
<1>1. layout \in Layouts /\ layout' = layout /\ phase' = phase
  BY DEF Core, Shapes, ConvertEffect
<1> SUFFICES ASSUME NEW r \in Ranks(layout), phase[r] = "meta"
             PROVE  /\ converted'[r] \in Seq(SoFar(r, Len(All(r))))
                    /\ Elements(converted'[r]) = SoFar(r, Gone(r)')
  <2>1. \A r : SoFar(r, Len(All(r)))' = SoFar(r, Len(All(r)))
    BY <1>1 DEF SoFar, All, Announced
  <2>2. \A r : SoFar(r, Gone(r))' = SoFar(r, Gone(r)')
    BY <1>1 DEF SoFar, All, Announced, Gone
  <2> QED
    BY <1>1, <2>1, <2>2 DEF ReportedSoFar, Elements
<1>2. /\ Len(All(r)) \in Nat /\ Gone(r) \in 0 .. Len(All(r))
      /\ Gone(r)' = IF r \in T THEN Gone(r) + 1 ELSE Gone(r)
      /\ r \in T => Gone(r) + 1 \in 1 .. Len(All(r)) /\ Param(r) = All(r)[Gone(r) + 1]
  BY GoneOn
<1>3. converted[r] \in Seq(SoFar(r, Len(All(r)))) /\ Elements(converted[r]) = SoFar(r, Gone(r))
  BY DEF Core, ReportedSoFar
<1>4. CASE r \notin T
  BY <1>2, <1>3, <1>4 DEF ConvertEffect
<1>5. CASE r \in T
  <2> DEFINE R == Reported(r, EntriesDue(r))
             n == Gone(r)
             S == SoFar(r, Len(All(r)))
             A == Announced(r, Param(r))
             s == All(r)
  <2>1. converted'[r] = converted[r] \o R
    BY <1>5 DEF ConvertEffect
  <2>2. R \in Seq(A) /\ Elements(R) = A
    BY MadeFacts, ReportIs DEF EntriesDue
  <2>3. SoFar(r, n + 1) = SoFar(r, n) \cup A
    BY <1>2, <1>5, SoFarNext
  <2>4. A \subseteq S
    BY <2>3, <1>2, <1>5, SoFarWithin
  <2> HIDE DEF R, S, A
  <2>5. converted[r] \o R \in Seq(S) /\ Elements(converted[r] \o R) = Elements(converted[r]) \cup Elements(R)
    BY <2>2, <2>4, <1>3, ConcatElements DEF S
  <2> QED
    BY <1>2, <1>3, <1>5, <2>1, <2>2, <2>3, <2>5 DEF S
<1> QED
  BY <1>4, <1>5

\* A conversion keeps the inductive invariant.
LEMMA ConvertKeepsCore ==
  ASSUME Core, NEW T \in SUBSET Ranks(layout), ConvertEffect(T), \A q \in T : Converting(q),
         \A q \in T : \A a \in TpGroup(layout, q) :
           IF a \in T THEN Gone(a) = Gone(q) ELSE ~Gathers(layout, q, Param(q))
  PROVE  Core'
<1>1. Progress'
  <2>1. layout' = layout /\ phase' = phase
    BY DEF ConvertEffect
  <2>2. ASSUME NEW r \in Ranks(layout)
        PROVE  /\ Gone(r)' \in 0 .. Len(All(r)') /\ pending'[r] = SubSeq(All(r)', Gone(r)' + 1, Len(All(r)'))
               /\ phase'[r] \in {"grouped", "done"} => pending'[r] = <<>>
    <3>1. ASSUME phase[r] \in {"grouped", "done"} PROVE pending'[r] = <<>>
      BY <3>1 DEF Core, Progress, ConvertEffect, Converting
    <3> QED
      BY <2>1, GoneOn, <3>1
  <2> QED
    BY <2>1, <2>2 DEF Progress
<1>2. Lockstep'
  BY ConvertKeepsStep
<1>3. MapIsGlobal'
  BY DEF Core, MapIsGlobal, ConvertEffect, Global, McorePpName
<1> QED
  BY <1>1, ConvertKeepsCache, <1>2, <1>3, ConvertKeepsReport DEF Core, Shapes, ConvertEffect

\* So does a conversion without a gather.
LEMMA LocalKeepsCore ==
  ASSUME Core, NEW r \in Ranks(layout), ConvertLocal(r)
  PROVE  Core'
<1> QED
  BY LocalConverts, ConvertKeepsCore

\* And one with a gather.
LEMMA GatheredKeepsCore ==
  ASSUME Core, NEW r \in Ranks(layout), ConvertGathered(r)
  PROVE  Core'
<1> DEFINE T == TpGroup(layout, r)
<1>1. ConvertEffect(T) /\ \A q \in T : Converting(q) /\ Gone(q) = Gone(r)
  BY GatheredConverts
<1>2. T \in SUBSET Ranks(layout) /\ \A q \in T : TpGroup(layout, q) = T
  BY GroupFacts DEF Core, Shapes
<1> HIDE DEF T
<1> QED
  BY <1>1, <1>2, ConvertKeepsCore

\* A rank that begins a pass has converted nothing.
LEMMA FreshFacts ==
  ASSUME layout \in Layouts, NEW r \in Ranks(layout), pending[r] = All(r)
  PROVE  /\ Gone(r) = 0 /\ Len(All(r)) \in Nat
         /\ pending[r] = SubSeq(All(r), Gone(r) + 1, Len(All(r)))
         /\ CacheDue(r) = {}
<1>1. All(r) \in Seq(ParamSet) /\ Len(All(r)) \in Nat /\ (layout.qLora => Linked(All(r)))
  BY AllFacts
<1>2. SubSeq(All(r), 1, Len(All(r))) = All(r)
  <2> DEFINE s == All(r)
  <2> HIDE DEF s
  <2> QED
    BY <1>1 DEF s
<1>3. CacheDue(r) = {}
  <2>1. CASE All(r) = <<>> \/ ~layout.qLora
    BY <2>1 DEF CacheDue, CacheBefore
  <2>2. CASE All(r) # <<>> /\ layout.qLora
    BY <2>2, <1>1 DEF CacheDue, CacheBefore, Param, Linked
  <2> QED
    BY <2>1, <2>2
<1> QED
  BY <1>1, <1>2, <1>3 DEF Gone

\* No parameter announces nothing.
LEMMA NothingSoFar == \A r : SoFar(r, 0) = {}
  BY DEF SoFar

\* The inductive invariant holds initially.
LEMMA CoreInit == Init => Core
<1> SUFFICES ASSUME Init PROVE Core
  OBVIOUS
<1>1. layout \in Layouts
  BY DEF Init
<1>2. \A r \in Ranks(layout) :
        phase[r] = "meta" /\ pending[r] = All(r) /\ cache[r] = {} /\ converted[r] = <<>>
  BY DEF Init, All
<1>3. \A r \in Ranks(layout) :
        /\ Gone(r) = 0 /\ Len(All(r)) \in Nat /\ pending[r] = SubSeq(All(r), Gone(r) + 1, Len(All(r)))
        /\ CacheDue(r) = {}
  BY <1>1, <1>2, FreshFacts
<1>4. Shapes
  BY <1>1 DEF Init, Shapes
<1>5. CacheIsDue
  BY <1>2, <1>3 DEF CacheIsDue
<1>6. Lockstep
  <2> SUFFICES ASSUME NEW r \in Ranks(layout), NEW q \in TpGroup(layout, r), NEW i \in Gone(r) + 1 .. Gone(q)
               PROVE  FALSE
    BY DEF Lockstep
  <2> QED
    BY <1>3, <1>1, GroupFacts
<1>7. ReportedSoFar
  <2>1. Elements(<<>>) = {} /\ \A S : <<>> \in Seq(S)
    BY DEF Elements
  <2> QED
    BY <1>2, <1>3, <2>1, NothingSoFar DEF ReportedSoFar
<1> QED
  BY <1>4, <1>2, <1>3, <1>5, <1>6, <1>7 DEF Core, MapIsGlobal, Progress

----------------------------------------------------------------------------
\* Sharing the metadata.

\* A tensor goes by the layer number it was made under.
LEMMA MadeLayer ==
  ASSUME NEW l, NEW r, NEW p, NEW layer, NEW e \in Made(l, r, p, layer)
  PROVE  e.layer = layer
  BY MadeFacts

\* When all have reported, every stage has reported its layers.
LEMMA StagesReported ==
  ASSUME Core, \A r \in Ranks(layout) : Finished(r, "meta")
  PROVE  StageLayers(converted) = Places(layout)
<1>1. layout \in Layouts
  BY DEF Core, Shapes
<1>2. ASSUME NEW r \in Ranks(layout)
      PROVE  /\ Elements(converted[r]) = UNION {Announced(r, All(r)[i]) : i \in 1 .. Len(All(r))}
             /\ DOMAIN converted[r] = 1 .. Len(converted[r])
  <2>1. phase[r] = "meta" /\ pending[r] = <<>>
    BY DEF Finished
  <2>2. converted[r] \in Seq(SoFar(r, Len(All(r)))) /\ Elements(converted[r]) = SoFar(r, Gone(r))
    BY <2>1 DEF Core, ReportedSoFar
  <2> QED
    BY <1>1, <2>1, NextParam, <2>2 DEF SoFar, Core, Progress
<1>3. ASSUME NEW r \in Ranks(layout), NEW i \in DOMAIN converted[r], converted[r][i].layer # None
      PROVE  <<PpRank(layout, r), converted[r][i].vp, converted[r][i].layer>> \in Places(layout)
  <2>1. PICK k \in 1 .. Len(All(r)) : converted[r][i] \in Announced(r, All(r)[k])
    <3>1. converted[r][i] \in UNION {Announced(r, All(r)[k]) : k \in 1 .. Len(All(r))}
      BY <1>2 DEF Elements
    <3> QED
      BY <3>1
  <2> DEFINE p == All(r)[k]
  <2>2. PICK e \in Made(layout, r, p, p.layer) : converted[r][i] = Tagged(e, p.vp)
    BY <2>1 DEF Announced
  <2>3. e.layer = p.layer
    <3> DEFINE n == p.layer
    <3> HIDE DEF p, n
    <3> QED
      BY MadeLayer DEF n
  <2> QED
    BY <2>2, <2>3, <1>1, AllFacts, <1>3 DEF Places, ParamOK, OuterParam, Tagged
<1>4. ASSUME NEW x \in Places(layout)
      PROVE  \E r \in Ranks(layout) : \E i \in DOMAIN converted[r] :
               converted[r][i].layer # None /\ x = <<PpRank(layout, r), converted[r][i].vp, converted[r][i].layer>>
  <2>1. PICK pp \in 0 .. layout.pp - 1, vp \in 0 .. layout.vp - 1, id \in 0 .. StageSize(layout) - 1 : x = <<pp, vp, id>>
    BY DEF Places
  <2>2. PICK r \in Ranks(layout) : PpRank(layout, r) = pp
    BY <1>1, StageHasRank
  <2>3. PICK k \in 1 .. Len(All(r)) :
          All(r)[k].vp = vp /\ All(r)[k].layer = id /\ All(r)[k].expert = None /\ All(r)[k].kind = "pre_mlp_layernorm"
    BY <1>1, AllFacts DEF HasLayer, Elements
  <2> DEFINE p == All(r)[k]
             E == EntriesOf(layout, r, p, p.layer)
  <2>4. E[1] \in Made(layout, r, p, p.layer)
    BY <2>3 DEF Made, Elements, EntriesOf, FirstKinds, DownProjections
  <2>5. E[1].layer = id
    BY <2>3, <2>4, MadeFacts
  <2> HIDE DEF E
  <2>6. Tagged(E[1], vp) \in Elements(converted[r])
    <3>1. Tagged(E[1], vp) \in Announced(r, All(r)[k])
      BY <2>3, <2>4 DEF Announced
    <3> QED
      BY <3>1, <1>2
  <2>7. PICK i \in 1 .. Len(converted[r]) : converted[r][i] = Tagged(E[1], vp)
    BY <2>6 DEF Elements
  <2>8. converted[r][i].layer = id /\ converted[r][i].vp = vp
    BY <2>5, <2>7 DEF Tagged
  <2>9. i \in DOMAIN converted[r]
    BY <1>2
  <2> QED
    BY <2>1, <2>2, <2>8, <1>1, LayoutFacts, <2>9 DEF None
<1> QED
  BY <1>3, <1>4 DEF StageLayers

\* The map that they make of it has the numbers of the whole model.
LEMMA MapIsHeld ==
  ASSUME Core, \A r \in Ranks(layout) : Finished(r, "meta"),
         NEW pp \in 0 .. layout.pp - 1, NEW vp \in 0 .. layout.vp - 1, NEW id \in 0 .. StageSize(layout) - 1
  PROVE  /\ PpStageLayerIdMap(converted) # <<>>
         /\ PpStageLayerIdMap(converted)[<<pp, vp>>][id] = HeldLayer(layout, pp, vp, id)
<1> DEFINE held == StageLayers(converted)
           map == PpStageLayerIdMap(converted)
           x == <<pp, vp, id>>
           s == <<pp, vp>>
<1>1. held = Places(layout)
  BY StagesReported
<1>2. x \in Places(layout) /\ x[1] = pp /\ x[2] = vp /\ x[3] = id /\ s[1] = pp /\ s[2] = vp
  BY DEF Places
<1>3. s \in {<<y[1], y[2]>> : y \in held}
  BY <1>1, <1>2
<1>4. map = [t \in {<<y[1], y[2]>> : y \in held} |->
        [n \in {y[3] : y \in {z \in held : <<z[1], z[2]>> = t}} |->
           Cardinality({y \in held : StageBefore(y, <<t[1], t[2], n>>)})]]
  BY DEF PpStageLayerIdMap
<1>5. map[s][id] = Cardinality({y \in held : StageBefore(y, <<s[1], s[2], id>>)})
  BY <1>1, <1>2, <1>3, <1>4
<1>6. map[s][id] = HeldLayer(layout, pp, vp, id)
  BY <1>2, LayoutFacts, <1>1, <1>5, NamesAreLayers DEF Held, Layered, StageSize, Core, Shapes
<1>7. map # <<>>
  <2>1. DOMAIN <<>> = {}
    OBVIOUS
  <2> HIDE DEF map
  <2> QED
    BY <1>3, <1>4, <2>1
<1> QED
  BY <1>6, <1>7

\* Sharing the metadata keeps the inductive invariant: the map it builds is the true numbering.
LEMMA ShareKeepsCore ==
  ASSUME Core, ShareMeta
  PROVE  Core'
<1>1. /\ layout \in Layouts /\ layout' = layout
      /\ \A r \in Ranks(layout) : Finished(r, "meta")
      /\ layerMap' = PpStageLayerIdMap(converted)
  BY DEF Core, Shapes, ShareMeta
<1>2. /\ phase' = [r \in Ranks(layout) |-> "convert"]
      /\ pending' = [r \in Ranks(layout) |-> All(r)]
      /\ cache' = [r \in Ranks(layout) |-> {}]
      /\ converted' = [r \in Ranks(layout) |-> <<>>]
  BY DEF ShareMeta, All
<1>3. ASSUME NEW r \in Ranks(layout)
      PROVE  /\ All(r)' = All(r) /\ Gone(r)' = 0 /\ Len(All(r)) \in Nat
             /\ pending'[r] = SubSeq(All(r), 1, Len(All(r))) /\ CacheDue(r)' = {}
  <2>1. All(r)' = All(r) /\ pending'[r] = All(r)
    BY <1>1, <1>2 DEF All
  <2>2. /\ All(r) \in Seq(ParamSet) /\ Len(All(r)) \in Nat /\ (layout.qLora => Linked(All(r)))
    BY <1>1, AllFacts
  <2>3. SubSeq(All(r), 1, Len(All(r))) = All(r)
    <3> DEFINE s == All(r)
    <3> HIDE DEF s
    <3> QED
      BY <2>2 DEF s
  <2>4. CacheDue(r)' = {}
    <3>1. CASE All(r) = <<>> \/ ~layout.qLora
      BY <1>1, <2>1, <3>1 DEF CacheDue, CacheBefore
    <3>2. CASE All(r) # <<>> /\ layout.qLora
      BY <2>2, <3>2, <2>1 DEF CacheDue, CacheBefore, Linked, Param
    <3> QED
      BY <3>1, <3>2
  <2> QED
    BY <2>1, <2>2, <2>3, <2>4 DEF Gone
<1>4. Shapes'
  BY <1>1, <1>2 DEF Shapes
<1>5. Progress'
  <2>1. ASSUME NEW r \in Ranks(layout)
        PROVE  /\ Gone(r)' \in 0 .. Len(All(r)') /\ pending'[r] = SubSeq(All(r)', Gone(r)' + 1, Len(All(r)'))
               /\ phase'[r] \notin {"grouped", "done"}
    BY <1>2, <1>3
  <2> QED
    BY <1>1, <2>1 DEF Progress
<1>6. CacheIsDue'
  BY <1>1, <1>2, <1>3 DEF CacheIsDue
<1>7. Lockstep'
  <2>1. ASSUME NEW r \in Ranks(layout), NEW q \in TpGroup(layout, r) PROVE Gone(r)' + 1 .. Gone(q)' = {}
    BY <1>3, <1>1, GroupFacts
  <2> QED
    BY <1>1, <2>1 DEF Lockstep
<1>8. MapIsGlobal'
  <2>1. ASSUME NEW r \in Ranks(layout), NEW p \in ParamSet, ParamOK(layout, PpRank(layout, r), p)
        PROVE  McorePpName(layout, r, layerMap', p) = Global(layout, r, p)
    <3>1. CASE p.layer = None
      BY <3>1 DEF McorePpName, Global
    <3>2. CASE p.layer # None
      BY <1>1, <3>2, <2>1, AllFacts, MapIsHeld DEF McorePpName, Global, ParamOK, OuterParam
    <3> QED
      BY <3>1, <3>2
  <2> QED
    BY <1>1, <2>1 DEF MapIsGlobal
<1>9. ReportedSoFar'
  BY <1>1, <1>2 DEF ReportedSoFar
<1> QED
  BY <1>4, <1>5, <1>6, <1>7, <1>8, <1>9 DEF Core

----------------------------------------------------------------------------
\* The invariant and what follows.

\* Grouping and collecting keep the inductive invariant.
LEMMA LaterKeepsCore ==
  ASSUME Core, NEW r \in Ranks(layout), GroupTensors(r) \/ CollectTrainingWeights(r)
  PROVE  Core'
<1>1. /\ layout \in Layouts /\ layout' = layout /\ pending' = pending /\ cache' = cache /\ layerMap' = layerMap
      /\ phase[r] \in {"convert", "grouped"} /\ pending[r] = <<>>
  BY DEF Core, Shapes, Progress, GroupTensors, CollectTrainingWeights, Finished
<1>2. \A q \in Ranks(layout) : phase[q] \in {"meta", "convert", "grouped", "done"} /\ phase[q] # "meta"
  BY <1>1 DEF Core, Shapes
<1>3. /\ phase' \in [Ranks(layout) -> {"meta", "convert", "grouped", "done"}]
      /\ \A q \in Ranks(layout) : phase'[q] # "meta"
      /\ \A q \in Ranks(layout) : q # r => phase'[q] = phase[q]
  BY <1>2 DEF Core, Shapes, GroupTensors, CollectTrainingWeights
<1>4. \A q \in Ranks(layout) : All(q)' = All(q) /\ Gone(q)' = Gone(q)
  BY <1>1 DEF All, Gone
<1>5. Shapes'
  BY <1>1, <1>3 DEF Core, Shapes, GroupTensors, CollectTrainingWeights
<1>6. Progress'
  <2>1. ASSUME NEW q \in Ranks(layout), phase'[q] \in {"grouped", "done"} PROVE pending'[q] = <<>>
    BY <1>1, <1>3, <2>1 DEF Core, Progress
  <2> QED
    BY <1>1, <1>4, <2>1 DEF Core, Progress
<1>7. CacheIsDue'
  <2>1. \A q \in Ranks(layout) : CacheDue(q)' = CacheDue(q)
    BY <1>1, <1>2, <1>3 DEF CacheDue, Named, Param, Global
  <2> QED
    BY <1>1, <2>1 DEF Core, CacheIsDue
<1>8. Lockstep'
  <2> SUFFICES ASSUME NEW a \in Ranks(layout), NEW b \in TpGroup(layout, a), NEW i \in Gone(a)' + 1 .. Gone(b)'
               PROVE  ~Gathers(layout, a, All(a)[i])
    BY <1>1 DEF Lockstep, All
  <2> QED
    BY <1>4, <1>1, GroupFacts DEF Core, Lockstep
<1>9. MapIsGlobal'
  BY <1>1, <1>2, <1>3 DEF Core, MapIsGlobal, Global, McorePpName
<1>10. ReportedSoFar'
  BY <1>1, <1>3 DEF ReportedSoFar
<1> QED
  BY <1>5, <1>6, <1>7, <1>8, <1>9, <1>10 DEF Core

\* Stuttering keeps the inductive invariant.
LEMMA StutterKeepsCore ==
  ASSUME Core, UNCHANGED vars
  PROVE  Core'
<1> USE DEF vars
<1>1. layout' = layout /\ \A r : All(r)' = All(r)
  BY DEF All
<1>2. CacheIsDue'
  <2>1. \A q : CacheDue(q)' = CacheDue(q)
    BY DEF CacheDue, Named, Param, Global
  <2> QED
    BY <2>1 DEF Core, CacheIsDue
<1>3. Lockstep'
  BY DEF Core, Lockstep, Gone, All
<1>4. MapIsGlobal'
  BY DEF Core, MapIsGlobal, Global, McorePpName
<1>5. ReportedSoFar'
  <2>1. \A r : SoFar(r, Len(All(r)))' = SoFar(r, Len(All(r)))
    BY <1>1 DEF SoFar, All, Announced
  <2>2. \A r : SoFar(r, Gone(r))' = SoFar(r, Gone(r))
    BY <1>1 DEF SoFar, All, Announced, Gone
  <2> QED
    BY <2>1, <2>2, <1>1 DEF Core, ReportedSoFar, Elements
<1> QED
  BY <1>2, <1>3, <1>4, <1>5 DEF Core, Shapes, Progress, Gone, All

\* The inductive invariant of the conversion: pending, cache, announcements and the map of
\* layers of every rank agree, and the ranks of a group gather the same parameters in the
\* same order.
THEOREM CoreInvariant == Spec => []Core
<1>1. Init => Core
  BY CoreInit
<1>2. Core /\ [Next]_vars => Core'
  <2> SUFFICES ASSUME Core, [Next]_vars PROVE Core'
    OBVIOUS
  <2>1. ASSUME NEW r \in Ranks(layout), ConvertLocal(r) PROVE Core'
    BY <2>1, LocalKeepsCore
  <2>2. ASSUME NEW r \in Ranks(layout), ConvertGathered(r) PROVE Core'
    BY <2>2, GatheredKeepsCore
  <2>3. ASSUME NEW r \in Ranks(layout), GroupTensors(r) \/ CollectTrainingWeights(r) PROVE Core'
    BY <2>3, LaterKeepsCore
  <2>4. CASE ShareMeta
    BY <2>4, ShareKeepsCore
  <2>5. CASE UNCHANGED vars
    BY <2>5, StutterKeepsCore
  <2> QED
    BY <2>1, <2>2, <2>3, <2>4, <2>5 DEF Next
<1> QED
  BY <1>1, <1>2, PTL DEF Spec

\* The inductive invariant leaves no cache entry behind.
LEMMA CoreDrains == Core => CacheDrained
<1> SUFFICES ASSUME Core, NEW r \in Ranks(layout), Finished(r, "meta") \/ phase[r] \in {"grouped", "done"}
             PROVE  cache[r] = {}
  BY DEF CacheDrained, Core, Shapes
<1> QED
  BY DEF Core, CacheIsDue, CacheDue, Finished, Progress

\* A pass over the parameters ends with an empty cache (mcore_converter.py:873-910): no
\* half of a fused projection is left for the next pass, in any layout.
THEOREM NothingLeftBehind == Spec => []CacheDrained
BY CoreInvariant, CoreDrains, PTL

\* The rank of a group that is behind, or the whole group, can go on.
LEMMA GroupGoesOn ==
  ASSUME Core, NEW r \in Ranks(layout), pending[r] # <<>>
  PROVE  \E q \in Ranks(layout) :
           \/ Converting(q) /\ ~Gathers(layout, q, Param(q))
           \/ \A a \in TpGroup(layout, q) : Converting(a) /\ Gathers(layout, a, Param(a))
<1>1. layout \in Layouts
  BY DEF Core, Shapes
<1>2. ASSUME NEW q \in Ranks(layout)
      PROVE  /\ Gone(q) \in 0 .. Len(All(q)) /\ Len(All(q)) \in Nat /\ pending[q] = SubSeq(All(q), Gone(q) + 1, Len(All(q)))
             /\ pending[q] = <<>> <=> Gone(q) = Len(All(q))
             /\ pending[q] # <<>> => Param(q) = All(q)[Gone(q) + 1] /\ Converting(q)
  BY <1>1, AllFacts, NextParam DEF Core, Progress, Shapes, Converting
<1> DEFINE G == TpGroup(layout, r)
           C == {Gone(q) : q \in G}
<1>3. \A q \in G : q \in Ranks(layout) /\ All(q) = All(r) /\ TpGroup(layout, q) = G
  BY <1>1, GroupFacts, AllFacts
<1>4. r \in G
  BY <1>1, GroupIs
<1>5. C \in SUBSET Nat /\ C # {}
  BY <1>2, <1>3, <1>4
<1> HIDE DEF C
<1>6. PICK n \in C : \A m \in C : n <= m
  BY <1>5, LeastNumber
<1>7. PICK q \in G : Gone(q) = n
  BY <1>6 DEF C
<1>8. \A a \in G : Gone(q) <= Gone(a)
  BY <1>6, <1>7 DEF C
<1>9. pending[q] # <<>> /\ Gone(q) < Len(All(r))
  BY <1>2, <1>3, <1>4, <1>7, <1>8
<1>10. CASE ~Gathers(layout, q, Param(q))
  BY <1>2, <1>3, <1>7, <1>9, <1>10
<1>11. CASE Gathers(layout, q, Param(q))
  <2>1. ASSUME NEW a \in G PROVE Converting(a) /\ Gathers(layout, a, Param(a))
    <3>1. a \in Ranks(layout) /\ a \in TpGroup(layout, q) /\ q \in Ranks(layout)
      BY <1>3, <1>7
    <3>2. ~(Gone(q) < Gone(a))
      <4> SUFFICES ASSUME Gone(q) < Gone(a) PROVE FALSE
        OBVIOUS
      <4>1. Gone(q) + 1 \in Gone(q) + 1 .. Gone(a)
        BY <1>2, <3>1
      <4> QED
        BY <1>2, <1>9, <1>11, <3>1, <4>1 DEF Core, Lockstep
    <3>3. Gone(a) = Gone(q)
      BY <1>2, <1>8, <3>1, <3>2
    <3>4. pending[a] # <<>> /\ Param(a) = Param(q) /\ Converting(a)
      BY <1>2, <1>3, <1>7, <1>9, <3>1, <3>3
    <3> QED
      BY <1>11, <3>4 DEF Gathers
  <2> QED
    BY <1>3, <1>7, <2>1
<1> QED
  BY <1>10, <1>11

\* Under the inductive invariant some rank can go on.
LEMMA CoreGoesOn == Core => NeverStuck
<1> SUFFICES ASSUME Core, ~AllDone, ~(\A r \in Ranks(layout) : Finished(r, "meta")) PROVE NeverStuck
  BY DEF NeverStuck
<1>1. CASE \E r \in Ranks(layout) : pending[r] # <<>>
  BY <1>1, GroupGoesOn DEF NeverStuck
<1>2. CASE \A r \in Ranks(layout) : pending[r] = <<>>
  <2>1. PICK r \in Ranks(layout) : phase[r] # "done"
    BY DEF AllDone
  <2> QED
    BY <1>2, <2>1 DEF NeverStuck, Finished, Core, Shapes
<1> QED
  BY <1>1, <1>2

\* The collectives of the conversion never deadlock: while some rank has work, some step
\* is enabled, in any layout.
THEOREM NobodyWaitsForever == Spec => []NeverStuck
BY CoreInvariant, CoreGoesOn, PTL

----------------------------------------------------------------------------
\* Groupings.

\* Sequences of no element and of one.
LEMMA SingleFacts ==
  ASSUME NEW a
  PROVE  Elements(<<a>>) = {a} /\ Distinct(<<a>>) /\ Elements(<<>>) = {} /\ Distinct(<<>>)
  BY DEF Elements, Distinct

\* Appending an element adds it.
LEMMA AppendFacts ==
  ASSUME NEW S, NEW s \in Seq(S), NEW a \in S
  PROVE  /\ Append(s, a) \in Seq(S) /\ Elements(Append(s, a)) = Elements(s) \cup {a}
         /\ Distinct(s) /\ a \notin Elements(s) => Distinct(Append(s, a))
         /\ Append(s, a) # <<>>
<1>1. Append(s, a) \in Seq(S) /\ Len(Append(s, a)) = Len(s) + 1 /\ Append(s, a)[Len(s) + 1] = a /\ Len(s) \in Nat
  OBVIOUS
<1>2. Append(s, a) # <<>>
  <2> DEFINE t == Append(s, a)
  <2>1. Len(t) # 0
    BY <1>1
  <2> HIDE DEF t
  <2>2. t # <<>>
    BY <2>1
  <2> QED
    BY <2>2 DEF t
<1> QED
  BY <1>1, <1>2 DEF Elements, Distinct

\* The groups deal out the members of a set: every one is in one place.
Deals(groups, A) ==
  /\ groups \in Seq(Seq(A))
  /\ Distinct(groups)
  /\ \A s \in Elements(groups) : s # <<>> /\ Distinct(s)
  /\ \A s, t \in Elements(groups) : s # t => Elements(s) \cap Elements(t) = {}
  /\ \A a \in A : \E s \in Elements(groups) : a \in Elements(s)

\* A sequence over S has its elements in S.
LEMMA SeqElements ==
  ASSUME NEW S, NEW s \in Seq(S)
  PROVE  Elements(s) \subseteq S /\ Len(s) \in Nat /\ \A i \in 1 .. Len(s) : s[i] \in Elements(s)
  BY DEF Elements

\* A sequence over S is one over a larger set.
LEMMA SeqWider ==
  ASSUME NEW S, NEW T, S \subseteq T, NEW s \in Seq(S)
  PROVE  s \in Seq(T)
  OBVIOUS

\* A sequence whose elements lie in T is a sequence over T.
LEMMA SeqMembers ==
  ASSUME NEW S, NEW T, NEW s \in Seq(S), Elements(s) \subseteq T
  PROVE  s \in Seq(T)
<1> QED
  BY DEF Elements

\* The same for sequences of sequences.
LEMMA SeqSeqWider ==
  ASSUME NEW S, NEW T, S \subseteq T, NEW s \in Seq(Seq(S))
  PROVE  s \in Seq(Seq(T))
<1> HIDE DEF Distinct
<1> QED
  BY SeqWider

\* No group deals out nothing.
LEMMA DealsNothing == Deals(<<>>, {})
  BY DEF Deals, Elements, Distinct

\* A further group deals out its own indices.
LEMMA DealsOneMore ==
  ASSUME NEW A, NEW groups, Deals(groups, A), NEW B, NEW s \in Seq(B), s # <<>>, Distinct(s), Elements(s) = B,
         A \cap B = {}
  PROVE  Deals(Append(groups, s), A \cup B)
<1>1. groups \in Seq(Seq(A \cup B)) /\ s \in Seq(A \cup B)
  BY SeqSeqWider, SeqWider DEF Deals
<1> QED
  BY <1>1, SeqElements, AppendFacts DEF Deals

\* Groupings of disjoint sets flatten to a grouping of their union.
LEMMA DealsAll ==
  ASSUME NEW n \in Nat, NEW seqs, NEW sets, seqs = [i \in 1 .. n |-> seqs[i]],
         \A i \in 1 .. n : Deals(seqs[i], sets[i]),
         \A i, j \in 1 .. n : i # j => sets[i] \cap sets[j] = {}
  PROVE  Deals(FlattenSeq(seqs), UNION {sets[i] : i \in 1 .. n})
<1> DEFINE A == UNION {sets[i] : i \in 1 .. n}
           F == FlattenSeq(seqs)
<1>1. \A i \in 1 .. n : seqs[i] \in Seq(Seq(A))
  <2>1. \A i \in 1 .. n : sets[i] \subseteq A /\ seqs[i] \in Seq(Seq(sets[i]))
    BY DEF Deals
  <2> HIDE DEF A
  <2> QED
    BY <2>1, SeqSeqWider
<1> HIDE DEF A
<1>2. seqs \in Seq(Seq(Seq(A))) /\ Len(seqs) = n
  BY <1>1
<1>3. F \in Seq(Seq(A)) /\ Elements(F) = UNION {Elements(seqs[i]) : i \in 1 .. n}
  BY <1>2, FlattenType, FlattenElements
<1>4. \A i \in 1 .. n : \A s \in Elements(seqs[i]) : s \in Seq(sets[i]) /\ Elements(s) \subseteq sets[i] /\ s # <<>> /\ Distinct(s)
  <2> SUFFICES ASSUME NEW i \in 1 .. n, NEW s \in Elements(seqs[i])
               PROVE  s \in Seq(sets[i]) /\ Elements(s) \subseteq sets[i] /\ s # <<>> /\ Distinct(s)
    OBVIOUS
  <2> QED
    BY SeqElements DEF Deals
<1>5. \A i \in 1 .. n : \A s \in Elements(seqs[i]) : \E a \in sets[i] : a \in Elements(s)
  <2> SUFFICES ASSUME NEW i \in 1 .. n, NEW s \in Elements(seqs[i]) PROVE \E a \in sets[i] : a \in Elements(s)
    OBVIOUS
  <2> QED
    BY <1>4, SeqElements
<1>6. \A i, j \in 1 .. n : i # j => Elements(seqs[i]) \cap Elements(seqs[j]) = {}
  BY <1>4, <1>5
<1>7. Distinct(F)
  BY <1>2, <1>6, FlattenDistinct DEF Deals
<1> HIDE DEF F
<1>8. \A s \in Elements(F) : s # <<>> /\ Distinct(s)
  BY <1>3, <1>4
<1>9. \A s, t \in Elements(F) : s # t => Elements(s) \cap Elements(t) = {}
  <2> SUFFICES ASSUME NEW s \in Elements(F), NEW t \in Elements(F), s # t
               PROVE  Elements(s) \cap Elements(t) = {}
    OBVIOUS
  <2>1. PICK i \in 1 .. n : s \in Elements(seqs[i])
    BY <1>3
  <2>2. PICK j \in 1 .. n : t \in Elements(seqs[j])
    BY <1>3
  <2>3. CASE i = j
    BY <2>1, <2>2, <2>3 DEF Deals
  <2>4. CASE i # j
    BY <1>4, <2>1, <2>2, <2>4
  <2> QED
    BY <2>3, <2>4
<1>10. \A a \in A : \E s \in Elements(F) : a \in Elements(s)
  <2> SUFFICES ASSUME NEW a \in A PROVE \E s \in Elements(F) : a \in Elements(s)
    OBVIOUS
  <2>1. PICK i \in 1 .. n : a \in sets[i]
    BY DEF A
  <2> QED
    BY <1>3, <2>1 DEF Deals
<1> QED
  BY <1>3, <1>7, <1>8, <1>9, <1>10 DEF Deals, A, F

----------------------------------------------------------------------------
\* Grouping takes every tensor once.

\* Groups of tensors, and the one that is being filled, deal out what was taken.
Taken(acc, A) ==
  \E B, C : /\ Deals(acc.closed, B) /\ A = B \cup C /\ B \cap C = {}
            /\ acc.current \in Seq(C) /\ Distinct(acc.current) /\ Elements(acc.current) = C

\* At first nothing is taken.
LEMMA TakenNothing == Taken(Nothing, {})
<1>1. Distinct(<<>>) /\ Elements(<<>>) = {} /\ <<>> \in Seq({})
  <2>1. \A S : <<>> \in Seq(S)
    OBVIOUS
  <2> QED
    BY <2>1, SingleFacts
<1> QED
  BY <1>1, DealsNothing DEF Taken, Nothing

\* Taking one more index, in the open group or after closing it.
LEMMA TakenOneMore ==
  ASSUME NEW tensors, NEW acc, NEW A, NEW i, Taken(acc, A), i \notin A
  PROVE  Taken(TakeOne(tensors, acc, i), A \cup {i})
<1>1. PICK B, C : /\ Deals(acc.closed, B) /\ A = B \cup C /\ B \cap C = {}
                  /\ acc.current \in Seq(C) /\ Distinct(acc.current) /\ Elements(acc.current) = C
  BY DEF Taken
<1> DEFINE D == C \cup {i}
           s == Append(acc.current, i)
           next == TakeOne(tensors, acc, i)
<1>2. s \in Seq(D) /\ Distinct(s) /\ Elements(s) = D /\ s # <<>>
  <2> HIDE DEF D
  <2> QED
    BY <1>1, SeqWider, AppendFacts DEF D
<1>3. B \cap D = {} /\ A \cup {i} = B \cup D
  BY <1>1
<1>4. CASE Len(RowsOf(tensors, s)) > MaxTensorSize
  <2>1. next.closed = Append(acc.closed, s) /\ next.current = <<>>
    BY <1>4 DEF TakeOne
  <2>2. Deals(next.closed, B \cup D)
    <3> HIDE DEF s, D
    <3> QED
      BY <1>1, <1>2, <1>3, <2>1, DealsOneMore
  <2>3. Distinct(<<>>) /\ Elements(<<>>) = {} /\ <<>> \in Seq({})
    <3>1. \A S : <<>> \in Seq(S)
      OBVIOUS
    <3> QED
      BY <3>1, SingleFacts
  <2> HIDE DEF next, D
  <2> QED
    BY <1>3, <2>1, <2>2, <2>3 DEF Taken, next
<1>5. CASE ~(Len(RowsOf(tensors, s)) > MaxTensorSize)
  <2>1. next.closed = acc.closed /\ next.current = s
    BY <1>5 DEF TakeOne
  <2> HIDE DEF next, D, s
  <2> QED
    BY <1>1, <1>2, <1>3, <2>1 DEF Taken, next
<1> QED
  BY <1>4, <1>5

\* The groups of a key deal out its members.
LEMMA SplitDeals ==
  ASSUME NEW tensors, NEW S, NEW members \in Seq(S), Distinct(members)
  PROVE  Deals(SplitMembers(tensors, members), Elements(members))
<1> DEFINE n == Len(members)
           last == TakeAll(tensors, members)
           Upto(j) == {members[i] : i \in 1 .. j}
<1>1. n \in Nat /\ DOMAIN members = 1 .. n
  OBVIOUS
<1>2. PICK g : /\ g[0] = Nothing
               /\ \A i \in 1 .. n : g[i] = TakeOne(tensors, g[i - 1], members[i])
               /\ last = g[n]
  BY <1>1, TakeFold
<1> HIDE DEF last
<1> DEFINE T == {j \in Nat : j <= n => Taken(g[j], Upto(j))}
<1>3. 0 \in T
  <2>1. Upto(0) = {}
    OBVIOUS
  <2> QED
    BY <1>2, <2>1, TakenNothing
<1>4. ASSUME NEW j \in Nat, j \in T PROVE j + 1 \in T
  <2> SUFFICES ASSUME j + 1 <= n PROVE Taken(g[j + 1], Upto(j + 1))
    OBVIOUS
  <2>1. Taken(g[j], Upto(j)) /\ j + 1 \in 1 .. n /\ (j + 1) - 1 = j
    BY <1>1, <1>4
  <2>2. members[j + 1] \notin Upto(j)
    BY <1>1, <2>1 DEF Distinct
  <2>3. Upto(j + 1) = Upto(j) \cup {members[j + 1]}
    OBVIOUS
  <2> HIDE DEF Upto
  <2> QED
    BY <2>1, <1>2, <2>2, <2>3, TakenOneMore
<1>5. n \in T
  <2> HIDE DEF T
  <2> QED
    BY <1>1, <1>3, <1>4, Induction
<1>6. Taken(last, Elements(members))
  BY <1>1, <1>2, <1>5 DEF Elements
<1>7. SplitMembers(tensors, members) = IF last.current = <<>> THEN last.closed ELSE Append(last.closed, last.current)
  BY DEF SplitMembers, last, TakeAll, TakeOne, Nothing
<1>8. PICK B, C : /\ Deals(last.closed, B) /\ Elements(members) = B \cup C /\ B \cap C = {}
                  /\ last.current \in Seq(C) /\ Distinct(last.current) /\ Elements(last.current) = C
  BY <1>6 DEF Taken
<1>9. CASE last.current = <<>>
  BY <1>7, <1>8, <1>9, SingleFacts
<1>10. CASE last.current # <<>>
  BY <1>7, <1>8, <1>10, DealsOneMore
<1> QED
  BY <1>9, <1>10

\* The members of a key are the indices with that key, each once.
LEMMA MembersAre ==
  ASSUME NEW tensors, Len(tensors) \in Nat, DOMAIN tensors = 1 .. Len(tensors), NEW key
  PROVE  /\ Members(tensors, key) \in Seq(1 .. Len(tensors))
         /\ Distinct(Members(tensors, key))
         /\ Elements(Members(tensors, key)) = {i \in 1 .. Len(tensors) : GroupKey(tensors[i]) = key}
<1> DEFINE n == Len(tensors)
           S == 1 .. n
           one == [i \in 1 .. n |-> IF GroupKey(tensors[i]) = key THEN <<i>> ELSE <<>>]
<1>1. n \in Nat
  OBVIOUS
<1>2. Members(tensors, key) = FlattenSeq(one)
  BY DEF Members
<1>3. \A i \in S : one[i] \in Seq(S) /\ one[i] = IF GroupKey(tensors[i]) = key THEN <<i>> ELSE <<>>
  <2>1. \A i \in S : <<i>> \in Seq(S) /\ <<>> \in Seq(S)
    <3> HIDE DEF n
    <3> QED
      OBVIOUS
  <2>2. \A i \in S : one[i] = IF GroupKey(tensors[i]) = key THEN <<i>> ELSE <<>>
    OBVIOUS
  <2> HIDE DEF one, S
  <2> QED
    BY <2>1, <2>2
<1>4. one \in Seq(Seq(S)) /\ Len(one) = n
  <2>1. one = [i \in 1 .. n |-> one[i]]
    OBVIOUS
  <2> HIDE DEF one, n
  <2> QED
    BY <1>1, <1>3, <2>1
<1> HIDE DEF one, n
<1>5. \A i \in S : Distinct(one[i]) /\ Elements(one[i]) = IF GroupKey(tensors[i]) = key THEN {i} ELSE {}
  BY <1>3, SingleFacts
<1>6. Distinct(FlattenSeq(one))
  BY <1>4, <1>5, FlattenDistinct
<1>7. Elements(FlattenSeq(one)) = {i \in S : GroupKey(tensors[i]) = key}
  <2>1. UNION {Elements(one[i]) : i \in S} = {i \in S : GroupKey(tensors[i]) = key}
    <3>1. ASSUME NEW i \in S, NEW x \in Elements(one[i]) PROVE x \in S /\ GroupKey(tensors[x]) = key
      <4>1. CASE GroupKey(tensors[i]) = key
        BY <1>5, <3>1, <4>1
      <4>2. CASE GroupKey(tensors[i]) # key
        BY <1>5, <3>1, <4>2
      <4> QED
        BY <4>1, <4>2
    <3>2. ASSUME NEW x \in S, GroupKey(tensors[x]) = key PROVE x \in Elements(one[x])
      BY <1>5, <3>2
    <3> HIDE DEF S
    <3> QED
      BY <3>1, <3>2
  <2> QED
    BY <1>4, FlattenElements, <2>1
<1> QED
  BY <1>2, <1>6, <1>7, <1>4, FlattenType DEF n

\* The keys are those of the tensors, each once.
LEMMA KeysAre ==
  ASSUME NEW tensors, Len(tensors) \in Nat, DOMAIN tensors = 1 .. Len(tensors)
  PROVE  /\ Distinct(Keys(tensors)) /\ Len(Keys(tensors)) \in Nat /\ DOMAIN Keys(tensors) = 1 .. Len(Keys(tensors))
         /\ Elements(Keys(tensors)) = {GroupKey(tensors[i]) : i \in 1 .. Len(tensors)}
<1> DEFINE n == Len(tensors)
           K(i) == GroupKey(tensors[i])
           S == {K(i) : i \in 1 .. n}
           Early(i) == \E j \in 1 .. i - 1 : K(j) = K(i)
           one == [i \in 1 .. n |-> IF Early(i) THEN <<>> ELSE <<K(i)>>]
<1>1. n \in Nat
  OBVIOUS
<1>2. Keys(tensors) = FlattenSeq(one)
  BY DEF Keys
<1>3. \A i \in 1 .. n : one[i] \in Seq(S) /\ one[i] = IF Early(i) THEN <<>> ELSE <<K(i)>>
  <2>1. \A i \in 1 .. n : K(i) \in S
    OBVIOUS
  <2>2. \A i \in 1 .. n : one[i] = IF Early(i) THEN <<>> ELSE <<K(i)>>
    OBVIOUS
  <2> HIDE DEF K, S, one, Early
  <2>3. \A i \in 1 .. n : <<K(i)>> \in Seq(S) /\ <<>> \in Seq(S)
    BY <2>1
  <2> QED
    BY <2>2, <2>3
<1>4. one \in Seq(Seq(S)) /\ Len(one) = n
  <2>0. one = [i \in 1 .. n |-> one[i]]
    OBVIOUS
  <2> HIDE DEF one, n, S
  <2> QED
    BY <1>1, <1>3, <2>0
<1> HIDE DEF one, n, K
<1>5. \A i \in 1 .. n : Distinct(one[i]) /\ Elements(one[i]) = IF Early(i) THEN {} ELSE {K(i)}
  BY <1>3, SingleFacts
<1>6. \A i, j \in 1 .. n : i # j => Elements(one[i]) \cap Elements(one[j]) = {}
  <2> SUFFICES ASSUME NEW i \in 1 .. n, NEW j \in 1 .. n, i < j PROVE Elements(one[i]) \cap Elements(one[j]) = {}
    BY <1>1
  <2>1. i \in 1 .. j - 1
    BY <1>1
  <2> QED
    BY <1>5, <2>1
<1>7. Distinct(FlattenSeq(one))
  <2>1. \A i \in 1 .. Len(one) : Distinct(one[i])
    BY <1>4, <1>5
  <2> QED
    BY <1>4, <1>6, <2>1, FlattenDistinct
<1>8. Elements(FlattenSeq(one)) = UNION {Elements(one[i]) : i \in 1 .. n}
  BY <1>4, FlattenElements
<1>9. UNION {Elements(one[i]) : i \in 1 .. n} = S
  <2>1. UNION {Elements(one[i]) : i \in 1 .. n} \subseteq S
    <3>1. \A i \in 1 .. n : Elements(one[i]) \subseteq {K(i)} /\ K(i) \in S
      BY <1>5
    <3> QED
      BY <3>1
  <2>2. ASSUME NEW i \in 1 .. n PROVE K(i) \in UNION {Elements(one[j]) : j \in 1 .. n}
    <3> DEFINE T == {j \in 1 .. n : K(j) = K(i)}
    <3>1. T \in SUBSET Nat /\ T # {}
      BY SMTT(20), <1>1
    <3> HIDE DEF T
    <3>2. PICK j \in T : \A m \in T : j <= m
      BY <3>1, LeastNumber
    <3>3. j \in 1 .. n /\ K(j) = K(i)
      BY DEF T
    <3>4. ~Early(j)
      <4> SUFFICES ASSUME NEW m \in 1 .. j - 1, K(m) = K(j) PROVE FALSE
        OBVIOUS
      <4>1. m \in T
        BY <1>1, <3>3 DEF T
      <4> QED
        BY <1>1, <3>2, <3>3, <4>1
    <3>5. Elements(one[j]) = {K(j)}
      BY <1>5, <3>3, <3>4
    <3> QED
      BY <3>3, <3>5
  <2> QED
    BY <2>1, <2>2
<1>10. FlattenSeq(one) \in Seq(S)
  BY <1>4, FlattenType
<1>11. Len(FlattenSeq(one)) \in Nat /\ DOMAIN FlattenSeq(one) = 1 .. Len(FlattenSeq(one))
  BY <1>10
<1> QED
  BY <1>2, <1>7, <1>8, <1>9, <1>11 DEF n, K

\* Every tensor is in one group, at one place.
LEMMA GroupsDeal ==
  ASSUME NEW tensors, Len(tensors) \in Nat, DOMAIN tensors = 1 .. Len(tensors)
  PROVE  Deals(GroupIndices(tensors), 1 .. Len(tensors))
<1> DEFINE keys == Keys(tensors)
           n == Len(keys)
           M(k) == Members(tensors, keys[k])
           seqs == [k \in 1 .. n |-> SplitMembers(tensors, M(k))]
           sets == [k \in 1 .. n |-> Elements(M(k))]
           N == Len(tensors)
<1>1. Distinct(keys) /\ n \in Nat /\ DOMAIN keys = 1 .. n /\ Elements(keys) = {GroupKey(tensors[i]) : i \in 1 .. N}
  BY KeysAre
<1>2. GroupIndices(tensors) = FlattenSeq(seqs)
  BY <1>1 DEF GroupIndices
<1>3. \A k \in 1 .. n : /\ M(k) \in Seq(1 .. N) /\ Distinct(M(k))
                        /\ Elements(M(k)) = {i \in 1 .. N : GroupKey(tensors[i]) = keys[k]}
  BY MembersAre
<1> HIDE DEF M, keys, n, N
<1>4. \A k \in 1 .. n : Deals(seqs[k], sets[k])
  BY <1>3, SplitDeals
<1>5. \A j, k \in 1 .. n : j # k => sets[j] \cap sets[k] = {}
  BY <1>3, <1>1 DEF Distinct, n
<1>6. UNION {sets[k] : k \in 1 .. n} = 1 .. N
  <2>1. ASSUME NEW i \in 1 .. N PROVE \E k \in 1 .. n : i \in sets[k]
    <3>1. PICK k \in 1 .. n : keys[k] = GroupKey(tensors[i])
      BY <1>1 DEF Elements, n
    <3> QED
      BY <1>3, <3>1
  <2>2. \A k \in 1 .. n : sets[k] \subseteq 1 .. N
    BY <1>3
  <2> HIDE DEF sets
  <2> QED
    BY <2>1, <2>2
<1>7. seqs = [k \in 1 .. n |-> seqs[k]]
  OBVIOUS
<1> HIDE DEF seqs, sets
<1>8. Deals(FlattenSeq(seqs), UNION {sets[k] : k \in 1 .. n})
  BY <1>1, <1>4, <1>5, <1>7, DealsAll
<1> QED
  BY <1>2, <1>6, <1>8 DEF N

----------------------------------------------------------------------------
\* The places in the packed buffers.

\* The prefixes of a flattened sequence of sequences.
Flattening(seqs, f, S) ==
  /\ f[0] = <<>>
  /\ \A i \in 1 .. Len(seqs) : f[i] = f[i - 1] \o seqs[i]
  /\ \A i \in 0 .. Len(seqs) : f[i] \in Seq(S)

\* The flattening of a prefix is an intermediate value of the flattening.
LEMMA PrefixIs ==
  ASSUME NEW S, NEW seqs \in Seq(Seq(S)), NEW f, Flattening(seqs, f, S), NEW k \in 0 .. Len(seqs)
  PROVE  FlattenSeq(SubSeq(seqs, 1, k)) = f[k]
<1> DEFINE s == SubSeq(seqs, 1, k)
<1>1. s \in Seq(Seq(S)) /\ Len(s) = k /\ \A i \in 1 .. k : s[i] = seqs[i]
  OBVIOUS
<1> HIDE DEF s
<1>2. k \in Nat /\ \A i \in 1 .. k : i \in 1 .. Len(seqs)
  OBVIOUS
<1>3. PICK h : /\ h[0] = <<>>
               /\ \A i \in 1 .. k : h[i] = h[i - 1] \o s[i]
               /\ FlattenSeq(s) = h[k]
  BY <1>1, FlattenPrefixes
<1> DEFINE T == {j \in Nat : j <= k => h[j] = f[j]}
<1>4. 0 \in T
  BY <1>3 DEF Flattening
<1>5. ASSUME NEW j \in Nat, j \in T PROVE j + 1 \in T
  <2> SUFFICES ASSUME j + 1 <= k PROVE h[j + 1] = f[j + 1]
    OBVIOUS
  <2>1. j + 1 \in 1 .. k /\ (j + 1) - 1 = j /\ h[j] = f[j]
    BY <1>2, <1>5
  <2> QED
    BY <1>1, <2>1, <1>3, <1>2 DEF Flattening
<1>6. k \in T
  <2> HIDE DEF T
  <2> QED
    BY <1>2, <1>4, <1>5, Induction
<1> QED
  BY <1>2, <1>3, <1>6 DEF s

\* The flattening of a prefix is a prefix of the flattening.
LEMMA PrefixStays ==
  ASSUME NEW S, NEW seqs \in Seq(Seq(S)), NEW f, Flattening(seqs, f, S), NEW k \in 0 .. Len(seqs)
  PROVE  /\ Len(f[k]) \in Nat /\ Len(f[Len(seqs)]) \in Nat /\ Len(f[k]) <= Len(f[Len(seqs)])
         /\ \A x \in 1 .. Len(f[k]) : f[Len(seqs)][x] = f[k][x]
<1> DEFINE n == Len(seqs)
           T == {j \in Nat : k + j <= n => /\ Len(f[k + j]) \in Nat /\ Len(f[k]) <= Len(f[k + j])
                                           /\ \A x \in 1 .. Len(f[k]) : f[k + j][x] = f[k][x]}
<1>1. n \in Nat /\ k \in 0 .. n /\ \A i \in 0 .. n : f[i] \in Seq(S) /\ Len(f[i]) \in Nat
  BY DEF Flattening
<1> HIDE DEF n
<1>2. 0 \in T
  BY <1>1
<1>3. ASSUME NEW j \in Nat, j \in T PROVE j + 1 \in T
  <2> SUFFICES ASSUME k + (j + 1) <= n
               PROVE  /\ Len(f[k + (j + 1)]) \in Nat /\ Len(f[k]) <= Len(f[k + (j + 1)])
                      /\ \A x \in 1 .. Len(f[k]) : f[k + (j + 1)][x] = f[k][x]
    OBVIOUS
  <2> DEFINE i == k + (j + 1)
  <2>1. i \in 1 .. n /\ i - 1 = k + j /\ i - 1 \in 0 .. n /\ i \in 0 .. n
    BY <1>1
  <2>2. f[i] = f[i - 1] \o seqs[i] /\ seqs[i] \in Seq(S) /\ f[i - 1] \in Seq(S)
    <3>1. i \in 1 .. Len(seqs) /\ i - 1 \in 0 .. Len(seqs)
      BY <2>1 DEF n
    <3> HIDE DEF i
    <3>2. f[i] = f[i - 1] \o seqs[i]
      BY <3>1 DEF Flattening
    <3> QED
      BY <3>1, <3>2 DEF Flattening
  <2> HIDE DEF i
  <2> DEFINE a == f[i - 1]
             b == seqs[i]
  <2>3. f[i] = a \o b /\ a \in Seq(S) /\ b \in Seq(S) /\ Len(a) \in Nat /\ Len(f[k]) <= Len(a)
        /\ \A x \in 1 .. Len(f[k]) : a[x] = f[k][x]
    BY <2>2, <1>3, <2>1
  <2> HIDE DEF a, b
  <2> QED
    BY <2>3, <1>1 DEF i
<1>4. n - k \in T
  <2>1. n - k \in Nat
    BY <1>1
  <2> HIDE DEF T
  <2> QED
    BY <1>2, <1>3, <2>1, Induction
<1> QED
  BY <1>1, <1>4 DEF n

\* Where a sequence is in the flattened one.
LEMMA FlattenPlace ==
  ASSUME NEW S, NEW seqs \in Seq(Seq(S)), NEW k \in 1 .. Len(seqs)
  PROVE  LET from == Len(FlattenSeq(SubSeq(seqs, 1, k - 1)))
         IN SubSeq(FlattenSeq(seqs), from + 1, from + Len(seqs[k])) = seqs[k]
<1>1. PICK f : Flattening(seqs, f, S) /\ FlattenSeq(seqs) = f[Len(seqs)]
  BY FlattenPrefixes DEF Flattening
<1> DEFINE n == Len(seqs)
           a == f[k - 1]
           b == seqs[k]
           c == f[n]
<1>2. n \in Nat /\ k - 1 \in 0 .. n /\ k \in 0 .. n
  OBVIOUS
<1>3. f[k] = a \o b /\ a \in Seq(S) /\ b \in Seq(S) /\ c \in Seq(S)
  <2>1. b \in Seq(S)
    OBVIOUS
  <2>2. f[k] = a \o b
    BY <1>1 DEF Flattening
  <2>3. a \in Seq(S) /\ c \in Seq(S)
    BY <1>1, <1>2 DEF Flattening
  <2> QED
    BY <2>1, <2>2, <2>3
<1>4. FlattenSeq(SubSeq(seqs, 1, k - 1)) = a
  BY <1>1, <1>2, PrefixIs
<1>5. Len(f[k]) <= Len(c) /\ \A x \in 1 .. Len(f[k]) : c[x] = f[k][x]
  BY <1>1, <1>2, PrefixStays
<1> HIDE DEF a, b, c, n
<1>6. Len(a) \in Nat /\ Len(b) \in Nat /\ Len(f[k]) = Len(a) + Len(b)
      /\ \A x \in 1 .. Len(b) : f[k][Len(a) + x] = b[x]
  BY <1>3
<1>7. \A x \in 1 .. Len(b) : c[Len(a) + x] = b[x]
  BY <1>5, <1>6
<1>8. Len(a) + Len(b) <= Len(c)
  BY <1>5, <1>6
<1> DEFINE d == SubSeq(c, Len(a) + 1, Len(a) + Len(b))
<1>9. d \in Seq(S) /\ Len(d) = Len(b) /\ \A x \in 1 .. Len(b) : d[x] = c[Len(a) + x]
  <2>1. d \in Seq(S) /\ Len(d) = Len(b)
    BY <1>3, <1>6, <1>8, PieceOf
  <2>2. \A x \in 1 .. Len(b) : d[x] = c[Len(a) + x]
    BY <1>3, <1>6, <1>8
  <2> QED
    BY <2>1, <2>2
<1> HIDE DEF d
<1>10. d = b
  BY SMTT(20), <1>3, <1>7, <1>9
<1> QED
  BY <1>1, <1>4, <1>10 DEF b, c, d, n

\* Every tensor is at one place of one group.
Apart(G, n) ==
  /\ Len(G) \in Nat /\ DOMAIN G = 1 .. Len(G)
  /\ \A g \in 1 .. Len(G) : DOMAIN G[g] = 1 .. Len(G[g]) /\ G[g] \in Seq(1 .. n)
  /\ \A g \in 1 .. Len(G) : \A k \in 1 .. Len(G[g]) : G[g][k] \in 1 .. n
  /\ \A g, h \in 1 .. Len(G) : \A k \in 1 .. Len(G[g]), j \in 1 .. Len(G[h]) :
       G[g][k] = G[h][j] => g = h /\ k = j
  /\ \A i \in 1 .. n : \E g \in 1 .. Len(G) : \E k \in 1 .. Len(G[g]) : G[g][k] = i

\* No two tensors are packed at one place.
LEMMA PlacesApart ==
  ASSUME NEW tensors, Len(tensors) \in Nat, DOMAIN tensors = 1 .. Len(tensors),
         NEW G, G = GroupIndices(tensors)
  PROVE  Apart(G, Len(tensors))
<1> DEFINE N == Len(tensors)
<1>1. Deals(G, 1 .. N)
  BY GroupsDeal
<1> HIDE DEF N
<1>2. Len(G) \in Nat /\ DOMAIN G = 1 .. Len(G) /\ \A g \in 1 .. Len(G) : G[g] \in Seq(1 .. N) /\ G[g] \in Elements(G)
  BY <1>1 DEF Elements, Deals
<1>3. ASSUME NEW g \in 1 .. Len(G), NEW h \in 1 .. Len(G), NEW k \in 1 .. Len(G[g]), NEW j \in 1 .. Len(G[h]),
             G[g][k] = G[h][j]
      PROVE  g = h /\ k = j
  <2>1. G[g][k] \in Elements(G[g]) /\ G[h][j] \in Elements(G[h])
    BY DEF Elements
  <2> QED
    BY <1>3, <1>1, <1>2, <2>1 DEF Distinct, Deals
<1>4. ASSUME NEW i \in 1 .. N PROVE \E g \in 1 .. Len(G) : \E k \in 1 .. Len(G[g]) : G[g][k] = i
  <2>1. PICK s \in Elements(G) : i \in Elements(s)
    BY <1>1 DEF Deals
  <2>2. PICK g \in 1 .. Len(G) : G[g] = s
    BY <2>1 DEF Elements
  <2>3. PICK k \in 1 .. Len(s) : s[k] = i
    BY <2>1 DEF Elements
  <2> QED
    BY <2>2, <2>3
<1>5. \A g \in 1 .. Len(G) : DOMAIN G[g] = 1 .. Len(G[g]) /\ \A k \in 1 .. Len(G[g]) : G[g][k] \in 1 .. N
  <2> SUFFICES ASSUME NEW g \in 1 .. Len(G)
               PROVE  DOMAIN G[g] = 1 .. Len(G[g]) /\ \A k \in 1 .. Len(G[g]) : G[g][k] \in 1 .. N
    OBVIOUS
  <2> DEFINE s == G[g]
             S == 1 .. N
  <2>1. s \in Seq(S)
    BY <1>2
  <2> HIDE DEF s, S
  <2>2. DOMAIN s = 1 .. Len(s) /\ \A k \in 1 .. Len(s) : s[k] \in S
    BY <2>1
  <2> QED
    BY <2>2 DEF s, S
<1> QED
  BY <1>2, <1>3, <1>4, <1>5 DEF N, Apart

PlaceOf(tensors, G, g, k) ==
  [originalIndex |-> G[g][k], groupIndex |-> g, offset |-> Len(RowsOf(tensors, SubSeq(G[g], 1, k - 1))),
   size |-> Len(tensors[G[g][k]].rows)]

\* The metadata name, for every tensor, the place it was packed at.
LEMMA MetadataAre ==
  ASSUME NEW tensors, Len(tensors) \in Nat, DOMAIN tensors = 1 .. Len(tensors),
         NEW G, G = GroupIndices(tensors)
  PROVE  /\ \A m \in Metadata(tensors) : \E g \in 1 .. Len(G) : \E k \in 1 .. Len(G[g]) :
              m = PlaceOf(tensors, G, g, k)
         /\ \A g \in 1 .. Len(G) : \A k \in 1 .. Len(G[g]) : PlaceOf(tensors, G, g, k) \in Metadata(tensors)
         /\ \A m \in Metadata(tensors) : m.originalIndex \in 1 .. Len(tensors)
         /\ \A m, o \in Metadata(tensors) : m.originalIndex = o.originalIndex => m = o
         /\ \A i \in 1 .. Len(tensors) : \E m \in Metadata(tensors) : m.originalIndex = i
<1> DEFINE N == Len(tensors)
<1>1. Apart(G, N)
  BY PlacesApart
<1>2. ASSUME NEW g \in 1 .. Len(G), NEW h \in 1 .. Len(G), NEW k \in 1 .. Len(G[g]), NEW j \in 1 .. Len(G[h]),
             G[g][k] = G[h][j]
      PROVE  g = h /\ k = j
  BY <1>2, <1>1 DEF Apart
<1>3. \A m : m \in Metadata(tensors) <=>
        \E g \in 1 .. Len(G) : \E k \in 1 .. Len(G[g]) : m = PlaceOf(tensors, G, g, k)
  <2>1. Metadata(tensors) = UNION {{PlaceOf(tensors, G, g, k) : k \in DOMAIN G[g]} : g \in DOMAIN G}
    BY DEF Metadata, PlaceOf
  <2>2. DOMAIN G = 1 .. Len(G) /\ \A g \in DOMAIN G : DOMAIN G[g] = 1 .. Len(G[g])
    BY <1>1 DEF Apart
  <2> QED
    BY <2>1, <2>2
<1>4. \A g, k : PlaceOf(tensors, G, g, k).originalIndex = G[g][k]
  BY DEF PlaceOf
<1> HIDE DEF N
<1>5. ASSUME NEW m \in Metadata(tensors) PROVE m.originalIndex \in 1 .. N
  <2>1. PICK g \in 1 .. Len(G) : \E k \in 1 .. Len(G[g]) : m = PlaceOf(tensors, G, g, k)
    BY <1>3
  <2>2. PICK k \in 1 .. Len(G[g]) : m = PlaceOf(tensors, G, g, k)
    BY <2>1
  <2>3. G[g][k] \in 1 .. N
    BY <1>1 DEF Apart
  <2> QED
    BY <1>4, <2>2, <2>3
<1>6. ASSUME NEW m \in Metadata(tensors), NEW o \in Metadata(tensors), m.originalIndex = o.originalIndex
      PROVE  m = o
  <2>1. PICK g \in 1 .. Len(G) : \E k \in 1 .. Len(G[g]) : m = PlaceOf(tensors, G, g, k)
    BY <1>3
  <2>2. PICK k \in 1 .. Len(G[g]) : m = PlaceOf(tensors, G, g, k)
    BY <2>1
  <2>3. PICK h \in 1 .. Len(G) : \E j \in 1 .. Len(G[h]) : o = PlaceOf(tensors, G, h, j)
    BY <1>3
  <2>4. PICK j \in 1 .. Len(G[h]) : o = PlaceOf(tensors, G, h, j)
    BY <2>3
  <2> QED
    BY <2>2, <2>4, <1>2, <1>4, <1>6
<1>7. \A i \in 1 .. N : \E m \in Metadata(tensors) : m.originalIndex = i
  BY <1>1, <1>3, <1>4 DEF Apart
<1> QED
  BY <1>3, <1>5, <1>6, <1>7 DEF N

\* There is one entry of metadata per tensor.
LEMMA MetadataCount ==
  ASSUME NEW tensors, Len(tensors) \in Nat, DOMAIN tensors = 1 .. Len(tensors)
  PROVE  Cardinality(Metadata(tensors)) = Len(tensors)
<1> DEFINE M == Metadata(tensors)
           N == Len(tensors)
           f == [m \in M |-> m.originalIndex]
<1>1. /\ \A m \in M : m.originalIndex \in 1 .. N
      /\ \A m, o \in M : m.originalIndex = o.originalIndex => m = o
      /\ \A i \in 1 .. N : \E m \in M : m.originalIndex = i
  BY MetadataAre
<1>2. N \in Nat /\ IsFiniteSet(1 .. N) /\ Cardinality(1 .. N) = N
  <2>1. N \in Nat
    OBVIOUS
  <2> HIDE DEF N
  <2> QED
    BY <2>1, FS_Interval
<1> HIDE DEF M, N
<1>3. f \in [M -> 1 .. N] /\ (\A a, b \in M : f[a] = f[b] => a = b) /\ (\A t \in 1 .. N : \E s \in M : f[s] = t)
  BY <1>1
<1> HIDE DEF f
<1> QED
  BY <1>2, <1>3, SameCount DEF M, N

----------------------------------------------------------------------------
\* Packing loses nothing.

\* What a rank packs, the worker on its device takes out again.
THEOREM PackingLossless ==
  ASSUME NEW S, NEW tensors, Len(tensors) \in Nat, DOMAIN tensors = 1 .. Len(tensors),
         \A i \in 1 .. Len(tensors) : tensors[i].rows \in Seq(S)
  PROVE  Reconstruct(Groups(tensors), Metadata(tensors)) = [i \in 1 .. Len(tensors) |-> tensors[i].rows]
<1> DEFINE G == GroupIndices(tensors)
           M == Metadata(tensors)
           n == Len(tensors)
           Taken1(m) == SubSeq(Groups(tensors)[m.groupIndex], m.offset + 1, m.offset + m.size)
<1>1. Apart(G, n)
  BY PlacesApart
<1>2. /\ \A m \in M : \E g \in 1 .. Len(G) : \E k \in 1 .. Len(G[g]) : m = PlaceOf(tensors, G, g, k)
      /\ \A m \in M : m.originalIndex \in 1 .. n
      /\ \A i \in 1 .. n : \E m \in M : m.originalIndex = i
  BY MetadataAre
<1>3. /\ Len(G) \in Nat /\ DOMAIN G = 1 .. Len(G)
      /\ \A g \in 1 .. Len(G) : DOMAIN G[g] = 1 .. Len(G[g]) /\ G[g] \in Seq(1 .. n)
  BY <1>1 DEF Apart
<1>4. \A g \in 1 .. Len(G) : Groups(tensors)[g] = RowsOf(tensors, G[g])
  BY <1>3 DEF Groups
<1>5. \A i \in 1 .. n : tensors[i].rows \in Seq(S)
  OBVIOUS
<1> HIDE DEF G, n, M
<1>6. ASSUME NEW m \in M PROVE Taken1(m) = tensors[m.originalIndex].rows
  <2>1. PICK g \in 1 .. Len(G) : \E k \in 1 .. Len(G[g]) : m = PlaceOf(tensors, G, g, k)
    BY <1>2
  <2>2. PICK k \in 1 .. Len(G[g]) : m = PlaceOf(tensors, G, g, k)
    BY <2>1
  <2> DEFINE s == G[g]
             rs == [j \in 1 .. Len(s) |-> tensors[s[j]].rows]
             N == 1 .. n
  <2>3. s \in Seq(N) /\ DOMAIN s = 1 .. Len(s) /\ (\A j \in 1 .. Len(s) : s[j] \in N) /\ k \in 1 .. Len(s)
    BY <1>3, <1>1 DEF Apart
  <2>4. \A j \in 1 .. Len(s) : tensors[s[j]].rows \in Seq(S)
    BY <1>5, <2>3
  <2> HIDE DEF s, N
  <2>5. Len(s) \in Nat
    BY <2>3
  <2>6. rs \in Seq(Seq(S)) /\ Len(rs) = Len(s) /\ rs[k] = tensors[s[k]].rows
    BY <2>3, <2>4, <2>5
  <2>7. RowsOf(tensors, s) = FlattenSeq(rs)
    BY <2>3 DEF RowsOf
  <2>8. RowsOf(tensors, SubSeq(s, 1, k - 1)) = FlattenSeq(SubSeq(rs, 1, k - 1))
    <3> DEFINE u == SubSeq(s, 1, k - 1)
               v == SubSeq(rs, 1, k - 1)
               w == [j \in DOMAIN u |-> tensors[u[j]].rows]
    <3>1. DOMAIN u = 1 .. k - 1 /\ \A j \in 1 .. k - 1 : u[j] = s[j]
      BY <2>3
    <3>2. v \in Seq(Seq(S)) /\ Len(v) = k - 1 /\ \A j \in 1 .. k - 1 : v[j] = rs[j]
      <4> HIDE DEF rs
      <4> QED
        BY <2>3, <2>5, <2>6
    <3>3. \A j \in 1 .. k - 1 : rs[j] = tensors[s[j]].rows
      BY <2>3, <2>5
    <3> HIDE DEF u, v, rs
    <3>4. w = [j \in 1 .. k - 1 |-> tensors[u[j]].rows]
      BY <3>1
    <3>5. v = [j \in 1 .. k - 1 |-> v[j]]
      BY <3>2
    <3>6. w = v
      <4> HIDE DEF w
      <4> QED
        BY <3>4, <3>5, <3>1, <3>2, <3>3
    <3>7. RowsOf(tensors, u) = FlattenSeq(w)
      BY DEF RowsOf
    <3> HIDE DEF w
    <3> QED
      BY <3>6, <3>7 DEF u, v
  <2>9. LET from == Len(FlattenSeq(SubSeq(rs, 1, k - 1)))
         IN SubSeq(FlattenSeq(rs), from + 1, from + Len(rs[k])) = rs[k]
    <3> HIDE DEF rs
    <3> QED
      BY <2>6, <2>3, FlattenPlace
  <2> HIDE DEF rs
  <2> QED
    BY <2>6, <2>7, <2>8, <2>9, <2>2, <1>4 DEF s, PlaceOf
<1> HIDE DEF Taken1
<1>7. {m.originalIndex : m \in M} = 1 .. n
  BY <1>2
<1>8. \A i \in 1 .. n : Taken1(CHOOSE x \in M : x.originalIndex = i) = tensors[i].rows
  <2> SUFFICES ASSUME NEW i \in 1 .. n PROVE Taken1(CHOOSE x \in M : x.originalIndex = i) = tensors[i].rows
    OBVIOUS
  <2> DEFINE m == CHOOSE x \in M : x.originalIndex = i
  <2> HIDE DEF m
  <2> QED
    BY <1>2, <1>6 DEF m
<1> QED
  BY <1>7, <1>8 DEF M, n, Reconstruct, Taken1

-----------------------------------------------------------------------------
\* No two entries have one name.
Unique(entries) == \A i, j \in 1 .. Len(entries) : Name(entries[i]) = Name(entries[j]) => i = j

\* Putting a tensor under a new name appends it.
LEMMA PutNew ==
  ASSUME NEW S, NEW s \in Seq(S), NEW e \in S, Unique(s), \A x \in Elements(s) : Name(x) # Name(e)
  PROVE  /\ Put(s, e) \in Seq(S) /\ Unique(Put(s, e)) /\ Elements(Put(s, e)) = Elements(s) \cup {e}
<1> QED
  BY AppendFacts DEF Put, Elements, Unique

\* Putting tensors under new names adds all of them.
LEMMA PutAll ==
  ASSUME NEW S, NEW base \in Seq(S), NEW seq \in Seq(S), Unique(base), Unique(seq),
         \A x \in Elements(base), y \in Elements(seq) : Name(x) # Name(y)
  PROVE  /\ FoldLeft(Put, base, seq) \in Seq(S) /\ Unique(FoldLeft(Put, base, seq))
         /\ Elements(FoldLeft(Put, base, seq)) = Elements(base) \cup Elements(seq)
<1> DEFINE n == Len(seq)
           Upto(j) == {seq[i] : i \in 1 .. j}
<1>1. n \in Nat /\ DOMAIN seq = 1 .. n
  OBVIOUS
<1>2. PICK g : /\ g[0] = base
               /\ \A i \in 1 .. n : g[i] = Put(g[i - 1], seq[i])
               /\ FoldLeft(Put, base, seq) = g[n]
  BY ZenonT(30), <1>1, PutFold
<1> DEFINE T == {j \in Nat : j <= n => g[j] \in Seq(S) /\ Unique(g[j]) /\ Elements(g[j]) = Elements(base) \cup Upto(j)}
<1>3. 0 \in T
  BY <1>2
<1>4. ASSUME NEW j \in Nat, j \in T PROVE j + 1 \in T
  <2> SUFFICES ASSUME j + 1 <= n
               PROVE  g[j + 1] \in Seq(S) /\ Unique(g[j + 1]) /\ Elements(g[j + 1]) = Elements(base) \cup Upto(j + 1)
    OBVIOUS
  <2>1. g[j] \in Seq(S) /\ Unique(g[j]) /\ Elements(g[j]) = Elements(base) \cup Upto(j)
        /\ j + 1 \in 1 .. n /\ (j + 1) - 1 = j
    BY <1>1, <1>4
  <2>2. seq[j + 1] \in S /\ seq[j + 1] \in Elements(seq)
    BY <2>1 DEF Elements
  <2>3. \A x \in Elements(g[j]) : Name(x) # Name(seq[j + 1])
    <3>1. \A i \in 1 .. j : Name(seq[i]) # Name(seq[j + 1])
      <4> SUFFICES ASSUME NEW i \in 1 .. j PROVE Name(seq[i]) # Name(seq[j + 1])
        OBVIOUS
      <4> QED
        BY <2>1, <1>1 DEF Unique
    <3> QED
      BY <2>1, <2>2, <3>1
  <2>4. Upto(j + 1) = Upto(j) \cup {seq[j + 1]}
    OBVIOUS
  <2> HIDE DEF Upto
  <2> QED
    BY <2>1, <2>4, <1>2, <2>2, <2>3, PutNew
<1>5. n \in T
  <2> HIDE DEF T
  <2> QED
    BY <1>1, <1>3, <1>4, Induction
<1>6. Upto(n) = Elements(seq)
  BY DEF Elements
<1> HIDE DEF Upto
<1> DEFINE s == FoldLeft(Put, base, seq)
<1>7. s = g[n]
  BY <1>2
<1> HIDE DEF s
<1> QED
  BY <1>6, <1>1, <1>5, <1>7 DEF s

----------------------------------------------------------------------------
\* The second invariant.

\* What a rank hands over of its first n parameters, under the numbers of the model.
OfModel(r, p) == Made(layout, r, p, Global(layout, r, p))
Due(r, n) == UNION {OfModel(r, All(r)[i]) : i \in 1 .. n}
Complete(r, entries) ==
  entries \in Seq(Due(r, Len(All(r)))) /\ Elements(entries) = Due(r, Len(All(r))) /\ Unique(entries)
Packed(entries) ==
  [groups |-> Groups(entries), metadata |-> Metadata(entries), names |-> [i \in DOMAIN entries |-> Name(entries[i])]]
Unpacked(b) ==
  LET tensors == Reconstruct(b.groups, b.metadata)
      IndexOf(n) == CHOOSE i \in DOMAIN b.names : b.names[i] = n
  IN [n \in {b.names[i] : i \in DOMAIN b.names} |-> tensors[IndexOf(n)]]
Described(entries) == {[name |-> Name(e), size |-> Len(e.rows), dtype |-> e.dtype] : e \in entries}

\* In the second pass a rank has converted every tensor due so far, once, under its true name.
ConvertedSoFar ==
  \A r \in Ranks(layout) : phase[r] = "convert" =>
    /\ converted[r] \in Seq(Due(r, Len(All(r)))) /\ Elements(converted[r]) = Due(r, Gone(r))
    /\ Unique(converted[r])
\* The shared metadata of a rank describe what it will have converted in the end.
MetaIsDue ==
  \A r \in Ranks(layout) : phase[r] # "meta" => meta[r] = Described(Due(r, Len(All(r))))
\* What is packed, and what the worker has, is all of that.
HandedOver ==
  \A r \in Ranks(layout) :
    /\ phase[r] # "grouped" => buffer[r] = NoBuffer
    /\ phase[r] = "grouped" => \E c : Complete(r, c) /\ buffer[r] = Packed(c)
    /\ phase[r] = "done" => \E c : Complete(r, c) /\ weights[r] = Unpacked(Packed(c))
\* There is metadata, a buffer and weights for every rank.
Domains == DOMAIN meta = Ranks(layout) /\ DOMAIN buffer = Ranks(layout) /\ DOMAIN weights = Ranks(layout)

\* What Core is strengthened by to speak of the contents.
Truth == Domains /\ ConvertedSoFar /\ MetaIsDue /\ HandedOver

\* The parameter a rank converts has names that it has not yet.
LEMMA EntriesNew ==
  ASSUME Core, NEW r \in Ranks(layout), Converting(r), phase[r] = "convert"
  PROVE  /\ EntriesDue(r) \in Seq(OfModel(r, Param(r))) /\ Elements(EntriesDue(r)) = OfModel(r, Param(r))
         /\ Unique(EntriesDue(r))
         /\ \A x \in Due(r, Gone(r)), y \in OfModel(r, Param(r)) : Name(x) # Name(y)
         /\ Due(r, Gone(r) + 1) = Due(r, Gone(r)) \cup OfModel(r, Param(r))
         /\ Due(r, Gone(r) + 1) \subseteq Due(r, Len(All(r)))
         /\ Due(r, Gone(r)) \subseteq Due(r, Len(All(r)))
<1> DEFINE p == Param(r)
           E == EntriesDue(r)
           n == Gone(r)
<1>1. /\ layout \in Layouts /\ n \in 0 .. Len(All(r)) /\ pending[r] = SubSeq(All(r), n + 1, Len(All(r))) /\ pending[r] # <<>>
  BY DEF Core, Shapes, Progress, Converting
<1>2. p = All(r)[n + 1] /\ n + 1 \in 1 .. Len(All(r))
  BY <1>1, NextParam
<1>3. /\ Len(All(r)) \in Nat /\ Distinct(All(r))
      /\ \A i \in 1 .. Len(All(r)) : ParamOK(layout, PpRank(layout, r), All(r)[i])
  BY <1>1, AllFacts
<1> HIDE DEF p, n
<1>4. E = EntriesOf(layout, r, p, Global(layout, r, p)) /\ OfModel(r, p) = Made(layout, r, p, Global(layout, r, p))
  BY DEF EntriesDue, Named, OfModel, p
<1> DEFINE g == Global(layout, r, p)
           k == Len(Pieces(layout, r, p))
<1> HIDE DEF g, k, E
<1>5. /\ E \in Seq(OfModel(r, p)) /\ Len(E) = k /\ k \in 0 .. 2
      /\ \A i, j \in 1 .. k : E[i].part = E[j].part => i = j
  BY <1>4, MadeFacts DEF k, g
<1>6. Unique(E)
  BY <1>5 DEF Unique, Name
<1>7. ASSUME NEW x \in Due(r, n), NEW y \in OfModel(r, p) PROVE Name(x) # Name(y)
  <2>1. PICK i \in 1 .. n : x \in OfModel(r, All(r)[i])
    BY DEF Due
  <2>2. i \in 1 .. Len(All(r)) /\ i # n + 1
    BY <1>1, <1>2, <1>3
  <2> QED
    BY <1>1, <1>2, <1>3, <2>1, <2>2, NamesApart DEF OfModel, Distinct
<1>8. n \in Nat
  BY <1>1, <1>3
<1>9. Due(r, n + 1) = Due(r, n) \cup OfModel(r, p)
  BY <1>2, <1>8 DEF Due
<1>10. Due(r, n + 1) \subseteq Due(r, Len(All(r)))
  BY <1>2, <1>3, <1>8 DEF Due
<1> QED
  BY <1>5, <1>4, <1>6, <1>7, <1>9, <1>10 DEF p, n, E, Made

\* What is due depends on the layout only.
LEMMA DueSame ==
  ASSUME layout' = layout
  PROVE  \A r : /\ All(r)' = All(r) /\ Due(r, Len(All(r)))' = Due(r, Len(All(r)))
                /\ Due(r, Gone(r))' = Due(r, Gone(r)')
  BY DEF All, Due, OfModel, Global, Gone

\* So does what a rank hands over in the end.
LEMMA CompleteSame ==
  ASSUME layout' = layout, NEW CONSTANT r, NEW CONSTANT c
  PROVE  Complete(r, c)' <=> Complete(r, c)
  BY DEF Complete, All, Due, OfModel, Global

----------------------------------------------------------------------------
\* Conversions and sharing keep it.

\* An announced tensor, under the number that a map gives its layer.
Renamed(map, r, t) ==
  [name |-> <<IF t.layer = None THEN None ELSE map[<<PpRank(layout, r), t.vp>>][t.layer], t.expert, t.part>>,
   size |-> Len(t.rows), dtype |-> t.dtype]

\* Under the numbers of the model a rank announces of a parameter what it hands over.
LEMMA AnnouncedIs ==
  ASSUME NEW r, NEW p, NEW map,
         p.layer # None => map[<<PpRank(layout, r), p.vp>>][p.layer] = Global(layout, r, p)
  PROVE  {Renamed(map, r, t) : t \in Announced(r, p)} = Described(OfModel(r, p))
<1> DEFINE k == Len(Pieces(layout, r, p))
           a == p.layer
           b == Global(layout, r, p)
           e(i) == Pick(layout, r, p, a, i)
           f(i) == Pick(layout, r, p, b, i)
           D(x) == [name |-> Name(x), size |-> Len(x.rows), dtype |-> x.dtype]
<1>1. Made(layout, r, p, a) = {e(i) : i \in 1 .. k} /\ OfModel(r, p) = {f(i) : i \in 1 .. k}
  <2> HIDE DEF a, b
  <2> QED
    BY MadeFacts DEF OfModel, b
<1>2. \A i : Renamed(map, r, Tagged(e(i), p.vp)) = D(f(i))
  <2> SUFFICES ASSUME NEW i PROVE Renamed(map, r, Tagged(e(i), p.vp)) = D(f(i))
    OBVIOUS
  <2>1. /\ e(i).layer = a /\ f(i).layer = b /\ e(i).expert = f(i).expert /\ e(i).part = f(i).part
        /\ e(i).rows = f(i).rows /\ e(i).dtype = f(i).dtype
    BY DEF Pick, Entry
  <2> DEFINE t == Tagged(e(i), p.vp)
  <2>2. /\ t.layer = a /\ t.expert = f(i).expert /\ t.part = f(i).part /\ t.rows = f(i).rows /\ t.dtype = f(i).dtype
        /\ t.vp = p.vp
    BY <2>1 DEF Tagged
  <2>3. Renamed(map, r, t)
          = [name |-> <<b, t.expert, t.part>>, size |-> Len(t.rows), dtype |-> t.dtype]
    BY <2>2 DEF Renamed, Global
  <2>4. D(f(i)) = [name |-> <<f(i).layer, f(i).expert, f(i).part>>, size |-> Len(f(i).rows), dtype |-> f(i).dtype]
    BY DEF Name
  <2>5. Renamed(map, r, t) = D(f(i))
    <3> HIDE DEF t, f, b, D, e
    <3> QED
      BY <2>1, <2>2, <2>3, <2>4
  <2> QED
    BY <2>5
<1>3. Described(OfModel(r, p)) = {D(f(i)) : i \in 1 .. k}
  <2> HIDE DEF f
  <2> QED
    BY <1>1 DEF Described
<1> HIDE DEF e, f, D, k
<1> QED
  BY <1>2, <1>3, <1>1 DEF Announced

\* A conversion keeps the truth of what is converted and announced.
LEMMA ConvertKeepsTruth ==
  ASSUME Core, Truth, NEW T \in SUBSET Ranks(layout), ConvertEffect(T), \A q \in T : Converting(q)
  PROVE  Truth'
<1>1. layout \in Layouts /\ layout' = layout /\ phase' = phase /\ meta' = meta /\ buffer' = buffer /\ weights' = weights
  BY DEF Core, Shapes, ConvertEffect
<1>2. \A r : /\ All(r)' = All(r) /\ Due(r, Len(All(r)))' = Due(r, Len(All(r)))
             /\ Due(r, Gone(r))' = Due(r, Gone(r)')
  BY <1>1, DueSame
<1>3. ConvertedSoFar'
  <2> DEFINE Holds(r) == /\ converted'[r] \in Seq(Due(r, Len(All(r)))) /\ Elements(converted'[r]) = Due(r, Gone(r)')
                         /\ Unique(converted'[r])
  <2>1. ASSUME NEW r \in Ranks(layout), phase[r] = "convert" PROVE Holds(r)
    <3>1. /\ converted[r] \in Seq(Due(r, Len(All(r)))) /\ Elements(converted[r]) = Due(r, Gone(r)) /\ Unique(converted[r])
      BY <2>1 DEF Truth, ConvertedSoFar
    <3>2. Gone(r)' = IF r \in T THEN Gone(r) + 1 ELSE Gone(r)
      BY GoneOn
    <3>3. CASE r \notin T
      BY <3>1, <3>2, <3>3 DEF ConvertEffect
    <3>4. CASE r \in T
      <4> DEFINE s == converted[r]
                 E == EntriesDue(r)
                 O == OfModel(r, Param(r))
                 S == Due(r, Len(All(r)))
                 B == Due(r, Gone(r))
      <4>1. Converting(r) /\ converted'[r] = FoldLeft(Put, s, E)
        BY <2>1, <3>4 DEF ConvertEffect
      <4>2. /\ E \in Seq(O) /\ Elements(E) = O /\ Unique(E)
            /\ \A x \in B, y \in O : Name(x) # Name(y)
            /\ Due(r, Gone(r) + 1) = B \cup O /\ Due(r, Gone(r) + 1) \subseteq S
        BY <2>1, <4>1, EntriesNew
      <4>3. s \in Seq(S) /\ Elements(s) = B /\ Unique(s)
        BY <3>1
      <4> HIDE DEF s, E, O, S, B
      <4>4. /\ FoldLeft(Put, s, E) \in Seq(S) /\ Unique(FoldLeft(Put, s, E))
            /\ Elements(FoldLeft(Put, s, E)) = Elements(s) \cup Elements(E)
        BY <4>2, <4>3, SeqWider, PutAll
      <4> QED
        BY <3>2, <3>4, <4>1, <4>2, <4>3, <4>4 DEF S
    <3> QED
      BY <3>3, <3>4
  <2> QED
    BY <1>2, <2>1, <1>1 DEF ConvertedSoFar, Elements, Unique, Name
<1> QED
  BY <1>3, <1>1, <1>2, CompleteSame DEF Truth, MetaIsDue, Described, HandedOver, Domains

\* Sharing the metadata keeps it.
LEMMA ShareKeepsTruth ==
  ASSUME Core, Truth, ShareMeta
  PROVE  Truth'
<1>1. /\ layout \in Layouts /\ layout' = layout /\ buffer' = buffer /\ weights' = weights
      /\ \A r \in Ranks(layout) : Finished(r, "meta")
      /\ layerMap' = PpStageLayerIdMap(converted)
  BY DEF Core, Shapes, ShareMeta
<1>2. /\ phase' = [r \in Ranks(layout) |-> "convert"]
      /\ pending' = [r \in Ranks(layout) |-> All(r)]
      /\ converted' = [r \in Ranks(layout) |-> <<>>]
      /\ meta' = [r \in Ranks(layout) |->
                    {Renamed(layerMap', r, e) : e \in {converted[r][i] : i \in DOMAIN converted[r]}}]
  BY DEF ShareMeta, All, Renamed
<1>3. \A r : /\ All(r)' = All(r) /\ Due(r, Len(All(r)))' = Due(r, Len(All(r)))
             /\ Due(r, Gone(r))' = Due(r, Gone(r)')
  BY <1>1, DueSame
<1>4. ConvertedSoFar'
  <2>1. ASSUME NEW r \in Ranks(layout)
        PROVE  converted'[r] \in Seq(Due(r, Len(All(r)))) /\ Elements(converted'[r]) = Due(r, Gone(r)') /\ Unique(converted'[r])
    <3>1. Elements(<<>>) = {}
      BY SingleFacts
    <3> QED
      BY <1>2, <1>3, <1>1, AllFacts, <3>1 DEF Due, Gone, Unique
  <2> QED
    BY <1>3, <2>1, <1>1 DEF ConvertedSoFar, Elements, Unique, Name
<1>5. ASSUME NEW r \in Ranks(layout) PROVE meta'[r] = Described(Due(r, Len(All(r))))
  <2> DEFINE map == PpStageLayerIdMap(converted)
             n == Len(All(r))
  <2>1. {converted[r][i] : i \in DOMAIN converted[r]} = SoFar(r, n)
    BY <1>1, NextParam DEF Elements, Core, ReportedSoFar, Progress, Finished
  <2>2. meta'[r] = {Renamed(map, r, t) : t \in SoFar(r, n)}
    BY <1>1, <1>2, <2>1
  <2> HIDE DEF map, n
  <2>3. ASSUME NEW i \in 1 .. n PROVE {Renamed(map, r, t) : t \in Announced(r, All(r)[i])} = Described(OfModel(r, All(r)[i]))
    <3> DEFINE p == All(r)[i]
    <3>1. ParamOK(layout, PpRank(layout, r), p) /\ PpRank(layout, r) \in 0 .. layout.pp - 1
      BY <1>1, AllFacts DEF n
    <3>2. p.layer # None => map[<<PpRank(layout, r), p.vp>>][p.layer] = Global(layout, r, p)
      <4> SUFFICES ASSUME p.layer # None PROVE map[<<PpRank(layout, r), p.vp>>][p.layer] = Global(layout, r, p)
        OBVIOUS
      <4> HIDE DEF p
      <4> QED
        BY <1>1, <3>1, MapIsHeld DEF Global, map, ParamOK, OuterParam
    <3> HIDE DEF p
    <3> QED
      BY <3>2, AnnouncedIs DEF p
  <2>4. {Renamed(map, r, t) : t \in SoFar(r, n)} = Described(Due(r, n))
    <3> DEFINE X == {Renamed(map, r, t) : t \in SoFar(r, n)}
               Y == Described(Due(r, n))
    <3> HIDE DEF X, Y
    <3> QED
      BY <2>3 DEF X, Y, SoFar, Due, Described
  <2> QED
    BY <2>2, <2>4 DEF n
<1>6. HandedOver'
  BY <1>1, <1>2 DEF HandedOver, Finished, Truth
<1> QED
  BY <1>4, <1>3, <1>5, <1>1, <1>6, <1>2 DEF Truth, Domains, MetaIsDue, Described, Name

----------------------------------------------------------------------------
\* The second invariant and the types.

\* It holds initially.
LEMMA TruthInit == Init => Truth
<1> SUFFICES ASSUME Init PROVE Truth
  OBVIOUS
<1>1. \A r \in Ranks(layout) : phase[r] = "meta" /\ buffer[r] = NoBuffer
  BY DEF Init
<1>2. HandedOver
  BY <1>1 DEF HandedOver
<1> QED
  BY <1>1, <1>2 DEF Truth, Init, Domains, ConvertedSoFar, MetaIsDue

\* A rank that has gone through its model has all that it is due.
LEMMA FinishedComplete ==
  ASSUME Core, Truth, NEW r \in Ranks(layout), Finished(r, "convert")
  PROVE  Complete(r, converted[r])
<1>1. layout \in Layouts /\ Gone(r) \in 0 .. Len(All(r)) /\ pending[r] = SubSeq(All(r), Gone(r) + 1, Len(All(r)))
      /\ pending[r] = <<>> /\ phase[r] = "convert"
  BY DEF Core, Shapes, Progress, Finished
<1> QED
  BY <1>1, NextParam DEF Truth, ConvertedSoFar, Complete

\* Grouping keeps it.
LEMMA GroupKeepsTruth ==
  ASSUME Core, Truth, NEW r \in Ranks(layout), GroupTensors(r)
  PROVE  Truth'
<1>1. /\ layout \in Layouts /\ layout' = layout /\ pending' = pending /\ meta' = meta /\ weights' = weights
      /\ DOMAIN phase = Ranks(layout) /\ DOMAIN converted = Ranks(layout) /\ DOMAIN buffer = Ranks(layout)
      /\ Finished(r, "convert")
  BY DEF Core, Shapes, Truth, Domains, GroupTensors
<1>2. /\ buffer'[r] = Packed(converted[r]) /\ phase'[r] = "grouped" /\ phase[r] = "convert"
      /\ \A q \in Ranks(layout) : q # r => buffer'[q] = buffer[q] /\ phase'[q] = phase[q] /\ converted'[q] = converted[q]
      /\ DOMAIN buffer' = Ranks(layout)
  BY <1>1 DEF Finished, GroupTensors, Packed
<1>3. \A q : /\ All(q)' = All(q) /\ Due(q, Len(All(q)))' = Due(q, Len(All(q)))
             /\ Due(q, Gone(q))' = Due(q, Gone(q)) /\ \A c : Complete(q, c)' <=> Complete(q, c)
  BY <1>1, DueSame, CompleteSame DEF Gone, All
<1>4. ConvertedSoFar'
  <2>1. ASSUME NEW q \in Ranks(layout), phase'[q] = "convert"
        PROVE  /\ converted'[q] \in Seq(Due(q, Len(All(q)))) /\ Elements(converted'[q]) = Due(q, Gone(q))
               /\ Unique(converted'[q])
    BY <1>2, <2>1 DEF Truth, ConvertedSoFar
  <2> QED
    BY <1>3, <1>1, <2>1 DEF ConvertedSoFar, Elements, Unique, Name
<1>5. HandedOver'
  <2>1. HandedOver' <=> \A q \in Ranks(layout) :
          /\ phase'[q] # "grouped" => buffer'[q] = NoBuffer
          /\ phase'[q] = "grouped" => \E c : Complete(q, c)' /\ buffer'[q] = Packed(c)
          /\ phase'[q] = "done" => \E c : Complete(q, c)' /\ weights[q] = Unpacked(Packed(c))
    BY <1>1 DEF HandedOver, Packed, Unpacked, Name
  <2>2. ASSUME NEW q \in Ranks(layout)
        PROVE  /\ phase'[q] # "grouped" => buffer'[q] = NoBuffer
               /\ phase'[q] = "grouped" => \E c : Complete(q, c) /\ buffer'[q] = Packed(c)
               /\ phase'[q] = "done" => \E c : Complete(q, c) /\ weights[q] = Unpacked(Packed(c))
    <3>1. CASE q = r
      BY <1>2, <1>1, FinishedComplete, <3>1
    <3>2. CASE q # r
      BY <1>2, <3>2 DEF Truth, HandedOver
    <3> QED
      BY <3>1, <3>2
  <2> QED
    BY <1>3, <2>1, <2>2
<1> QED
  BY <1>4, <1>2, <1>3, <1>1, <1>5 DEF Truth, Domains, MetaIsDue, Described, Name

\* Collecting keeps it.
LEMMA CollectKeepsTruth ==
  ASSUME Core, Truth, NEW r \in Ranks(layout), CollectTrainingWeights(r)
  PROVE  Truth'
<1>1. /\ layout \in Layouts /\ layout' = layout /\ pending' = pending /\ meta' = meta /\ converted' = converted
      /\ DOMAIN phase = Ranks(layout) /\ DOMAIN weights = Ranks(layout) /\ DOMAIN buffer = Ranks(layout)
      /\ phase[r] = "grouped"
  BY DEF Core, Shapes, Truth, Domains, CollectTrainingWeights
<1>2. /\ buffer'[r] = NoBuffer /\ phase'[r] = "done" /\ weights'[r] = Unpacked(buffer[r])
      /\ \A q \in Ranks(layout) : q # r => buffer'[q] = buffer[q] /\ phase'[q] = phase[q] /\ weights'[q] = weights[q]
      /\ DOMAIN buffer' = Ranks(layout) /\ DOMAIN weights' = Ranks(layout)
  BY <1>1 DEF CollectTrainingWeights, Unpacked
<1>3. \A q : /\ All(q)' = All(q) /\ Due(q, Len(All(q)))' = Due(q, Len(All(q)))
             /\ Due(q, Gone(q))' = Due(q, Gone(q)) /\ \A c : Complete(q, c)' <=> Complete(q, c)
  BY <1>1, DueSame, CompleteSame DEF Gone, All
<1>4. PICK entries : Complete(r, entries) /\ buffer[r] = Packed(entries)
  BY <1>1 DEF Truth, HandedOver
<1>5. ConvertedSoFar'
  BY <1>3, <1>1, <1>2 DEF Truth, ConvertedSoFar, Elements, Unique, Name
<1>6. HandedOver'
  <2>1. HandedOver' <=> \A q \in Ranks(layout) :
          /\ phase'[q] # "grouped" => buffer'[q] = NoBuffer
          /\ phase'[q] = "grouped" => \E c : Complete(q, c)' /\ buffer'[q] = Packed(c)
          /\ phase'[q] = "done" => \E c : Complete(q, c)' /\ weights'[q] = Unpacked(Packed(c))
    BY <1>1 DEF HandedOver, Packed, Unpacked, Name
  <2>2. ASSUME NEW q \in Ranks(layout)
        PROVE  /\ phase'[q] # "grouped" => buffer'[q] = NoBuffer
               /\ phase'[q] = "grouped" => \E c : Complete(q, c) /\ buffer'[q] = Packed(c)
               /\ phase'[q] = "done" => \E c : Complete(q, c) /\ weights'[q] = Unpacked(Packed(c))
    <3>1. CASE q = r
      BY <1>2, <1>4, <3>1
    <3>2. CASE q # r
      BY <1>2, <3>2 DEF Truth, HandedOver
    <3> QED
      BY <3>1, <3>2
  <2> QED
    BY <1>3, <2>1, <2>2
<1> QED
  BY <1>5, <1>1, <1>2, <1>3, <1>6 DEF Truth, Domains, MetaIsDue, Described, Name

\* Stuttering keeps it.
LEMMA StutterKeepsTruth ==
  ASSUME Core, Truth, UNCHANGED vars
  PROVE  Truth'
<1>1. /\ layout' = layout /\ phase' = phase /\ pending' = pending /\ cache' = cache /\ converted' = converted
      /\ meta' = meta /\ layerMap' = layerMap /\ buffer' = buffer /\ weights' = weights
  BY DEF vars
<1>2. \A q : /\ All(q)' = All(q) /\ Due(q, Len(All(q)))' = Due(q, Len(All(q)))
             /\ Due(q, Gone(q))' = Due(q, Gone(q)) /\ \A c : Complete(q, c)' <=> Complete(q, c)
  BY <1>1, DueSame, CompleteSame DEF Gone, All
<1>3. ConvertedSoFar'
  BY <1>2, <1>1 DEF Truth, ConvertedSoFar, Elements, Unique, Name
<1>4. HandedOver'
  <2>1. HandedOver' <=> \A q \in Ranks(layout) :
          /\ phase[q] # "grouped" => buffer[q] = NoBuffer
          /\ phase[q] = "grouped" => \E c : Complete(q, c)' /\ buffer[q] = Packed(c)
          /\ phase[q] = "done" => \E c : Complete(q, c)' /\ weights[q] = Unpacked(Packed(c))
    BY <1>1 DEF HandedOver, Packed, Unpacked, Name
  <2> QED
    BY <1>2, <2>1 DEF Truth, HandedOver
<1> QED
  BY <1>3, <1>2, <1>1, <1>4 DEF Truth, Domains, MetaIsDue, Described, Name

\* Between the first conversion and the worker nothing is lost or renamed.
THEOREM TruthInvariant == Spec => [](Core /\ Truth)
<1>1. Init => Core /\ Truth
  BY CoreInit, TruthInit
<1>2. Core /\ Truth /\ [Next]_vars => Truth'
  <2> SUFFICES ASSUME Core, Truth, [Next]_vars PROVE Truth'
    OBVIOUS
  <2>1. ASSUME NEW r \in Ranks(layout), ConvertLocal(r) PROVE Truth'
    BY <2>1, LocalConverts, ConvertKeepsTruth
  <2>2. ASSUME NEW r \in Ranks(layout), ConvertGathered(r) PROVE Truth'
    BY <2>2, GatheredConverts, GroupFacts, ConvertKeepsTruth DEF Core, Shapes
  <2>3. ASSUME NEW r \in Ranks(layout), GroupTensors(r) PROVE Truth'
    BY <2>3, GroupKeepsTruth
  <2>4. ASSUME NEW r \in Ranks(layout), CollectTrainingWeights(r) PROVE Truth'
    BY <2>4, CollectKeepsTruth
  <2>5. CASE ShareMeta
    BY <2>5, ShareKeepsTruth
  <2>6. CASE UNCHANGED vars
    BY <2>6, StutterKeepsTruth
  <2> QED
    BY <2>1, <2>2, <2>3, <2>4, <2>5, <2>6 DEF Next
<1>3. Init /\ [][Next]_vars /\ []Core => []Truth
  BY <1>1, <1>2, PTL
<1> QED
  BY <1>3, CoreInvariant, PTL DEF Spec

\* The typing of the state follows.
LEMMA TruthTyped == Core /\ Truth => TypeOK
<1> SUFFICES ASSUME Core, Truth PROVE TypeOK
  OBVIOUS
<1>1. layout \in Layouts /\ DOMAIN phase = Ranks(layout)
  BY DEF Core, Shapes
<1>2. ASSUME NEW r \in Ranks(layout) PROVE phase[r] \in {"meta", "convert", "grouped", "done", "failed"}
  BY DEF Core, Shapes
<1>3. ASSUME NEW r \in Ranks(layout), NEW i \in DOMAIN pending[r] PROVE pending[r][i].vp \in 0 .. layout.vp - 1
  <2> DEFINE s == All(r)
             n == Gone(r)
  <2>1. n \in 0 .. Len(s) /\ pending[r] = SubSeq(s, n + 1, Len(s))
    BY DEF Core, Progress
  <2>2. s \in Seq(ParamSet) /\ Len(s) \in Nat /\ \A j \in 1 .. Len(s) : ParamOK(layout, PpRank(layout, r), s[j])
    BY <1>1, AllFacts
  <2> HIDE DEF s, n
  <2>3. i \in 1 .. Len(s) - n /\ pending[r][i] = s[i + n]
    BY <1>3, <2>1, <2>2
  <2> QED
    BY <2>2, <2>3, <2>1 DEF ParamOK
<1>4. ASSUME NEW r \in Ranks(layout) PROVE {h.part : h \in cache[r]} \subseteq {"q_a_proj", "kv_a_proj_with_mqa"}
  <2>1. cache[r] = {} \/ \E p, layer : cache[r] = {Half(layout, r, p, layer)}
    BY DEF Core, CacheIsDue, CacheDue, CacheBefore
  <2> QED
    BY <2>1 DEF Half
<1>5. ASSUME NEW r \in Ranks(layout) PROVE Len(buffer[r].names) = Cardinality(buffer[r].metadata)
  <2>1. CASE buffer[r] = NoBuffer
    BY <2>1, FS_EmptySet DEF NoBuffer
  <2>2. CASE buffer[r] # NoBuffer
    <3>1. PICK c : Complete(r, c) /\ buffer[r] = Packed(c)
      BY <2>2 DEF Truth, HandedOver
    <3> QED
      BY <3>1, MetadataCount DEF Packed, Complete
  <2> QED
    BY <2>1, <2>2
<1>6. ASSUME NEW r \in Ranks(layout) PROVE buffer[r] = NoBuffer \/ phase[r] = "grouped"
  BY DEF Truth, HandedOver
<1> QED
  BY <1>1, <1>2, <1>3, <1>4, <1>5, <1>6 DEF TypeOK

\* The variables have their types in every reachable state, for any layout and any budget
\* of a group.
THEOREM TypeCorrect == Spec => []TypeOK
BY TruthInvariant, TruthTyped, PTL

----------------------------------------------------------------------------
\* Sequences of anything.

-----------------------------------------------------------------------------
\* Sequences of some elements, whatever they are.
Listed(s) == \E S : s \in Seq(S)

\* What it is to be a sequence, without saying of what.
LEMMA ListedIs ==
  ASSUME NEW s, Listed(s)
  PROVE  /\ Len(s) \in Nat /\ DOMAIN s = 1 .. Len(s) /\ s = [i \in 1 .. Len(s) |-> s[i]]
         /\ s \in Seq(Elements(s))
<1>1. PICK S : s \in Seq(S)
  BY DEF Listed
<1> QED
  BY <1>1 DEF Elements

\* A function on 1 .. n is a sequence.
LEMMA ListedFunction ==
  ASSUME NEW n \in Nat, NEW s, s = [i \in 1 .. n |-> s[i]]
  PROVE  Listed(s) /\ Len(s) = n
<1>1. s \in Seq({s[i] : i \in 1 .. n}) /\ Len(s) = n
  OBVIOUS
<1> QED
  BY <1>1 DEF Listed

\* So is a subsequence.
LEMMA SubSeqListed ==
  ASSUME NEW s, NEW a \in Int, NEW b \in Int
  PROVE  Listed(SubSeq(s, a, b)) /\ (b - a + 1 >= 0 => Len(SubSeq(s, a, b)) = b - a + 1)
<1> DEFINE t == SubSeq(s, a, b)
<1>1. t = [i \in 1 .. b - a + 1 |-> s[a + i - 1]]
  OBVIOUS
<1>2. CASE b - a + 1 >= 0
  <2> HIDE DEF t
  <2> QED
    BY <1>1, <1>2, ListedFunction DEF t
<1>3. CASE b - a + 1 < 0
  BY <1>3, <1>1 DEF Listed
<1> QED
  BY <1>2, <1>3

\* So is a concatenation.
LEMMA ConcatListed ==
  ASSUME NEW s, NEW t, Listed(s), Listed(t)
  PROVE  Listed(s \o t) /\ Len(s \o t) = Len(s) + Len(t)
<1> DEFINE S == Elements(s) \cup Elements(t)
<1>1. s \in Seq(S) /\ t \in Seq(S)
  BY ListedIs, SeqWider
<1> HIDE DEF S
<1> QED
  BY <1>1 DEF Listed

\* Parts put one after the other, of one length if the parts are.
LEMMA FlattenListed ==
  ASSUME NEW seqs, Listed(seqs), \A i \in 1 .. Len(seqs) : Listed(seqs[i])
  PROVE  /\ Listed(FlattenSeq(seqs))
         /\ \A n \in Nat : (\A i \in 1 .. Len(seqs) : Len(seqs[i]) = n)
              => Len(FlattenSeq(seqs)) = Len(seqs) * n
<1> DEFINE S == UNION {Elements(seqs[i]) : i \in 1 .. Len(seqs)}
<1>1. \A i \in 1 .. Len(seqs) : seqs[i] \in Seq(S)
  <2> SUFFICES ASSUME NEW i \in 1 .. Len(seqs) PROVE seqs[i] \in Seq(S)
    OBVIOUS
  <2>1. Elements(seqs[i]) \subseteq S
    OBVIOUS
  <2> HIDE DEF S
  <2> QED
    BY ListedIs, <2>1, SeqWider
<1> HIDE DEF S
<1>2. seqs \in Seq(Seq(S))
  BY ListedIs, <1>1, PartsType
<1>3. ASSUME NEW n \in Nat, \A i \in 1 .. Len(seqs) : Len(seqs[i]) = n
      PROVE  Len(FlattenSeq(seqs)) = Len(seqs) * n
  BY <1>2, <1>3, FlattenLength
<1> QED
  BY <1>2, FlattenType, <1>3 DEF Listed

\* The lesser of two numbers.
LEMMA LesserIs ==
  ASSUME NEW a \in Int, NEW b \in Int
  PROVE  Min({a, b}) \in {a, b} /\ Min({a, b}) <= a /\ Min({a, b}) <= b
<1> DEFINE m == IF a <= b THEN a ELSE b
<1> QED
  BY DEF Min

\* torch.chunk of a tensor that is not empty.
LEMMA ChunkListed ==
  ASSUME NEW rows, Listed(rows), Len(rows) # 0, NEW n \in Nat \ {0}
  PROVE  /\ Listed(Chunk(rows, n)) /\ Len(Chunk(rows, n)) \in Nat
         /\ \A i \in 1 .. Len(Chunk(rows, n)) : Listed(Chunk(rows, n)[i])
<1> DEFINE L == Len(rows)
           size == (L + n - 1) \div n
           count == (L + size - 1) \div size
           At(i) == SubSeq(rows, (i - 1) * size + 1, Min({i * size, L}))
<1>1. L \in Nat \ {0}
  BY ListedIs
<1>2. size \in Nat \ {0}
  <2> HIDE DEF L
  <2>1. PICK q \in Nat, u \in 0 .. n - 1 : q = (L + n - 1) \div n /\ u = (L + n - 1) % n /\ L + n - 1 = q * n + u
    BY <1>1, Euclid
  <2>2. q # 0
    <3> SUFFICES ASSUME q = 0 PROVE FALSE
      OBVIOUS
    <3> QED
      BY <1>1, <2>1
  <2> QED
    BY <2>1, <2>2
<1>3. count \in Nat
  <2> HIDE DEF L, size
  <2> QED
    BY <1>2, <1>1
<1>4. Chunk(rows, n) = [i \in 1 .. count |-> At(i)]
  BY DEF Chunk
<1>5. ASSUME NEW i \in 1 .. count PROVE Listed(At(i))
  <2> HIDE DEF L, size, count
  <2>1. i \in Int /\ (i - 1) * size + 1 \in Int /\ i * size \in Int /\ L \in Int
    BY <1>1, <1>2, <1>3
  <2> QED
    BY <2>1, LesserIs, SubSeqListed
<1> HIDE DEF count, At
<1> QED
  BY <1>3, <1>4, <1>5, ListedFunction

\* .. and of one that is cut evenly.
LEMMA ChunkEven ==
  ASSUME NEW rows, Listed(rows), NEW n \in Nat \ {0}, NEW k \in Nat \ {0}, Len(rows) = n * k
  PROVE  /\ Listed(Chunk(rows, n)) /\ Len(Chunk(rows, n)) = n
         /\ \A i \in 1 .. n : Listed(Chunk(rows, n)[i]) /\ Len(Chunk(rows, n)[i]) = k
<1> DEFINE L == Len(rows)
<1>1. n * k \in Nat \ {0} /\ n * k + n - 1 = k * n + (n - 1) /\ n - 1 \in 0 .. n - 1
  OBVIOUS
<1>2. (L + n - 1) \div n = k
  BY <1>1, EuclidUnique
<1>3. (L + k - 1) \div k = n
  BY <1>1, EuclidUnique
<1>4. Len(Chunk(rows, n)) = n /\ \A i \in 1 .. n : Chunk(rows, n)[i] = SubSeq(rows, (i - 1) * k + 1, Min({i * k, L}))
  <2> DEFINE C == Chunk(rows, n)
             At(i) == SubSeq(rows, (i - 1) * k + 1, Min({i * k, L}))
  <2>1. C = [i \in 1 .. n |-> At(i)]
    BY <1>2, <1>3 DEF Chunk
  <2> HIDE DEF C, At
  <2>2. Len(C) = n /\ \A i \in 1 .. n : C[i] = At(i)
    BY <2>1
  <2> QED
    BY <2>2 DEF C, At
<1>5. ASSUME NEW i \in 1 .. n PROVE Len(Chunk(rows, n)[i]) = k
  <2>1. i * k \in Int /\ i * k <= n * k /\ (i - 1) * k = i * k - k /\ (i - 1) * k \in Int
    BY <1>1
  <2>2. Min({i * k, L}) = i * k
    <3> DEFINE a == i * k
    <3>1. a \in Int /\ L \in Int /\ a <= L
      BY <1>1, <2>1
    <3> HIDE DEF a, L
    <3>2. Min({a, L}) \in {a, L} /\ Min({a, L}) <= a
      BY <3>1, LesserIs
    <3> QED
      BY <3>1, <3>2 DEF a
  <2>3. Len(SubSeq(rows, (i - 1) * k + 1, i * k)) = k
    <3> DEFINE a == (i - 1) * k + 1
               b == i * k
    <3> HIDE DEF a, b
    <3> QED
      BY <2>1, SubSeqListed DEF a, b
  <2> QED
    BY <1>4, <2>2, <2>3
<1> QED
  BY <1>1, <1>4, <1>5, ChunkListed

----------------------------------------------------------------------------
\* Tensors are sequences of rows.

-----------------------------------------------------------------------------
\* The tensors of the training job.
LEMMA HeldPart ==
  ASSUME NEW l \in Layouts, NEW layer \in Int, NEW expert \in Int, NEW part \in PartNames, NEW k \in Nat
  PROVE  /\ Listed(Full(l, layer, expert, part))
         /\ Listed(Slice(Full(l, layer, expert, part), k, l.tp))
         /\ \A w \in Nat : Size(l, part) = w * l.tp => Len(Slice(Full(l, layer, expert, part), k, l.tp)) = w
<1> DEFINE s == Full(l, layer, expert, part)
           n == Size(l, part)
           t == l.tp
<1>1. s \in Seq(RowSet) /\ Len(s) = n /\ n \in Nat /\ t \in Nat \ {0}
  BY FullType, LayoutFacts
<1> HIDE DEF s, n, t
<1>2. (k * Len(s)) \div t + 1 \in Int /\ ((k + 1) * Len(s)) \div t \in Int
  <2> DEFINE a == k * n
             b == (k + 1) * n
  <2> HIDE DEF a, b
  <2> QED
    BY <1>1 DEF a, b
<1>3. ASSUME NEW w \in Nat, n = w * t PROVE Len(Slice(s, k, t)) = w
  <2> DEFINE a == k * w
             b == k * w + w
  <2> HIDE DEF a, b
  <2> QED
    BY <1>3, <1>1, EuclidUnique, SubSeqListed DEF Slice, a, b
<1> QED
  BY <1>1, <1>2, SubSeqListed, <1>3 DEF s, n, t, Listed, Slice

\* The parts a parameter other than linear_qkv is made of.
LEMMA PartsAre ==
  ASSUME NEW kind \in Kinds, kind # "linear_qkv"
  PROVE  /\ DOMAIN McoreParts[kind] = 1 .. Len(McoreParts[kind]) /\ Len(McoreParts[kind]) \in 1 .. 2
         /\ \A i \in 1 .. Len(McoreParts[kind]) : McoreParts[kind][i] \in PartNames
<1> DEFINE Goal(s) == DOMAIN s = 1 .. Len(s) /\ Len(s) \in 1 .. 2 /\ \A i \in 1 .. Len(s) : s[i] \in PartNames
<1>1. ASSUME NEW a \in PartNames PROVE Goal(<<a>>)
  OBVIOUS
<1>2. ASSUME NEW a \in PartNames, NEW b \in PartNames PROVE Goal(<<a, b>>)
  OBVIOUS
<1> DEFINE s == McoreParts[kind]
<1>3. CASE kind \in {"fc1", "expert_fc1", "shared_fc1"}
  <2>1. s[1] \in PartNames /\ s[2] \in PartNames /\ s = <<s[1], s[2]>>
    BY <1>3 DEF McoreParts, PartNames
  <2> HIDE DEF s
  <2>2. PICK a \in PartNames, b \in PartNames : s = <<a, b>>
    BY <2>1
  <2> QED
    BY <1>2, <2>2 DEF s
<1>4. CASE kind \notin {"fc1", "expert_fc1", "shared_fc1"}
  <2>1. s[1] \in PartNames
    BY <1>4 DEF Kinds, McoreParts, PartNames
  <2>2. s = <<s[1]>>
    BY <1>4 DEF Kinds, McoreParts
  <2> HIDE DEF s
  <2>3. PICK a \in PartNames : s = <<a>>
    BY <2>1, <2>2
  <2> QED
    BY <1>1, <2>3 DEF s
<1> QED
  BY <1>3, <1>4

\* A tensor of a rank, and its size if its only part is cut evenly.
LEMMA TensorListed ==
  ASSUME NEW l \in Layouts, NEW r \in Ranks(l), NEW p \in ParamSet
  PROVE  /\ Listed(McoreTensor(l, r, p))
         /\ \A w \in Nat : p.kind \in DownProjections /\ l.width = w * l.tp => Len(McoreTensor(l, r, p)) = w
<1> DEFINE layer == IF p.layer = None THEN None ELSE HeldLayer(l, PpRank(l, r), p.vp, p.layer)
           expert == IF p.expert = None THEN None ELSE EpRank(l, r) * LocalExperts(l) + p.expert
           k == TpRank(l, r)
           Cut(part) == IF part \in WholeParts THEN Full(l, layer, expert, part)
                         ELSE Slice(Full(l, layer, expert, part), k, l.tp)
           parts == McoreParts[p.kind]
           seqs == [i \in DOMAIN parts |-> Cut(parts[i])]
<1>1. p.vp \in Int /\ p.layer \in Int /\ p.expert \in Int /\ p.kind \in Kinds
  BY DEF ParamSet
<1>2. layer \in Int
  BY <1>1, RankFacts, LayoutFacts, HeldInt DEF None
<1>3. expert \in Int /\ k \in Nat /\ k < l.tp /\ l.tp \in Nat
  <2> DEFINE a == EpRank(l, r)
             b == LocalExperts(l)
  <2> HIDE DEF a, b
  <2> QED
    BY <1>1, RankFacts, LayoutFacts DEF None, a, b
<1>4. McoreTensor(l, r, p) = IF p.kind = "linear_qkv" THEN LinearQkv(l, layer, k) ELSE FlattenSeq(seqs)
  BY DEF McoreTensor
<1> HIDE DEF layer, expert, k
<1>5. CASE p.kind = "linear_qkv"
  BY <1>4, <1>5, <1>2, <1>3, LinearQkvRows DEF Listed, DownProjections
<1>6. CASE p.kind # "linear_qkv"
  <2>1. DOMAIN parts = 1 .. Len(parts) /\ Len(parts) \in 1 .. 2 /\ \A i \in 1 .. Len(parts) : parts[i] \in PartNames
    BY <1>1, <1>6, PartsAre
  <2>2. p.kind \in DownProjections => \E part \in PartNames : parts = <<part>> /\ part \notin WholeParts /\ Size(l, part) = l.width
    BY DEF DownProjections, McoreParts, PartNames, WholeParts, Size
  <2> HIDE DEF parts
  <2>3. seqs = [i \in 1 .. Len(parts) |-> seqs[i]] /\ \A i \in 1 .. Len(parts) : seqs[i] = Cut(parts[i])
    BY <2>1
  <2> HIDE DEF seqs
  <2>4. Listed(seqs) /\ Len(seqs) = Len(parts)
    BY <2>1, <2>3, ListedFunction
  <2>5. \A i \in 1 .. Len(seqs) : Listed(seqs[i])
    BY <2>1, <1>2, <1>3, HeldPart, <2>3, <2>4
  <2>6. ASSUME NEW w \in Nat, p.kind \in DownProjections, l.width = w * l.tp
        PROVE  Len(FlattenSeq(seqs)) = w
    <3>1. PICK part \in PartNames : parts = <<part>> /\ part \notin WholeParts /\ Size(l, part) = l.width
      BY <2>2, <2>6
    <3>2. Len(parts) = 1 /\ parts[1] = part
      BY <3>1
    <3>3. Len(Cut(part)) = w
      BY <1>2, <1>3, HeldPart, <2>6, <3>1
    <3>4. \A i \in 1 .. Len(seqs) : Len(seqs[i]) = w
      BY <2>3, <2>4, <3>2, <3>3
    <3>5. Len(seqs) = 1 /\ 1 * w = w
      BY <2>4, <2>6, <3>2
    <3> QED
      BY <2>4, <2>5, <2>6, <3>4, FlattenListed, <3>5
  <2> QED
    BY <1>4, <1>6, <2>4, <2>5, FlattenListed, <2>6
<1> QED
  BY <1>5, <1>6

\* .. and the tensor that a conversion has.
LEMMA WholeListed ==
  ASSUME NEW l \in Layouts, NEW r \in Ranks(l), NEW p \in ParamSet
  PROVE  /\ Listed(TensorOf(l, r, p))
         /\ \A w \in Nat : p.kind \in DownProjections /\ l.width = w * l.tp => Len(TensorOf(l, r, p)) = l.width
<1> DEFINE seqs == [i \in 1 .. l.tp |-> McoreTensor(l, Base(l, r) + i - 1, p)]
<1>1. l.tp \in Nat \ {0}
  BY LayoutFacts
<1>2. \A i \in 1 .. l.tp : Base(l, r) + i - 1 \in Ranks(l)
  <2> SUFFICES ASSUME NEW i \in 1 .. l.tp PROVE Base(l, r) + i - 1 \in Ranks(l)
    OBVIOUS
  <2> QED
    BY <1>1, RankFacts
<1>3. \A i \in 1 .. l.tp : seqs[i] = McoreTensor(l, Base(l, r) + i - 1, p)
  OBVIOUS
<1>4. seqs = [i \in 1 .. l.tp |-> seqs[i]]
  OBVIOUS
<1>5. TensorOf(l, r, p) = IF Gathers(l, r, p) THEN FlattenSeq(seqs) ELSE McoreTensor(l, r, p)
  BY DEF TensorOf
<1> HIDE DEF seqs
<1>6. Listed(seqs) /\ Len(seqs) = l.tp
  BY <1>1, <1>4, ListedFunction
<1>7. \A i \in 1 .. Len(seqs) : Listed(seqs[i])
  BY <1>2, <1>3, <1>6, TensorListed
<1>8. ASSUME NEW w \in Nat, p.kind \in DownProjections, l.width = w * l.tp
      PROVE  Len(TensorOf(l, r, p)) = l.width
  <2>1. CASE Gathers(l, r, p)
    <3>1. \A i \in 1 .. Len(seqs) : Len(seqs[i]) = w
      BY <1>2, <1>3, <1>6, <1>8, TensorListed
    <3>2. Len(FlattenSeq(seqs)) = l.tp * w
      BY <1>6, <1>7, <3>1, FlattenListed
    <3> QED
      BY <1>1, <1>5, <1>8, <2>1, <3>2
  <2>2. CASE ~Gathers(l, r, p)
    BY <1>5, <1>8, <2>2, <1>1, TensorListed DEF Gathers
  <2> QED
    BY <2>1, <2>2
<1> QED
  BY <1>5, <1>6, <1>7, FlattenListed, TensorListed, <1>8

----------------------------------------------------------------------------
\* Taking linear_qkv apart.

-----------------------------------------------------------------------------
\* Queries, keys and values of a gathered linear_qkv.
LEMMA EachPart ==
  ASSUME NEW n \in Nat, NEW w \in Nat, NEW seqs, seqs = [g \in 1 .. n |-> seqs[g]],
         \A g \in 1 .. n : Listed(seqs[g]) /\ Len(seqs[g]) = w
  PROVE  Listed(FlattenSeq(seqs)) /\ Len(FlattenSeq(seqs)) = n * w
<1> QED
  BY ListedFunction, FlattenListed

QkvOf(l, qkv, h) ==
  /\ Listed(qkv.query) /\ Len(qkv.query) = l.heads * h
  /\ Listed(qkv.key) /\ Len(qkv.key) = l.kvHeads * h
  /\ Listed(qkv.value) /\ Len(qkv.value) = l.kvHeads * h

\* Taking linear_qkv apart by key-value heads gives queries, keys and values of the right sizes.
LEMMA DeinterleavedIs ==
  ASSUME NEW l \in Layouts, NEW rows, Listed(rows), NEW k \in Nat \ {0}, Len(rows) = l.kvHeads * k,
         NEW h \in Nat \ {0}
  PROVE  QkvOf(l, Deinterleaved(l, rows, h), h)
<1> DEFINE n == l.kvHeads
           groups == Chunk(rows, n)
           q == h * PerKv(l)
           Each(a, b) == FlattenSeq([g \in 1 .. n |-> SubSeq(groups[g], a, b)])
<1>1. n \in Nat \ {0} /\ PerKv(l) \in Nat \ {0} /\ l.heads = PerKv(l) * n
  BY LayoutFacts, HeadCounts
<1>2. Listed(groups) /\ Len(groups) = n
  <2> HIDE DEF n
  <2> QED
    BY <1>1, ChunkEven DEF n
<1>3. q \in Nat /\ n * q = l.heads * h
  BY <1>1
<1> HIDE DEF groups, q, n
<1>4. ASSUME NEW a \in Int, NEW b \in Int, NEW w \in Nat, b - a + 1 = w
      PROVE  Listed(Each(a, b)) /\ Len(Each(a, b)) = n * w
  <2> DEFINE At(g) == SubSeq(groups[g], a, b)
  <2>1. \A g \in 1 .. n : Listed(At(g)) /\ Len(At(g)) = w
    BY <1>4, SubSeqListed
  <2> DEFINE seqs == [g \in 1 .. n |-> At(g)]
  <2>2. seqs = [g \in 1 .. n |-> seqs[g]] /\ \A g \in 1 .. n : seqs[g] = At(g)
    OBVIOUS
  <2>3. Each(a, b) = FlattenSeq(seqs)
    OBVIOUS
  <2> HIDE DEF At, seqs, Each
  <2> QED
    BY <2>3, <1>1, <2>2, <2>1, EachPart
<1>5. Deinterleaved(l, rows, h)
        = [query |-> Each(1, q), key |-> Each(q + 1, q + h), value |-> Each(q + h + 1, q + 2 * h)]
  BY <1>2, ListedIs DEF Deinterleaved, PerKv, groups, q, n
<1> HIDE DEF Each
<1>6. Listed(Each(1, q)) /\ Len(Each(1, q)) = n * q
  BY <1>3, <1>4
<1>7. Listed(Each(q + 1, q + h)) /\ Len(Each(q + 1, q + h)) = n * h
  <2>1. q + 1 \in Int /\ q + h \in Int /\ h \in Nat /\ (q + h) - (q + 1) + 1 = h
    BY <1>3
  <2> QED
    BY <1>4, <2>1
<1>8. Listed(Each(q + h + 1, q + 2 * h)) /\ Len(Each(q + h + 1, q + 2 * h)) = n * h
  <2>1. q + h + 1 \in Int /\ q + 2 * h \in Int /\ h \in Nat /\ (q + 2 * h) - (q + h + 1) + 1 = h
    BY <1>3
  <2> QED
    BY <1>4, <2>1
<1> QED
  BY <1>3, <1>5, <1>6, <1>7, <1>8 DEF QkvOf, n

\* So does taking one copy of replicated keys and values.
LEMMA DeduplicatedIs ==
  ASSUME NEW l \in Layouts, NEW rows, NEW h \in Nat \ {0}, h = HeadSize(l), l.hidden = l.heads * h
  PROVE  QkvOf(l, Deduplicated(l, rows), h)
<1> DEFINE n == l.kvHeads
           Head1(first, g) == SubSeq(rows, first + ((g - 1) * PerKv(l)) * h + 1, first + ((g - 1) * PerKv(l) + 1) * h)
           OfGroups(first) == FlattenSeq([g \in 1 .. n |-> Head1(first, g)])
<1>1. n \in Nat \ {0} /\ PerKv(l) \in Nat \ {0} /\ l.hidden \in Nat
  BY LayoutFacts, HeadCounts
<1>2. ASSUME NEW first \in Nat PROVE Listed(OfGroups(first)) /\ Len(OfGroups(first)) = n * h
  <2> DEFINE At(g) == Head1(first, g)
  <2>1. ASSUME NEW g \in 1 .. n PROVE Listed(At(g)) /\ Len(At(g)) = h
    <3> DEFINE head == (g - 1) * PerKv(l)
               a == first + head * h + 1
               b == first + (head + 1) * h
    <3>1. head \in Nat
      BY <1>1
    <3>2. a \in Int /\ b \in Int /\ b - a + 1 = h
      <4> HIDE DEF head
      <4> QED
        BY <3>1
    <3>3. At(g) = SubSeq(rows, a, b)
      OBVIOUS
    <3> HIDE DEF a, b, At
    <3> QED
      BY <3>2, <3>3, SubSeqListed
  <2> DEFINE seqs == [g \in 1 .. n |-> At(g)]
  <2>2. seqs = [g \in 1 .. n |-> seqs[g]] /\ \A g \in 1 .. n : seqs[g] = At(g)
    OBVIOUS
  <2>3. OfGroups(first) = FlattenSeq(seqs)
    OBVIOUS
  <2> HIDE DEF At, seqs, OfGroups
  <2>4. Listed(FlattenSeq(seqs)) /\ Len(FlattenSeq(seqs)) = n * h
    <3>1. \A g \in 1 .. n : Listed(seqs[g]) /\ Len(seqs[g]) = h
      BY <2>1, <2>2
    <3> QED
      BY <1>1, <2>2, <3>1, EachPart
  <2> QED
    BY <2>3, <2>4
<1>3. Deduplicated(l, rows)
        = [query |-> SubSeq(rows, 1, l.hidden), key |-> OfGroups(l.hidden), value |-> OfGroups(2 * l.hidden)]
  BY DEF Deduplicated, PerKv
<1> HIDE DEF OfGroups
<1>4. /\ Listed(OfGroups(l.hidden)) /\ Len(OfGroups(l.hidden)) = n * h
      /\ Listed(OfGroups(2 * l.hidden)) /\ Len(OfGroups(2 * l.hidden)) = n * h
  BY <1>2, <1>1
<1> DEFINE D == Deduplicated(l, rows)
           Q == SubSeq(rows, 1, l.hidden)
           K == OfGroups(l.hidden)
           V == OfGroups(2 * l.hidden)
<1>5. D.query = Q /\ D.key = K /\ D.value = V
  <2>1. D = [query |-> Q, key |-> K, value |-> V]
    BY <1>3
  <2> HIDE DEF D, Q, K, V
  <2> QED
    BY <2>1
<1> HIDE DEF D
<1> QED
  BY <1>1, SubSeqListed, <1>4, <1>5 DEF QkvOf, D

\* So does transform_mcore_qkv_weight, for every format it knows.
LEMMA TransformIs ==
  ASSUME NEW l \in Layouts, NEW rows, Listed(rows), Len(rows) = QkvSize(l)
  PROVE  \E h \in Nat \ {0} : QkvOf(l, TransformMcoreQkv(l, rows), h)
<1> DEFINE size == Len(rows)
           n == l.kvHeads
           d == HeadSize(l)
           F == QkvFormat(l, size)
<1>1. /\ n \in Nat \ {0} /\ PerKv(l) \in Nat \ {0} /\ l.heads = PerKv(l) * n /\ l.heads \in Nat \ {0}
      /\ l.headRows \in Nat \ {0} /\ l.hidden \in Nat \ {0} /\ l.kvChannels \in Nat
  BY LayoutFacts, HeadCounts
<1>2. /\ F # "unsupported"
      /\ F = "replicated" => l.hidden = l.heads * d
      /\ F = "qwen3" => l.hidden % n = 0
  BY McoreConverterAssumption DEF McoreConverterAssumption
<1>3. d \in Nat
  BY <1>1 DEF HeadSize
<1>4. size \in Nat \ {0}
  <2>1. (l.heads \div n + 2) * n * l.headRows \in Nat \ {0} /\ 3 * l.heads * l.headRows \in Nat \ {0}
    <3> DEFINE a == PerKv(l) + 2
               b == a * n
               c == 3 * l.heads
    <3>1. a \in Nat \ {0}
      BY SMTT(20), <1>1
    <3> HIDE DEF a
    <3>2. b \in Nat \ {0} /\ c \in Nat \ {0}
      BY SMTT(20), <1>1, <3>1
    <3> HIDE DEF b, c
    <3>3. b * l.headRows \in Nat \ {0} /\ c * l.headRows \in Nat \ {0}
      BY SMTT(20), <1>1, <3>2
    <3> QED
      BY <3>3 DEF a, b, c, PerKv
  <2> QED
    BY <2>1 DEF QkvSize
<1>5. CASE F = "compact"
  <2>1. size = (PerKv(l) + 2) * d * n
    BY <1>5 DEF QkvFormat, PerKv
  <2> DEFINE k == (PerKv(l) + 2) * d
  <2>2. k \in Nat /\ size = n * k /\ k # 0 /\ d # 0
    <3>1. k \in Nat /\ size = k * n /\ (d = 0 => k = 0)
      BY <1>1, <1>3, <2>1
    <3> HIDE DEF k, d
    <3>2. k # 0
      BY <1>1, <1>4, <3>1
    <3> QED
      BY <1>1, <3>1, <3>2
  <2> HIDE DEF k, d
  <2>3. QkvOf(l, Deinterleaved(l, rows, d), d)
    BY <1>3, <2>2, DeinterleavedIs
  <2>4. TransformMcoreQkv(l, rows) = Deinterleaved(l, rows, d)
    BY <1>5 DEF TransformMcoreQkv, d
  <2> QED
    BY <1>3, <2>2, <2>3, <2>4
<1>6. CASE F = "replicated"
  <2>1. d # 0
    BY <1>1, <1>2, <1>3, <1>6
  <2>2. QkvOf(l, Deduplicated(l, rows), d)
    BY <1>2, <1>3, <1>6, <2>1, DeduplicatedIs
  <2>3. TransformMcoreQkv(l, rows) = Deduplicated(l, rows)
    BY <1>6 DEF TransformMcoreQkv
  <2> QED
    BY <1>3, <2>1, <2>2, <2>3
<1>7. CASE F = "qwen3"
  <2>1. size = 4 * l.hidden
    BY <1>7 DEF QkvFormat
  <2> DEFINE h == l.hidden \div n
  <2>2. h \in Nat \ {0} /\ l.hidden = h * n
    BY <1>1, <1>2, <1>7, Divides
  <2> HIDE DEF h
  <2>3. size = n * (4 * h) /\ 4 * h \in Nat \ {0}
    BY <1>1, <2>1, <2>2
  <2> DEFINE k == 4 * h
  <2> HIDE DEF k
  <2>4. QkvOf(l, Deinterleaved(l, rows, h), h)
    <3>1. k \in Nat \ {0} /\ Len(rows) = l.kvHeads * k
      BY <2>3 DEF k
    <3> QED
      BY <2>2, <3>1, DeinterleavedIs
  <2>5. TransformMcoreQkv(l, rows) = Deinterleaved(l, rows, h)
    BY <1>7 DEF TransformMcoreQkv, h
  <2> QED
    BY <2>2, <2>4, <2>5
<1>8. F \in {"compact", "replicated", "qwen3", "unsupported"}
  BY DEF QkvFormat
<1> QED
  BY <1>2, <1>5, <1>6, <1>7, <1>8

----------------------------------------------------------------------------
\* Packing for the inference ranks.

\* The keys, or the values, of the inference ranks: as many rows for each.
KvWidth(l, h) == IF l.infTp >= l.kvHeads THEN h ELSE (l.kvHeads \div l.infTp) * h

\* The number of inference ranks divides the heads, and is or has a multiple of the key-value heads.
LEMMA WorkerFacts ==
  ASSUME NEW l \in Layouts
  PROVE  /\ l.infTp \in Nat \ {0} /\ l.heads % l.infTp = 0
         /\ l.infTp >= l.kvHeads => l.infTp % l.kvHeads = 0
         /\ l.infTp < l.kvHeads => l.kvHeads % l.infTp = 0
<1> DEFINE a == l.infTp
           b == l.kvHeads
<1>1. a \in Nat \ {0} /\ b \in Nat \ {0}
  BY HybridModelAssumption, LayoutFacts DEF HybridModelAssumption
<1>2. (a % b = 0 \/ b % a = 0) /\ l.heads % a = 0
  BY McoreConverterAssumption DEF McoreConverterAssumption
<1> HIDE DEF a, b
<1>3. ASSUME a >= b PROVE a % b = 0
  <2> SUFFICES ASSUME b % a = 0 PROVE a % b = 0
    BY <1>2
  <2> QED
    BY <1>1, <1>3, Divides
<1>4. ASSUME a < b PROVE b % a = 0
  BY <1>1, <1>2, <1>4
<1> QED
  BY <1>1, <1>2, <1>3, <1>4 DEF a, b

\* The keys, and the values, are cut into one shard per inference rank.
LEMMA KvShardsAre ==
  ASSUME NEW l \in Layouts, NEW rows, Listed(rows), NEW h \in Nat \ {0}, Len(rows) = l.kvHeads * h
  PROVE  /\ KvWidth(l, h) \in Nat \ {0}
         /\ \E c \in Nat \ {0} : l.infTp * KvWidth(l, h) = l.tp * c
         /\ Listed(KvShards(l, rows)) /\ Len(KvShards(l, rows)) = l.infTp
         /\ \A i \in 1 .. l.infTp : Listed(KvShards(l, rows)[i]) /\ Len(KvShards(l, rows)[i]) = KvWidth(l, h)
<1> DEFINE t == l.infTp
           n == l.kvHeads
           g == n \div l.tp
           K == KvShards(l, rows)
           w == KvWidth(l, h)
<1>1. /\ t \in Nat \ {0} /\ n \in Nat \ {0} /\ l.tp \in Nat \ {0} /\ g \in Nat \ {0} /\ n = g * l.tp
      /\ t >= n => t % n = 0
      /\ t < n => n % t = 0
  BY WorkerFacts, LayoutFacts, HeadCounts
<1>2. CASE t >= n
  <2> DEFINE m == t \div n
             C == Chunk(rows, n)
             At(i) == C[(i - 1) \div m + 1]
  <2>1. m \in Nat \ {0} /\ t = m * n
    BY <1>1, <1>2, Divides
  <2>2. w = h /\ K = [i \in 1 .. t |-> At(i)]
    BY <1>2 DEF KvWidth, KvShards
  <2>3. Listed(C) /\ Len(C) = n /\ \A i \in 1 .. n : Listed(C[i]) /\ Len(C[i]) = h
    <3> HIDE DEF n
    <3> QED
      BY <1>1, ChunkEven DEF n
  <2> HIDE DEF t, n, m, C, g
  <2>4. ASSUME NEW i \in 1 .. t PROVE (i - 1) \div m + 1 \in 1 .. n
    <3> DEFINE x == i - 1
    <3>1. x \in Nat /\ x < m * n
      BY <1>1, <2>1
    <3> HIDE DEF x
    <3>2. PICK q \in Nat, u \in 0 .. m - 1 : q = x \div m /\ u = x % m /\ x = q * m + u
      BY <2>1, <3>1, Euclid
    <3>3. q < n
      <4> SUFFICES ASSUME n <= q PROVE FALSE
        BY <1>1, <3>2
      <4>1. n * m <= q * m /\ n * m = m * n
        BY SMTT(20), <1>1, <2>1, <3>2
      <4> QED
        BY <1>1, <2>1, <3>1, <3>2, <4>1
    <3> QED
      BY <1>1, <3>2, <3>3 DEF x
  <2>5. \A i \in 1 .. t : Listed(At(i)) /\ Len(At(i)) = h
    BY <2>3, <2>4
  <2> HIDE DEF K, At
  <2>6. t * h = l.tp * (m * g * h) /\ m * g * h \in Nat \ {0}
    <3> DEFINE a == l.tp
               b == m * g
    <3>1. b \in Nat \ {0} /\ a \in Nat \ {0} /\ t = b * a
      BY <1>1, <2>1
    <3> HIDE DEF a, b
    <3> QED
      BY <3>1 DEF a, b
  <2> QED
    BY <2>2, <2>5, <1>1, ListedFunction, <2>6 DEF t, K
<1>3. CASE t < n
  <2> DEFINE m == n \div t
             k == m * h
  <2>1. m \in Nat \ {0} /\ n = m * t
    BY <1>1, <1>3, Divides
  <2>2. w = k /\ K = Chunk(rows, t)
    BY <1>1, <1>3 DEF KvWidth, KvShards
  <2> HIDE DEF t, n, m, g
  <2>3. k \in Nat \ {0} /\ n * h = t * k
    BY <1>1, <2>1
  <2> HIDE DEF k
  <2>4. Listed(K) /\ Len(K) = t /\ \A i \in 1 .. t : Listed(K[i]) /\ Len(K[i]) = k
    <3>1. Len(rows) = t * k
      BY <2>3 DEF n
    <3> QED
      BY <1>1, <2>2, <2>3, <3>1, ChunkEven
  <2>5. t * k = l.tp * (g * h) /\ g * h \in Nat \ {0}
    BY <1>1, <2>3
  <2> QED
    BY <2>2, <2>3, <2>4, <2>5 DEF t, K
<1> QED
  BY <1>1, <1>2, <1>3

EachWorker(l, qkv) ==
  [i \in 1 .. l.infTp |-> Chunk(qkv.query, l.infTp)[i] \o KvShards(l, qkv.key)[i] \o KvShards(l, qkv.value)[i]]

\* What a training rank packs of linear_qkv is a slice of what is put together for all workers.
LEMMA ConvertQkvIs ==
  ASSUME NEW l \in Layouts, NEW r \in Ranks(l), NEW rows, Listed(rows), Len(rows) = QkvSize(l),
         NEW seqs, seqs = EachWorker(l, TransformMcoreQkv(l, rows))
  PROVE  /\ \E k \in Nat \ {0}, e \in Nat \ {0} :
              /\ \A i \in 1 .. l.infTp : Listed(seqs[i]) /\ Len(seqs[i]) = k
              /\ Listed(FlattenSeq(seqs)) /\ Len(FlattenSeq(seqs)) = l.infTp * k /\ l.infTp * k = l.tp * e
         /\ ConvertQkv(l, r, rows) = IF l.tp > 1 THEN Chunk(FlattenSeq(seqs), l.tp)[TpRank(l, r) + 1]
                                     ELSE FlattenSeq(seqs)
<1> DEFINE qkv == TransformMcoreQkv(l, rows)
           t == l.infTp
           query == Chunk(qkv.query, t)
           key == KvShards(l, qkv.key)
           value == KvShards(l, qkv.value)
           cut == [i \in 1 .. Min({Len(query), Len(key), Len(value)}) |-> query[i] \o key[i] \o value[i]]
           merged == FlattenSeq(seqs)
           d == l.tp
<1>1. PICK h \in Nat \ {0} : QkvOf(l, qkv, h)
  BY TransformIs
<1>2. /\ t \in Nat \ {0} /\ d \in Nat \ {0} /\ l.heads % t = 0 /\ TpRank(l, r) \in 0 .. d - 1
      /\ PerKv(l) \in Nat \ {0} /\ l.heads = PerKv(l) * l.kvHeads /\ l.heads \in Nat \ {0}
      /\ l.kvHeads \div d \in Nat \ {0} /\ l.kvHeads = (l.kvHeads \div d) * d
  BY WorkerFacts, LayoutFacts, HeadCounts, RankFacts
<1> DEFINE a == (l.heads \div t) * h
           w == KvWidth(l, h)
           n == l.heads
<1>3. a \in Nat \ {0} /\ n * h = t * a
  <2> DEFINE x == n \div t
  <2>1. x \in Nat \ {0} /\ n = x * t /\ t \in Nat \ {0}
    BY <1>2, Divides
  <2> HIDE DEF n, t, x
  <2> QED
    BY <2>1 DEF x, n, t
<1>4. Listed(query) /\ Len(query) = t /\ \A i \in 1 .. t : Listed(query[i]) /\ Len(query[i]) = a
  <2> DEFINE s == qkv.query
  <2>1. t \in Nat \ {0} /\ a \in Nat \ {0} /\ Listed(s) /\ Len(s) = t * a
    BY <1>2, <1>3, <1>1 DEF QkvOf
  <2> HIDE DEF s, t, a, qkv
  <2>2. Listed(Chunk(s, t)) /\ Len(Chunk(s, t)) = t /\ \A i \in 1 .. t : Listed(Chunk(s, t)[i]) /\ Len(Chunk(s, t)[i]) = a
    <3> HIDE DEF query, key, value, cut, merged, w, n, d
    <3> QED
      BY ONLY <2>1, ChunkEven
  <2> QED
    BY <2>2 DEF s
<1>5. /\ w \in Nat \ {0} /\ \E c \in Nat \ {0} : t * w = d * c
      /\ Listed(key) /\ Len(key) = t /\ \A i \in 1 .. t : Listed(key[i]) /\ Len(key[i]) = w
      /\ Listed(value) /\ Len(value) = t /\ \A i \in 1 .. t : Listed(value[i]) /\ Len(value[i]) = w
  <2> HIDE DEF qkv
  <2> QED
    BY <1>1, KvShardsAre DEF QkvOf
<1>6. Min({Len(query), Len(key), Len(value)}) = t
  <2>1. Min({t, t}) = t
    <3>1. t \in Int
      BY <1>2
    <3> HIDE DEF t
    <3> QED
      BY <3>1, LesserIs
  <2> QED
    BY <1>4, <1>5, <2>1
<1> DEFINE k == a + w + w
<1>7. seqs = [i \in 1 .. t |-> seqs[i]] /\ \A i \in 1 .. t : Listed(seqs[i]) /\ Len(seqs[i]) = k
  <2>1. ASSUME NEW i \in 1 .. t
        PROVE  Listed(query[i] \o key[i] \o value[i]) /\ Len(query[i] \o key[i] \o value[i]) = k
    <3> DEFINE x == query[i]
               y == key[i]
               z == value[i]
    <3>1. /\ Listed(x) /\ Len(x) = a /\ Listed(y) /\ Len(y) = w /\ Listed(z) /\ Len(z) = w
      BY <1>4, <1>5
    <3> HIDE DEF x, y, z
    <3>2. Listed((x \o y) \o z) /\ Len((x \o y) \o z) = (a + w) + w
      BY <3>1, ConcatListed
    <3> QED
      BY <3>2 DEF x, y, z
  <2> QED
    BY <2>1 DEF EachWorker
<1>8. Listed(merged) /\ Len(merged) = t * k
  <2>1. k \in Nat
    BY <1>3, <1>5
  <2> HIDE DEF k, t
  <2>2. /\ t \in Nat /\ k \in Nat /\ seqs = [i \in 1 .. t |-> seqs[i]]
        /\ \A i \in 1 .. t : Listed(seqs[i]) /\ Len(seqs[i]) = k
    BY <1>2, <1>7, <2>1 DEF t
  <2> QED
    BY ONLY <2>2, EachPart
<1>9. PICK c \in Nat \ {0} : t * w = d * c
  BY <1>5
<1> DEFINE g == l.kvHeads \div d
           m == PerKv(l)
           e == m * g * h + 2 * c
<1>10. t * k = d * e /\ e \in Nat \ {0}
  <2>1. n = m * (g * d) /\ g \in Nat \ {0} /\ m \in Nat \ {0}
    BY <1>2
  <2> HIDE DEF n, m, g, t, d, a, w
  <2>2. t * k = t * a + 2 * (t * w)
    BY <1>2, <1>3, <1>5
  <2>3. t * a = d * (m * g * h)
    <3> DEFINE b == m * g
    <3> HIDE DEF b
    <3> QED
      BY <1>3, <1>2, <2>1 DEF b
  <2> DEFINE u == m * g * h
  <2>4. u \in Nat \ {0}
    BY <2>1
  <2> HIDE DEF u
  <2>5. d * u + 2 * (d * c) = d * (u + 2 * c) /\ u + 2 * c \in Nat \ {0}
    BY <1>2, <2>4
  <2> QED
    BY <1>9, <2>2, <2>3, <2>5 DEF u
<1> HIDE DEF merged, k, e, t, d
<1>11. k \in Nat \ {0}
  BY <1>3, <1>5 DEF k
<1> QED
  BY <1>6, <1>10, <1>11, <1>7, <1>8 DEF merged, t, d, ConvertQkv, EachWorker

\* The fused tensor of the three is a sequence of rows.
LEMMA ConvertQkvListed ==
  ASSUME NEW l \in Layouts, NEW r \in Ranks(l), NEW rows, Listed(rows), Len(rows) = QkvSize(l)
  PROVE  Listed(ConvertQkv(l, r, rows))
<1> DEFINE merged == FlattenSeq(EachWorker(l, TransformMcoreQkv(l, rows)))
           d == l.tp
<1>1. PICK e \in Nat \ {0} : Listed(merged) /\ Len(merged) = d * e
  BY ConvertQkvIs
<1>2. ConvertQkv(l, r, rows) = IF d > 1 THEN Chunk(merged, d)[TpRank(l, r) + 1] ELSE merged
  BY ConvertQkvIs
<1>3. d \in Nat \ {0} /\ TpRank(l, r) + 1 \in 1 .. d
  BY SMTT(20), LayoutFacts, RankFacts
<1> HIDE DEF merged, d
<1>4. Listed(Chunk(merged, d)) /\ Len(Chunk(merged, d)) = d /\ \A i \in 1 .. d : Listed(Chunk(merged, d)[i])
  BY <1>1, <1>3, ChunkEven
<1> QED
  BY <1>1, <1>2, <1>3, <1>4

\* So are two down projections packed for the inference ranks.
LEMMA PackFusedListed ==
  ASSUME NEW q, NEW kv, Listed(q), Listed(kv), NEW n \in Nat \ {0}, NEW k \in Nat \ {0},
         Len(q) = n * k, Len(kv) = n * k
  PROVE  Listed(PackFused(q, kv, n))
<1> DEFINE A == Chunk(q, n)
           B == Chunk(kv, n)
           seqs == [i \in 1 .. n |-> A[i] \o B[i]]
<1>1. \A i \in 1 .. n : Listed(A[i]) /\ Listed(B[i])
  BY ChunkEven
<1>2. seqs = [i \in 1 .. n |-> seqs[i]] /\ \A i \in 1 .. n : seqs[i] = A[i] \o B[i]
  OBVIOUS
<1>3. PackFused(q, kv, n) = FlattenSeq(seqs)
  BY DEF PackFused
<1> HIDE DEF A, B, seqs
<1>4. \A i \in 1 .. n : Listed(seqs[i])
  BY <1>1, <1>2, ConcatListed
<1> QED
  BY <1>3, <1>2, ListedFunction, <1>4, FlattenListed

----------------------------------------------------------------------------
\* The metadata describe the weights.

\* So is what a training rank packs of them.
LEMMA FusedListed ==
  ASSUME NEW l \in Layouts, NEW r \in Ranks(l), NEW p \in ParamSet, p.kind = "linear_kv_down_proj", l.qLora
  PROVE  Listed(Fused(l, r, p))
<1> DEFINE q == TensorOf(l, r, DownOf(p))
           kv == TensorOf(l, r, p)
           n == l.infTp
<1>1. DownOf(p) \in ParamSet /\ DownOf(p).kind = "linear_q_down_proj"
  BY DEF ParamSet, DownOf, Kinds, None
<1>2. Listed(q) /\ Listed(kv)
  BY <1>1, WholeListed
<1>3. l.tp \in Nat \ {0} /\ n \in Nat \ {0} /\ l.width \in Nat
  BY LayoutFacts, WorkerFacts
<1>4. Fused(l, r, p) = IF l.tp = 1 THEN q \o kv ELSE PackFused(q, kv, n)
  BY DEF Fused
<1>5. CASE l.tp = 1
  <2> HIDE DEF q, kv
  <2> QED
    BY <1>2, <1>4, <1>5, ConcatListed
<1>6. CASE l.tp # 1
  <2>1. l.width \in Nat \ {0} /\ l.width % l.tp = 0 /\ l.width % n = 0
    BY <1>3, <1>6, McoreConverterAssumption DEF McoreConverterAssumption
  <2>2. PICK w \in Nat : l.width = w * l.tp
    BY <1>3, <2>1, Divides
  <2>3. PICK k \in Nat \ {0} : l.width = k * n
    BY <1>3, <2>1, Divides
  <2>4. Len(q) = l.width /\ Len(kv) = l.width
    BY <1>1, <2>2, WholeListed DEF DownProjections
  <2> HIDE DEF q, kv, n
  <2>5. Listed(PackFused(q, kv, n))
    BY <1>2, <1>3, <2>4, <2>3, PackFusedListed
  <2> QED
    BY <1>4, <1>6, <2>5
<1> QED
  BY <1>5, <1>6

\* Whatever a conversion yields is a tensor.
LEMMA EntriesListed ==
  ASSUME NEW l \in Layouts, NEW r \in Ranks(l), NEW p, ParamOK(l, PpRank(l, r), p), NEW layer,
         NEW e \in Made(l, r, p, layer)
  PROVE  Listed(e.rows)
<1> DEFINE rows == TensorOf(l, r, p)
           half == Len(rows) \div 2
           E == EntriesOf(l, r, p, layer)
           x == ExpertOf(l, r, p)
<1>1. p \in ParamSet /\ Listed(rows)
  BY WholeListed DEF ParamOK
<1>2. half \in Int
  <2> HIDE DEF rows
  <2> QED
    BY <1>1, ListedIs
<1>3. e \in Elements(E)
  BY DEF Made
<1>4. ASSUME NEW a, NEW b, NEW c, NEW d, NEW f, E = <<Entry(a, b, c, d, f)>>, Listed(f)
      PROVE  Listed(e.rows)
  <2> HIDE DEF E
  <2> QED
    BY <1>4, <1>3, SingleFacts DEF Entry
<1>5. CASE p.kind \in FirstKinds
  <2> DEFINE s == SubSeq(rows, 1, half)
             t == SubSeq(rows, half + 1, 2 * half)
             u == Entry(layer, x, FirstNames(p.kind)[1], "bf16", s)
             v == Entry(layer, x, FirstNames(p.kind)[2], "bf16", t)
  <2>1. Listed(s) /\ Listed(t)
    BY <1>2, SubSeqListed
  <2>2. E = <<u, v>>
    BY <1>5 DEF EntriesOf
  <2>3. u.rows = s /\ v.rows = t
    <3> HIDE DEF s, t, x
    <3> QED
      BY DEF Entry
  <2> HIDE DEF s, t, u, v, E
  <2> QED
    BY <2>1, <2>3, <1>3, <2>2 DEF Elements
<1>6. CASE (p.kind \in DownProjections /\ TpRank(l, r) # 0) \/ p.kind = "linear_q_down_proj"
  <2>1. E = <<>>
    BY <1>6 DEF EntriesOf, FirstKinds, DownProjections
  <2> HIDE DEF E
  <2> QED
    BY <1>3, <2>1, SingleFacts
<1>7. CASE p.kind = "linear_kv_down_proj" /\ TpRank(l, r) = 0 /\ l.qLora
  <2>1. E = <<Entry(layer, None, "fused_qkv_a_proj_with_mqa", "bf16", Fused(l, r, p))>>
    BY <1>7 DEF EntriesOf, FirstKinds, DownProjections
  <2> HIDE DEF E
  <2> QED
    BY <1>4, <2>1, <1>1, <1>7, FusedListed
<1>8. CASE p.kind = "linear_qkv"
  <2>1. E = <<Entry(layer, None, "query_key_value", "bf16", ConvertQkv(l, r, rows))>>
    BY <1>8 DEF EntriesOf, FirstKinds, DownProjections
  <2>2. Listed(ConvertQkv(l, r, rows))
    BY <1>1, <1>8, LayoutFacts, QkvTensor, ConvertQkvListed DEF ParamOK, None, OuterParam, OuterOf
  <2> HIDE DEF E, rows
  <2> QED
    BY <1>4, <2>1, <2>2
<1>9. CASE /\ p.kind \notin FirstKinds \cup {"linear_q_down_proj", "linear_qkv"}
            /\ ~(p.kind \in DownProjections /\ TpRank(l, r) # 0) /\ ~(p.kind = "linear_kv_down_proj" /\ l.qLora)
  <2>1. E = <<Entry(layer, x, PartName[p.kind], Dtype(p.kind), rows)>>
    BY <1>9 DEF EntriesOf
  <2> HIDE DEF E, rows, x
  <2> QED
    BY <1>1, <1>4, <2>1
<1> QED
  BY <1>5, <1>6, <1>7, <1>8, <1>9 DEF DownProjections

-----------------------------------------------------------------------------
\* What a worker takes out is what its rank has packed.
LEMMA UnpackedIs ==
  ASSUME NEW c, Listed(c), Unique(c), \A i \in 1 .. Len(c) : Listed(c[i].rows)
  PROVE  Unpacked(Packed(c)) = [n \in {Name(c[i]) : i \in 1 .. Len(c)} |->
                                  c[CHOOSE i \in 1 .. Len(c) : Name(c[i]) = n].rows]
<1> DEFINE N == Len(c)
           S == UNION {Elements(c[i].rows) : i \in 1 .. N}
           b == Packed(c)
           tensors == Reconstruct(b.groups, b.metadata)
           IndexOf(n) == CHOOSE i \in DOMAIN b.names : b.names[i] = n
<1>1. N \in Nat /\ DOMAIN c = 1 .. N
  BY ListedIs
<1>2. \A i \in 1 .. N : c[i].rows \in Seq(S)
  <2> SUFFICES ASSUME NEW i \in 1 .. N PROVE c[i].rows \in Seq(S)
    OBVIOUS
  <2>1. Elements(c[i].rows) \subseteq S
    OBVIOUS
  <2> HIDE DEF S
  <2> QED
    BY ListedIs, <2>1, SeqWider
<1> HIDE DEF S
<1>3. b.groups = Groups(c) /\ b.metadata = Metadata(c) /\ b.names = [i \in 1 .. N |-> Name(c[i])]
  BY <1>1 DEF Packed
<1>4. tensors = [i \in 1 .. N |-> c[i].rows]
  BY <1>1, <1>2, <1>3, PackingLossless
<1>5. Unpacked(b) = [n \in {b.names[i] : i \in DOMAIN b.names} |-> tensors[IndexOf(n)]]
  BY DEF Unpacked
<1> HIDE DEF N, b, tensors
<1>6. DOMAIN b.names = 1 .. N /\ \A i \in 1 .. N : b.names[i] = Name(c[i])
  BY <1>3
<1>7. ASSUME NEW n \in {Name(c[i]) : i \in 1 .. N}
      PROVE  tensors[IndexOf(n)] = c[CHOOSE i \in 1 .. N : Name(c[i]) = n].rows
  <2>1. IndexOf(n) = CHOOSE i \in 1 .. N : Name(c[i]) = n
    BY <1>6
  <2>2. PICK i \in 1 .. N : Name(c[i]) = n
    BY <1>7
  <2> HIDE DEF IndexOf
  <2> QED
    BY <1>4, <2>1, <2>2
<1> HIDE DEF IndexOf
<1> QED
  BY <1>5, <1>6, <1>7 DEF N, b

\* .. so that its names and sizes are those of the metadata.
LEMMA WeightsAre ==
  ASSUME layout \in Layouts, NEW r \in Ranks(layout), NEW c, Complete(r, c)
  PROVE  LET w == Unpacked(Packed(c))
             D == Due(r, Len(All(r)))
         IN DOMAIN w = {Name(e) : e \in D} /\ \A e \in D : w[Name(e)] = e.rows
<1> DEFINE w == Unpacked(Packed(c))
           N == Len(c)
           Names == {Name(c[i]) : i \in 1 .. N}
           At(n) == CHOOSE i \in 1 .. N : Name(c[i]) = n
           D == Due(r, Len(All(r)))
<1>1. c \in Seq(D) /\ Elements(c) = D /\ Unique(c)
  BY DEF Complete
<1>2. \A e \in D : Listed(e.rows)
  <2> SUFFICES ASSUME NEW e \in D PROVE Listed(e.rows)
    OBVIOUS
  <2>1. PICK i \in 1 .. Len(All(r)) : e \in OfModel(r, All(r)[i])
    BY DEF Due
  <2> QED
    BY <2>1, AllFacts, EntriesListed DEF OfModel
<1> HIDE DEF D
<1>3. Listed(c) /\ N \in Nat /\ \A i \in 1 .. N : c[i] \in D /\ Listed(c[i].rows)
  BY <1>1, <1>2 DEF Listed
<1>4. w = [n \in Names |-> c[At(n)].rows]
  BY <1>1, <1>3, UnpackedIs
<1>5. \A i \in 1 .. N : At(Name(c[i])) = i
  <2> SUFFICES ASSUME NEW i \in 1 .. N PROVE At(Name(c[i])) = i
    OBVIOUS
  <2>1. At(Name(c[i])) \in 1 .. N /\ Name(c[At(Name(c[i]))]) = Name(c[i])
    OBVIOUS
  <2> HIDE DEF At
  <2> QED
    BY <1>1, <2>1 DEF Unique
<1> HIDE DEF At, w
<1>6. ASSUME NEW e \in D PROVE w[Name(e)] = e.rows
  <2>1. PICK i \in 1 .. N : e = c[i]
    BY <1>1 DEF Elements
  <2> QED
    BY <1>4, <1>5, <2>1
<1>7. DOMAIN w = {Name(e) : e \in D}
  BY <1>1, <1>4 DEF Elements
<1> QED
  BY <1>6, <1>7 DEF w, D

\* The weights a worker takes out of the buffers are what its training rank described.
LEMMA WeightsDescribed ==
  ASSUME layout \in Layouts, NEW r \in Ranks(layout), NEW c, Complete(r, c), NEW w, w = Unpacked(Packed(c))
  PROVE  {[name |-> n, size |-> Len(w[n])] : n \in DOMAIN w}
           = {[name |-> m.name, size |-> m.size] : m \in Described(Due(r, Len(All(r))))}
<1> DEFINE D == Due(r, Len(All(r)))
           Both(e) == [name |-> Name(e), size |-> Len(e.rows)]
           Tell(e) == [name |-> Name(e), size |-> Len(e.rows), dtype |-> e.dtype]
           Size1(n) == [name |-> n, size |-> Len(w[n])]
           Cut(m) == [name |-> m.name, size |-> m.size]
<1>1. DOMAIN w = {Name(e) : e \in D} /\ \A e \in D : w[Name(e)] = e.rows
  BY WeightsAre
<1> HIDE DEF D
<1>2. \A e \in D : Size1(Name(e)) = Both(e)
  BY <1>1
<1>3. \A e : Cut(Tell(e)) = Both(e)
  OBVIOUS
<1>4. Described(D) = {Tell(e) : e \in D}
  BY DEF Described
<1> HIDE DEF Size1, Both, Tell, Cut
<1> QED
  BY <1>1, <1>2, <1>3, <1>4 DEF Size1, Cut, D

\* What is handed over is what the metadata describe.
LEMMA TruthTold == Core /\ Truth => MetaTruthful
<1> SUFFICES ASSUME Core, Truth, NEW r \in Ranks(layout)
             PROVE  /\ phase[r] # "failed"
                    /\ Finished(r, "convert") =>
                         {[name |-> Name(e), size |-> Len(e.rows), dtype |-> e.dtype] :
                            e \in {converted[r][i] : i \in DOMAIN converted[r]}} = meta[r]
                    /\ phase[r] = "done" =>
                         {[name |-> n, size |-> Len(weights[r][n])] : n \in DOMAIN weights[r]}
                           = {[name |-> m.name, size |-> m.size] : m \in meta[r]}
  BY DEF MetaTruthful
<1>1. layout \in Layouts /\ phase[r] # "failed"
  BY DEF Core, Shapes
<1>2. ASSUME Finished(r, "convert")
      PROVE  {[name |-> Name(e), size |-> Len(e.rows), dtype |-> e.dtype] :
                e \in {converted[r][i] : i \in DOMAIN converted[r]}} = meta[r]
  <2>1. {converted[r][i] : i \in DOMAIN converted[r]} = Due(r, Len(All(r)))
    BY <1>2, FinishedComplete DEF Elements, Complete
  <2> QED
    BY <1>2, <2>1 DEF Described, Truth, MetaIsDue, Finished
<1>3. ASSUME phase[r] = "done"
      PROVE  {[name |-> n, size |-> Len(weights[r][n])] : n \in DOMAIN weights[r]}
               = {[name |-> m.name, size |-> m.size] : m \in meta[r]}
  <2>1. PICK c : Complete(r, c) /\ weights[r] = Unpacked(Packed(c))
    BY <1>3 DEF Truth, HandedOver
  <2> QED
    BY <1>1, <2>1, <1>3, WeightsDescribed DEF Truth, MetaIsDue
<1> QED
  BY <1>1, <1>2, <1>3

\* The metadata that the ranks share describe exactly the tensors they then convert: name,
\* size and type, in any layout (weights_converter.py, nccl_writer.py).
THEOREM MetadataTold == Spec => []MetaTruthful
BY TruthInvariant, TruthTold, PTL

----------------------------------------------------------------------------
\* Cutting and joining.

\* Two adjacent stretches of a sequence join.
LEMMA SubSeqJoin ==
  ASSUME NEW s, Listed(s), NEW a \in Nat, NEW b \in Nat, NEW c \in Nat, a <= b, b <= c, c <= Len(s)
  PROVE  SubSeq(s, a + 1, b) \o SubSeq(s, b + 1, c) = SubSeq(s, a + 1, c)
<1> DEFINE S == Elements(s)
           x == SubSeq(s, a + 1, b)
           y == SubSeq(s, b + 1, c)
           z == SubSeq(s, a + 1, c)
<1>1. s \in Seq(S) /\ Len(s) \in Nat
  BY ListedIs
<1> HIDE DEF S
<1>2. x \in Seq(S) /\ y \in Seq(S) /\ z \in Seq(S) /\ Len(x) = b - a /\ Len(y) = c - b /\ Len(z) = c - a
  BY <1>1
<1>3. /\ \A i \in 1 .. Len(x) : z[i] = x[i]
      /\ \A i \in 1 .. Len(y) : z[i + Len(x)] = y[i]
  <2>1. \A i \in 1 .. b - a : x[i] = s[a + i]
    BY <1>1
  <2>2. \A i \in 1 .. c - b : y[i] = s[b + i]
    BY <1>1
  <2>3. \A i \in 1 .. c - a : z[i] = s[a + i]
    BY <1>1
  <2> HIDE DEF x, y, z
  <2>4. ASSUME NEW i \in 1 .. Len(y) PROVE z[i + Len(x)] = y[i]
    <3>1. i + Len(x) \in 1 .. c - a /\ a + (i + Len(x)) = b + i /\ i \in 1 .. c - b
      BY <1>2
    <3> QED
      BY <3>1, <2>2, <2>3
  <2>5. ASSUME NEW i \in 1 .. Len(x) PROVE z[i] = x[i]
    <3>1. i \in 1 .. c - a /\ i \in 1 .. b - a
      BY <1>2
    <3> QED
      BY <3>1, <2>1, <2>3
  <2> QED
    BY <2>4, <2>5
<1> HIDE DEF x, y, z
<1>4. x \o y = z
  <2>1. Len(z) = Len(x) + Len(y)
    BY <1>2
  <2> QED
    BY <1>2, <1>3, <2>1, ConcatIs
<1> QED
  BY <1>4 DEF x, y, z

\* Stretches of s between n + 1 bounds; n stretches of w rows each from a on; n sequences
\* of w rows each; rows of c sequences.
CutAt(s, n, b, seqs) ==
  /\ \A i \in 0 .. n : b[i] \in 0 .. Len(s)
  /\ \A i \in 1 .. n : b[i - 1] <= b[i]
  /\ seqs = [i \in 1 .. n |-> SubSeq(s, b[i - 1] + 1, b[i])]
EvenCut(s, n, w, a, seqs) ==
  a + n * w <= Len(s) /\ seqs = [i \in 1 .. n |-> SubSeq(s, a + (i - 1) * w + 1, a + i * w)]
Blocks(seqs, n, w) ==
  seqs = [i \in 1 .. n |-> seqs[i]] /\ \A i \in 1 .. n : Listed(seqs[i]) /\ Len(seqs[i]) = w
Nested(outer, seqs, a, c) ==
  outer = [i \in 1 .. a |-> FlattenSeq([j \in 1 .. c |-> seqs[(i - 1) * c + j]])]

\* A sequence cut at bounds, and flattened, is what lies between the first and the last bound.
LEMMA Cuts ==
  ASSUME NEW s, Listed(s), NEW n \in Nat, NEW b, NEW seqs, CutAt(s, n, b, seqs)
  PROVE  FlattenSeq(seqs) = SubSeq(s, b[0] + 1, b[n])
<1> DEFINE S == Elements(s)
<1>1. s \in Seq(S) /\ Len(s) \in Nat
  BY ListedIs
<1> HIDE DEF S
<1>2. \A i \in 1 .. n : seqs[i] = SubSeq(s, b[i - 1] + 1, b[i])
  BY DEF CutAt
<1>3. /\ \A i \in 0 .. n : b[i] \in 0 .. Len(s)
      /\ \A i \in 1 .. n : b[i - 1] <= b[i]
  BY DEF CutAt
<1>4. \A i \in 1 .. n : seqs[i] \in Seq(S)
  <2> TAKE i \in 1 .. n
  <2>1. SubSeq(s, b[i - 1] + 1, b[i]) \in Seq(S)
    BY <1>1, <1>3
  <2> QED
    BY <1>2, <2>1
<1>5. seqs \in Seq(Seq(S)) /\ Len(seqs) = n
  <2>1. seqs = [i \in 1 .. n |-> seqs[i]]
    BY <1>2 DEF CutAt
  <2> QED
    BY <1>4, <2>1, PartsType
<1>6. PICK f : /\ f[0] = <<>>
               /\ \A i \in 1 .. Len(seqs) : f[i] = f[i - 1] \o seqs[i]
               /\ \A i \in 0 .. Len(seqs) : f[i] \in Seq(S)
               /\ FlattenSeq(seqs) = f[Len(seqs)]
  BY <1>5, FlattenPrefixes
<1> DEFINE T == {k \in Nat : k <= n => f[k] = SubSeq(s, b[0] + 1, b[k]) /\ b[0] <= b[k]}
<1>7. 0 \in T
  BY <1>6, <1>3, <1>1
<1>8. \A k \in Nat : k \in T => k + 1 \in T
  <2> SUFFICES ASSUME NEW k \in Nat, k \in T, k + 1 <= n PROVE k + 1 \in T
    OBVIOUS
  <2>1. f[k] = SubSeq(s, b[0] + 1, b[k]) /\ b[0] <= b[k]
    OBVIOUS
  <2>2. k + 1 \in 1 .. n /\ (k + 1) - 1 = k /\ k \in 0 .. n /\ 0 \in 0 .. n /\ k + 1 \in 0 .. n
    OBVIOUS
  <2>3. b[0] \in Nat /\ b[k] \in Nat /\ b[k + 1] \in Nat /\ b[k] <= b[k + 1] /\ b[k + 1] <= Len(s)
    BY <1>1, <1>3, <2>2
  <2>4. f[k + 1] = SubSeq(s, b[0] + 1, b[k + 1])
    <3>1. SubSeq(s, b[0] + 1, b[k]) \o SubSeq(s, b[k] + 1, b[k + 1]) = SubSeq(s, b[0] + 1, b[k + 1])
      BY <2>1, <2>3, SubSeqJoin
    <3> QED
      BY <2>1, <1>2, <1>5, <1>6, <2>2, <3>1
  <2> QED
    BY <2>4, <2>1, <2>3
<1> HIDE DEF T
<1>9. n \in T
  BY <1>7, <1>8, Induction
<1> QED
  BY <1>9, <1>5, <1>6 DEF T

\* So is one cut into stretches of one length.
LEMMA EvenCuts ==
  ASSUME NEW s, Listed(s), NEW n \in Nat, NEW w \in Nat, NEW a \in Nat,
         NEW seqs, EvenCut(s, n, w, a, seqs)
  PROVE  FlattenSeq(seqs) = SubSeq(s, a + 1, a + n * w)
<1> DEFINE b == [i \in 0 .. n |-> a + i * w]
<1>1. ASSUME NEW i \in 0 .. n PROVE a + i * w \in 0 .. Len(s)
  <2>1. i * w <= n * w /\ i * w \in Nat /\ n * w \in Nat
    <3>1. CASE i = n
      BY <3>1
    <3>2. CASE i # n /\ w # 0
      BY <3>2, MultipleLess
    <3>3. CASE w = 0
      BY <3>3
    <3> QED
      BY <3>1, <3>2, <3>3
  <2> DEFINE x == i * w
             y == n * w
  <2> HIDE DEF x, y
  <2> QED
    BY ListedIs, <2>1 DEF x, EvenCut
<1>2. \A i \in 0 .. n : b[i] = a + i * w /\ b[i] \in 0 .. Len(s)
  BY <1>1
<1>3. ASSUME NEW i \in 1 .. n PROVE b[i - 1] <= b[i] /\ b[i - 1] = a + (i - 1) * w /\ b[i] = a + i * w
  BY <1>2
<1> HIDE DEF b
<1>4. FlattenSeq(seqs) = SubSeq(s, b[0] + 1, b[n])
  BY <1>2, <1>3, Cuts DEF CutAt, EvenCut
<1>5. b[0] = a /\ b[n] = a + n * w
  BY <1>2
<1> QED
  BY <1>4, <1>5

\* The stretch from the first to the last is the sequence.
LEMMA WholeSubSeq ==
  ASSUME NEW s, Listed(s)
  PROVE  SubSeq(s, 1, Len(s)) = s
BY ListedIs

\* The slices of a tensor, one after the other, are the tensor.
LEMMA SliceCuts ==
  ASSUME NEW s, Listed(s), NEW n \in Nat \ {0}
  PROVE  FlattenSeq([i \in 1 .. n |-> Slice(s, i - 1, n)]) = s
<1> DEFINE m == Len(s)
           b == [i \in 0 .. n |-> (i * m) \div n]
           seqs == [i \in 1 .. n |-> Slice(s, i - 1, n)]
<1>1. m \in Nat
  BY ListedIs
<1> HIDE DEF m
<1>2. ASSUME NEW i \in 0 .. n, NEW j \in 0 .. n, i <= j
      PROVE  (i * m) \div n <= (j * m) \div n /\ (i * m) \div n \in Nat
  <2>1. i * m \in Nat /\ j * m \in Nat /\ i * m <= j * m
    <3>1. CASE i = j
      BY <1>1, <3>1
    <3>2. CASE i # j /\ m # 0
      BY <1>1, <3>2, <1>2, MultipleLess
    <3>3. CASE m = 0
      BY <3>3
    <3> QED
      BY <3>1, <3>2, <3>3
  <2> QED
    BY <2>1, QuotientOrder, Euclid
<1>3. (0 * m) \div n = 0 /\ (n * m) \div n = m
  BY <1>1, EuclidUnique
<1>4. \A i \in 0 .. n : b[i] = (i * m) \div n
  OBVIOUS
<1>5. \A i \in 0 .. n : b[i] \in 0 .. m
  <2> TAKE i \in 0 .. n
  <2> QED
    BY <1>3, <1>4, <1>2, <1>1
<1>6. \A i \in 1 .. n : b[i - 1] <= b[i] /\ seqs[i] = SubSeq(s, b[i - 1] + 1, b[i])
  <2> TAKE i \in 1 .. n
  <2>1. i - 1 \in 0 .. n /\ i \in 0 .. n /\ (i - 1) + 1 = i /\ i - 1 <= i
    OBVIOUS
  <2> QED
    BY <2>1, <1>4, <1>2 DEF Slice, m
<1> HIDE DEF b
<1>7. seqs = [i \in 1 .. n |-> SubSeq(s, b[i - 1] + 1, b[i])]
  BY <1>6
<1> HIDE DEF seqs
<1>8. FlattenSeq(seqs) = SubSeq(s, b[0] + 1, b[n])
  BY <1>5, <1>6, <1>7, Cuts DEF CutAt, m
<1>9. FlattenSeq(seqs) = s
  BY <1>8, <1>3, <1>4, WholeSubSeq DEF m
<1> QED
  BY <1>9 DEF seqs

\* A block lies in its flattening where its number says.
LEMMA BlockOf ==
  ASSUME NEW n \in Nat, NEW w \in Nat, NEW seqs, Blocks(seqs, n, w),
         NEW k \in 1 .. n
  PROVE  SubSeq(FlattenSeq(seqs), (k - 1) * w + 1, k * w) = seqs[k]
<1> DEFINE S == UNION {Elements(seqs[i]) : i \in 1 .. n}
           p == SubSeq(seqs, 1, k - 1)
<1>1. \A i \in 1 .. n : seqs[i] \in Seq(S)
  <2> TAKE i \in 1 .. n
  <2>1. seqs[i] \in Seq(Elements(seqs[i])) /\ Elements(seqs[i]) \subseteq S
    BY ListedIs DEF Blocks
  <2> HIDE DEF S
  <2> QED
    BY <2>1, SeqWider
<1> HIDE DEF S
<1>2. seqs \in Seq(Seq(S)) /\ Len(seqs) = n
  BY <1>1, PartsType DEF Blocks
<1>3. p \in Seq(Seq(S)) /\ Len(p) = k - 1 /\ \A i \in 1 .. k - 1 : p[i] = seqs[i]
  BY <1>2
<1>4. Len(FlattenSeq(p)) = (k - 1) * w
  <2>1. \A i \in 1 .. Len(p) : Len(p[i]) = w
    BY <1>3 DEF Blocks
  <2> HIDE DEF p
  <2> QED
    BY <1>3, <2>1, FlattenLength
<1>5. (k - 1) * w + w = k * w /\ Len(seqs[k]) = w
  BY DEF Blocks
<1> QED
  BY <1>2, <1>4, FlattenPlace, <1>5

\* Blocks flattened in rows, and the rows flattened, are the blocks flattened.
LEMMA NestedFlatten ==
  ASSUME NEW a \in Nat, NEW c \in Nat, NEW w \in Nat, NEW seqs, Blocks(seqs, a * c, w),
         NEW outer, Nested(outer, seqs, a, c)
  PROVE  FlattenSeq(outer) = FlattenSeq(seqs)
<1> DEFINE s == FlattenSeq(seqs)
<1>1. a * c \in Nat /\ c * w \in Nat /\ (a * c) * w = a * (c * w)
  OBVIOUS
<1>2. Listed(s) /\ Len(s) = (a * c) * w
  BY <1>1, EachPart DEF Blocks
<1>3. \A k \in 1 .. a * c : SubSeq(s, (k - 1) * w + 1, k * w) = seqs[k]
  BY <1>1, BlockOf
<1> HIDE DEF s
<1>4. ASSUME NEW i \in 1 .. a
      PROVE  outer[i] = SubSeq(s, 0 + (i - 1) * (c * w) + 1, 0 + i * (c * w))
  <2> DEFINE e == (i - 1) * (c * w)
             inner == [j \in 1 .. c |-> seqs[(i - 1) * c + j]]
  <2>1. e \in Nat /\ i * (c * w) = e + c * w /\ e = ((i - 1) * c) * w
    <3> DEFINE x == i - 1
               y == c * w
    <3> HIDE DEF x, y
    <3> QED
      BY <1>1 DEF x, y
  <2>2. e + c * w <= Len(s)
    <3>1. CASE c * w = 0
      BY <3>1, <1>1, <1>2
    <3>2. CASE c * w # 0
      BY <1>1, <1>2, <3>2, MultipleLess
    <3> QED
      BY <3>1, <3>2
  <2>3. ASSUME NEW j \in 1 .. c
        PROVE  seqs[(i - 1) * c + j] = SubSeq(s, e + (j - 1) * w + 1, e + j * w)
    <3> DEFINE k == (i - 1) * c + j
    <3>1. k \in 1 .. a * c
      BY PlaceLess
    <3> HIDE DEF k, e
    <3> QED
      BY <2>1, <1>3, <3>1 DEF k
  <2> HIDE DEF e
  <2>4. inner = [j \in 1 .. c |-> SubSeq(s, e + (j - 1) * w + 1, e + j * w)]
    BY <2>3
  <2> HIDE DEF inner
  <2>5. FlattenSeq(inner) = SubSeq(s, e + 1, e + c * w)
    <3>1. EvenCut(s, c, w, e, inner)
      BY <2>2, <2>4 DEF EvenCut
    <3> QED
      BY <1>2, <2>1, <3>1, EvenCuts
  <2>6. 0 + e = e /\ 0 + i * (c * w) = e + c * w
    BY <2>1
  <2> QED
    BY <2>5, <2>6 DEF e, inner, Nested
<1>5. FlattenSeq(outer) = SubSeq(s, 0 + 1, 0 + a * (c * w))
  <2>1. 0 + a * (c * w) <= Len(s) /\ 0 \in Nat
    BY <1>1, <1>2
  <2> QED
    <3>1. EvenCut(s, a, c * w, 0, outer)
      BY <1>4, <2>1 DEF EvenCut, Nested
    <3> QED
      BY <1>1, <1>2, <3>1, EvenCuts
<1> QED
  BY <1>5, <1>1, <1>2, WholeSubSeq DEF s

----------------------------------------------------------------------------
\* Chunks, slices and heads.

\* The slice of a size that divides evenly.
LEMMA EvenSlice ==
  ASSUME NEW s, NEW n \in Nat \ {0}, NEW k \in Nat, Len(s) = n * k, NEW i \in Nat
  PROVE  Slice(s, i, n) = SubSeq(s, i * k + 1, (i + 1) * k)
<1> QED
  BY EuclidUnique DEF Slice

\* torch.chunk cuts a size that divides evenly into the slices.
LEMMA ChunkIs ==
  ASSUME NEW rows, Listed(rows), NEW n \in Nat \ {0}, NEW k \in Nat \ {0}, Len(rows) = n * k
  PROVE  /\ Chunk(rows, n) = [i \in 1 .. n |-> SubSeq(rows, (i - 1) * k + 1, i * k)]
         /\ \A i \in 1 .. n : Chunk(rows, n)[i] = Slice(rows, i - 1, n)
         /\ FlattenSeq(Chunk(rows, n)) = rows
<1> DEFINE L == Len(rows)
<1>1. n * k \in Nat \ {0} /\ n * k + n - 1 = k * n + (n - 1) /\ n - 1 \in 0 .. n - 1
  OBVIOUS
<1>2. (L + n - 1) \div n = k
  BY <1>1, EuclidUnique
<1>3. (L + k - 1) \div k = n
  BY <1>1, EuclidUnique
<1>4. ASSUME NEW i \in 1 .. n PROVE Min({i * k, L}) = i * k
  <2>1. i * k \in Int /\ i * k <= n * k
    <3>1. CASE i = n
      BY <1>1, <3>1
    <3>2. CASE i # n
      BY <3>2, MultipleLess
    <3> QED
      BY <3>1, <3>2
  <2> DEFINE a == i * k
  <2>2. a \in Int /\ L \in Int /\ a <= L
    BY <1>1, <2>1
  <2> HIDE DEF a, L
  <2>3. Min({a, L}) \in {a, L} /\ Min({a, L}) <= a
    BY <2>2, LesserIs
  <2> QED
    BY <2>2, <2>3 DEF a
<1>5. Chunk(rows, n) = [i \in 1 .. n |-> SubSeq(rows, (i - 1) * k + 1, i * k)]
  BY <1>2, <1>3, <1>4 DEF Chunk
<1> HIDE DEF L
<1>6. ASSUME NEW i \in 1 .. n PROVE Chunk(rows, n)[i] = Slice(rows, i - 1, n)
  <2> DEFINE j == i - 1
  <2>1. j \in Nat /\ j + 1 = i
    OBVIOUS
  <2> HIDE DEF j
  <2>2. Slice(rows, j, n) = SubSeq(rows, j * k + 1, (j + 1) * k)
    BY <2>1, EvenSlice
  <2> QED
    BY <1>5, <2>1, <2>2 DEF j
<1>7. FlattenSeq(Chunk(rows, n)) = rows
  <2> DEFINE C == Chunk(rows, n)
             S == [i \in 1 .. n |-> Slice(rows, i - 1, n)]
  <2>1. C = S
    BY <1>5, <1>6
  <2>2. FlattenSeq(S) = rows
    BY SliceCuts
  <2> HIDE DEF C, S
  <2> QED
    BY <2>1, <2>2 DEF C
<1> QED
  BY <1>5, <1>6, <1>7

\* The parts of three sequences in one.
LEMMA ThreeParts ==
  ASSUME NEW S, NEW x, NEW y, NEW z, x \in Seq(S), y \in Seq(S), z \in Seq(S)
  PROVE  /\ SubSeq(x \o y \o z, 1, Len(x)) = x
         /\ SubSeq(x \o y \o z, Len(x) + 1, Len(x) + Len(y)) = y
         /\ SubSeq(x \o y \o z, Len(x) + Len(y) + 1, Len(x) + Len(y) + Len(z)) = z
<1> DEFINE seqs == <<x, y, z>>
<1>1. seqs \in Seq(Seq(S)) /\ Len(seqs) = 3 /\ seqs[1] = x /\ seqs[2] = y /\ seqs[3] = z
  OBVIOUS
<1> DEFINE t == x \o y \o z
           a == Len(x)
           b == Len(y)
           c == Len(z)
<1>2. a \in Nat /\ b \in Nat /\ c \in Nat /\ t \in Seq(S) /\ Len(t) = a + b + c
  OBVIOUS
<1>3. /\ \A i \in 1 .. a : t[i] = x[i]
      /\ \A i \in 1 .. b : t[i + a] = y[i]
      /\ \A i \in 1 .. c : t[i + (a + b)] = z[i]
  OBVIOUS
<1>4. SubSeq(t, 1, a) = x
  BY <1>2, <1>3
<1> HIDE DEF t
<1>5. SubSeq(t, a + 1, a + b) = y
  <2> DEFINE u == SubSeq(t, a + 1, a + b)
  <2>1. u \in Seq(S) /\ Len(u) = b
    BY <1>2
  <2>2. ASSUME NEW i \in 1 .. b PROVE u[i] = y[i]
    <3>1. u[i] = t[a + i] /\ a + i = i + a
      BY <1>2
    <3> QED
      BY <1>3, <3>1
  <2> HIDE DEF u
  <2>3. u = y
    BY SMTT(20), <2>1, <2>2
  <2> QED
    BY <2>3 DEF u
<1>6. SubSeq(t, a + b + 1, a + b + c) = z
  <2> DEFINE u == SubSeq(t, a + b + 1, a + b + c)
  <2>1. u \in Seq(S) /\ Len(u) = c
    BY <1>2
  <2>2. ASSUME NEW i \in 1 .. c PROVE u[i] = z[i]
    <3>1. u[i] = t[a + b + i] /\ a + b + i = i + (a + b)
      BY <1>2
    <3> QED
      BY <1>3, <3>1
  <2> HIDE DEF u
  <2>3. u = z
    BY <2>1, <2>2
  <2> QED
    BY <2>3 DEF u
<1> QED
  BY <1>4, <1>5, <1>6 DEF t

\* The sizes of the heads.
LEMMA HeadFacts ==
  ASSUME NEW l \in Layouts, NEW layer \in Int
  PROVE  /\ PerKv(l) \in Nat \ {0} /\ l.headRows \in Nat \ {0} /\ l.kvHeads \in Nat \ {0} /\ l.heads \in Nat \ {0}
         /\ l.heads = PerKv(l) * l.kvHeads
         /\ Full(l, layer, None, "q") \in Seq(RowSet) /\ Len(Full(l, layer, None, "q")) = l.heads * l.headRows
         /\ \A part \in {"k", "v"} : /\ Full(l, layer, None, part) \in Seq(RowSet)
                                     /\ Len(Full(l, layer, None, part)) = l.kvHeads * l.headRows
<1> QED
  BY FullType, LayoutFacts, HeadCounts DEF Size, None, PartNames

\* The heads of the keys, and of the values, make up the tensor.
LEMMA HeadsTogether ==
  ASSUME NEW l \in Layouts, NEW layer \in Int, NEW part \in {"k", "v"}
  PROVE  FlattenSeq([g \in 1 .. l.kvHeads |-> HeadOf(l, layer, part, g - 1)]) = Full(l, layer, None, part)
<1> DEFINE s == Full(l, layer, None, part)
           n == l.kvHeads
           w == l.headRows
           seqs == [g \in 1 .. n |-> HeadOf(l, layer, part, g - 1)]
<1>1. n \in Nat /\ w \in Nat /\ s \in Seq(RowSet) /\ Len(s) = n * w
  BY HeadFacts
<1>2. seqs = [g \in 1 .. n |-> SubSeq(s, 0 + (g - 1) * w + 1, 0 + g * w)]
  <2>1. ASSUME NEW g \in 1 .. n
        PROVE  HeadOf(l, layer, part, g - 1) = SubSeq(s, 0 + (g - 1) * w + 1, 0 + g * w)
    <3>1. (g - 1) + 1 = g /\ 0 + (g - 1) * w = (g - 1) * w /\ 0 + g * w = g * w
      BY <1>1
    <3> QED
      BY <3>1 DEF HeadOf
  <2> QED
    BY <2>1
<1> HIDE DEF s, n, w, seqs
<1>3. Listed(s) /\ n * w \in Nat
  BY <1>1 DEF Listed
<1>4. EvenCut(s, n, w, 0, seqs)
  BY <1>1, <1>2, <1>3 DEF EvenCut
<1> QED
  BY <1>1, <1>3, <1>4, EvenCuts, WholeSubSeq DEF s, n, seqs

\* The query heads of a key-value head are a stretch of the queries.
LEMMA QueriesTogether ==
  ASSUME NEW l \in Layouts, NEW layer \in Int, NEW g \in Nat, g < l.kvHeads
  PROVE  FlattenSeq([h \in 1 .. PerKv(l) |-> HeadOf(l, layer, "q", g * PerKv(l) + h - 1)])
           = SubSeq(Full(l, layer, None, "q"), g * (PerKv(l) * l.headRows) + 1, (g + 1) * (PerKv(l) * l.headRows))
<1> DEFINE s == Full(l, layer, None, "q")
           n == PerKv(l)
           w == l.headRows
           K == l.kvHeads
           a == g * (n * w)
           seqs == [h \in 1 .. n |-> HeadOf(l, layer, "q", g * n + h - 1)]
<1>1. n \in Nat \ {0} /\ w \in Nat \ {0} /\ s \in Seq(RowSet) /\ Len(s) = (n * K) * w /\ K \in Nat /\ g < K
  BY HeadFacts
<1>2. ASSUME NEW h \in 1 .. n
      PROVE  HeadOf(l, layer, "q", g * n + h - 1) = SubSeq(s, a + (h - 1) * w + 1, a + h * w)
  <2>1. (g * n + h - 1) * w = a + (h - 1) * w /\ ((g * n + h - 1) + 1) * w = a + h * w
    <3> HIDE DEF n, w
    <3> DEFINE x == g * n
    <3> HIDE DEF x
    <3> QED
      BY <1>1 DEF x
  <2> QED
    BY <2>1 DEF HeadOf
<1>3. seqs = [h \in 1 .. n |-> SubSeq(s, a + (h - 1) * w + 1, a + h * w)]
  BY <1>2
<1> HIDE DEF s, n, w, seqs, K
<1>4. a \in Nat /\ a + n * w = (g + 1) * (n * w) /\ a + n * w <= Len(s)
  <2> DEFINE x == n * w
  <2> HIDE DEF x
  <2> QED
    BY <1>1, MultipleLess DEF x
<1>5. EvenCut(s, n, w, a, seqs)
  BY <1>3, <1>4 DEF EvenCut
<1> HIDE DEF a
<1>6. FlattenSeq(seqs) = SubSeq(s, a + 1, a + n * w)
  BY <1>1, <1>4, <1>5, EvenCuts DEF Listed
<1> QED
  BY <1>4, <1>6 DEF s, n, w, seqs, a

----------------------------------------------------------------------------
\* linear_qkv is all groups.

\* The queries, keys and values of a layer.
QkvFull(l, layer) ==
  [query |-> Full(l, layer, None, "q"), key |-> Full(l, layer, None, "k"), value |-> Full(l, layer, None, "v")]

\* The queries, the key and the value in a group of linear_qkv.
LEMMA GroupPieces ==
  ASSUME NEW l \in Layouts, NEW layer \in Int, NEW g \in Nat, g < l.kvHeads
  PROVE  LET t == QkvGroup(l, layer, g)
             d == l.headRows
             q == d * PerKv(l)
         IN /\ SubSeq(t, 1, q) = SubSeq(Full(l, layer, None, "q"), g * q + 1, (g + 1) * q)
            /\ SubSeq(t, q + 1, q + d) = HeadOf(l, layer, "k", g)
            /\ SubSeq(t, q + d + 1, q + 2 * d) = HeadOf(l, layer, "v", g)
<1> DEFINE n == PerKv(l)
           d == l.headRows
           q == d * n
           x == FlattenSeq([h \in 1 .. n |-> HeadOf(l, layer, "q", g * n + h - 1)])
           y == HeadOf(l, layer, "k", g)
           z == HeadOf(l, layer, "v", g)
           s == Full(l, layer, None, "q")
<1>1. n \in Nat \ {0} /\ d \in Nat \ {0} /\ s \in Seq(RowSet) /\ Len(s) = l.heads * d /\ l.heads = n * l.kvHeads
      /\ l.kvHeads \in Nat \ {0}
  BY HeadFacts
<1>2. x = SubSeq(s, g * (n * d) + 1, (g + 1) * (n * d))
  BY QueriesTogether
<1>3. q \in Nat /\ n * d = q
  BY <1>1
<1>4. g * q \in Nat /\ (g + 1) * q = g * q + q /\ g * q + q <= Len(s)
  <2> DEFINE K == l.kvHeads
  <2>1. K \in Nat \ {0} /\ g < K /\ Len(s) = (n * K) * d
    BY <1>1
  <2>2. q \in Nat \ {0} /\ (n * K) * d = K * q
    BY <1>1, <2>1
  <2> HIDE DEF q, K, s
  <2> QED
    BY <2>1, <2>2, MultipleLess
<1>5. x \in Seq(RowSet) /\ Len(x) = q
  <2> DEFINE a == g * q
  <2> HIDE DEF s, x
  <2>1. x = SubSeq(s, a + 1, a + q) /\ a \in Nat /\ a + q <= Len(s)
    BY <1>2, <1>3, <1>4
  <2> HIDE DEF a, q
  <2> QED
    BY <1>1, <1>3, <2>1, PieceOf
<1>6. y \in Seq(RowSet) /\ Len(y) = d /\ z \in Seq(RowSet) /\ Len(z) = d
  BY HeadRows
<1>7. QkvGroup(l, layer, g) = x \o y \o z
  BY DEF QkvGroup
<1> HIDE DEF x, y, z
<1> DEFINE t == QkvGroup(l, layer, g)
<1>8. /\ SubSeq(t, 1, Len(x)) = x
      /\ SubSeq(t, Len(x) + 1, Len(x) + Len(y)) = y
      /\ SubSeq(t, Len(x) + Len(y) + 1, Len(x) + Len(y) + Len(z)) = z
  <2>1. /\ SubSeq(x \o y \o z, 1, Len(x)) = x
        /\ SubSeq(x \o y \o z, Len(x) + 1, Len(x) + Len(y)) = y
        /\ SubSeq(x \o y \o z, Len(x) + Len(y) + 1, Len(x) + Len(y) + Len(z)) = z
    BY <1>5, <1>6, ThreeParts
  <2> QED
    BY <1>7, <2>1
<1> HIDE DEF t, s
<1>9. q + d + d = q + 2 * d
  BY <1>1, <1>3
<1> HIDE DEF q
<1> QED
  BY <1>2, <1>3, <1>5, <1>8, <1>6, <1>9 DEF t, s, q, y, z

\* The groups of linear_qkv of all key-value heads.
GroupsOf(l, layer) == [g \in 1 .. l.kvHeads |-> QkvGroup(l, layer, g - 1)]

\* The groups of linear_qkv are of one size.
LEMMA GroupBlocks ==
  ASSUME NEW l \in Layouts, NEW layer \in Int
  PROVE  /\ Blocks(GroupsOf(l, layer), l.kvHeads, (PerKv(l) + 2) * l.headRows)
         /\ (PerKv(l) + 2) * l.headRows \in Nat \ {0}
<1> DEFINE w == (PerKv(l) + 2) * l.headRows
<1>1. l.kvHeads \in Nat \ {0} /\ w \in Nat \ {0}
  BY HeadFacts
<1> HIDE DEF w
<1>2. ASSUME NEW g \in 1 .. l.kvHeads
      PROVE  Listed(QkvGroup(l, layer, g - 1)) /\ Len(QkvGroup(l, layer, g - 1)) = w
  <2> DEFINE j == g - 1
  <2> HIDE DEF j
  <2> QED
    BY <1>1, GroupRows DEF j, Listed, w
<1> QED
  BY <1>1, <1>2 DEF Blocks, GroupsOf, w

\* Taking the groups of linear_qkv apart gives all queries, keys and values in their order.
LEMMA DeinterleavedFull ==
  ASSUME NEW l \in Layouts, NEW layer \in Int, NEW rows, rows = FlattenSeq(GroupsOf(l, layer))
  PROVE  Deinterleaved(l, rows, l.headRows) = QkvFull(l, layer)
<1> DEFINE n == l.kvHeads
           d == l.headRows
           q == d * PerKv(l)
           w == (PerKv(l) + 2) * d
           seqs == GroupsOf(l, layer)
           C == Chunk(rows, n)
           s == Full(l, layer, None, "q")
<1>1. Blocks(seqs, n, w) /\ w \in Nat \ {0}
  BY GroupBlocks
<1>2. /\ n \in Nat \ {0} /\ d \in Nat \ {0} /\ PerKv(l) \in Nat \ {0} /\ s \in Seq(RowSet)
      /\ Len(s) = l.heads * d /\ l.heads = PerKv(l) * n
  BY HeadFacts
<1> HIDE DEF w, seqs
<1>3. Listed(rows) /\ Len(rows) = n * w
  BY <1>1, <1>2, EachPart DEF Blocks, seqs
<1>4. C = [i \in 1 .. n |-> SubSeq(rows, (i - 1) * w + 1, i * w)]
  <2> HIDE DEF n, C
  <2>1. Chunk(rows, n) = [i \in 1 .. n |-> SubSeq(rows, (i - 1) * w + 1, i * w)]
    BY SMTT(20), <1>1, <1>2, <1>3, ChunkIs
  <2> QED
    BY <2>1 DEF C
<1>5. ASSUME NEW i \in 1 .. n PROVE C[i] = QkvGroup(l, layer, i - 1)
  <2>1. SubSeq(rows, (i - 1) * w + 1, i * w) = seqs[i]
    BY <1>1, <1>2, BlockOf DEF seqs
  <2>2. seqs[i] = QkvGroup(l, layer, i - 1)
    BY DEF seqs, GroupsOf
  <2> QED
    BY <1>4, <2>1, <2>2
<1>6. DOMAIN C = 1 .. n
  BY <1>4
<1> HIDE DEF C
<1> DEFINE Each(a, b) == FlattenSeq([g \in 1 .. n |-> SubSeq(C[g], a, b)])
<1>7. Deinterleaved(l, rows, d)
        = [query |-> Each(1, q), key |-> Each(q + 1, q + d), value |-> Each(q + d + 1, q + 2 * d)]
  BY <1>6 DEF Deinterleaved, PerKv, C
<1>8. ASSUME NEW i \in 1 .. n
      PROVE  /\ SubSeq(C[i], 1, q) = SubSeq(s, 0 + (i - 1) * q + 1, 0 + i * q)
             /\ SubSeq(C[i], q + 1, q + d) = HeadOf(l, layer, "k", i - 1)
             /\ SubSeq(C[i], q + d + 1, q + 2 * d) = HeadOf(l, layer, "v", i - 1)
  <2> DEFINE g == i - 1
  <2>1. g \in Nat /\ g < n /\ g + 1 = i
    BY <1>2
  <2> HIDE DEF g
  <2>2. /\ SubSeq(QkvGroup(l, layer, g), 1, q) = SubSeq(s, g * q + 1, (g + 1) * q)
        /\ SubSeq(QkvGroup(l, layer, g), q + 1, q + d) = HeadOf(l, layer, "k", g)
        /\ SubSeq(QkvGroup(l, layer, g), q + d + 1, q + 2 * d) = HeadOf(l, layer, "v", g)
    BY <2>1, GroupPieces
  <2>3. 0 + g * q = g * q /\ 0 + i * q = i * q
    <3>1. q \in Nat
      BY <1>2
    <3> HIDE DEF q
    <3> QED
      BY <2>1, <3>1
  <2> QED
    BY <1>5, <2>1, <2>2, <2>3 DEF g
<1>9. Each(1, q) = s
  <2> DEFINE Q == [g \in 1 .. n |-> SubSeq(C[g], 1, q)]
  <2>1. q \in Nat /\ 0 + n * q = Len(s) /\ Listed(s)
    BY <1>2 DEF Listed
  <2> HIDE DEF q, s
  <2>2. Q = [i \in 1 .. n |-> SubSeq(s, 0 + (i - 1) * q + 1, 0 + i * q)]
    BY <1>8
  <2> HIDE DEF Q
  <2>3. EvenCut(s, n, q, 0, Q)
    BY <1>2, <2>1, <2>2 DEF EvenCut
  <2>4. FlattenSeq(Q) = SubSeq(s, 0 + 1, 0 + n * q)
    BY SMTT(20), <1>2, <2>1, <2>3, EvenCuts
  <2>5. FlattenSeq(Q) = s
    BY <2>1, <2>4, WholeSubSeq
  <2> QED
    BY <2>5 DEF Q
<1>10. Each(q + 1, q + d) = Full(l, layer, None, "k")
  <2>1. [g \in 1 .. n |-> SubSeq(C[g], q + 1, q + d)] = [g \in 1 .. n |-> HeadOf(l, layer, "k", g - 1)]
    BY <1>8
  <2>2. FlattenSeq([g \in 1 .. n |-> HeadOf(l, layer, "k", g - 1)]) = Full(l, layer, None, "k")
    BY HeadsTogether
  <2> QED
    BY <2>1, <2>2
<1>11. Each(q + d + 1, q + 2 * d) = Full(l, layer, None, "v")
  <2>1. [g \in 1 .. n |-> SubSeq(C[g], q + d + 1, q + 2 * d)] = [g \in 1 .. n |-> HeadOf(l, layer, "v", g - 1)]
    BY <1>8
  <2>2. FlattenSeq([g \in 1 .. n |-> HeadOf(l, layer, "v", g - 1)]) = Full(l, layer, None, "v")
    BY HeadsTogether
  <2> QED
    BY <2>1, <2>2
<1> QED
  BY <1>7, <1>9, <1>10, <1>11 DEF QkvFull

----------------------------------------------------------------------------
\* Replicated keys and values.

\* A stretch of a stretch.
LEMMA SubSubSeq ==
  ASSUME NEW S, NEW t, t \in Seq(S), NEW c \in Nat, NEW m \in Nat, c + m <= Len(t),
         NEW a \in Nat, NEW b \in Nat, a <= b, b <= m
  PROVE  SubSeq(t, c + a + 1, c + b) = SubSeq(SubSeq(t, c + 1, c + m), a + 1, b)
<1> DEFINE u == SubSeq(t, c + 1, c + m)
           x == SubSeq(u, a + 1, b)
           y == SubSeq(t, c + a + 1, c + b)
<1>1. u \in Seq(S) /\ Len(u) = m /\ \A i \in 1 .. m : u[i] = t[c + i]
  OBVIOUS
<1>2. y \in Seq(S) /\ Len(y) = b - a /\ \A i \in 1 .. b - a : y[i] = t[c + a + i]
  OBVIOUS
<1> HIDE DEF u, y
<1>3. x \in Seq(S) /\ Len(x) = b - a /\ \A i \in 1 .. b - a : x[i] = u[a + i]
  BY <1>1
<1> HIDE DEF x
<1>4. ASSUME NEW i \in 1 .. b - a PROVE x[i] = y[i]
  <2>1. a + i \in 1 .. m /\ c + (a + i) = c + a + i
    OBVIOUS
  <2> QED
    BY <1>1, <1>2, <1>3, <2>1
<1>5. x = y
  BY <1>2, <1>3, <1>4
<1> QED
  BY <1>5 DEF x, y, u

\* The replicated linear_qkv: every query head has its copy of the key head and the value head.
ReplicatedQkv(l, layer) ==
  Full(l, layer, None, "q") \o FlattenSeq([h \in 1 .. l.heads |-> HeadOf(l, layer, "k", (h - 1) \div PerKv(l))])
  \o FlattenSeq([h \in 1 .. l.heads |-> HeadOf(l, layer, "v", (h - 1) \div PerKv(l))])
RepeatedHeads(l, layer, part) == [h \in 1 .. l.heads |-> HeadOf(l, layer, part, (h - 1) \div PerKv(l))]

\* Repeated heads are of one size.
LEMMA RepeatedBlocks ==
  ASSUME NEW l \in Layouts, NEW layer \in Int, NEW part \in {"k", "v"}
  PROVE  /\ Blocks(RepeatedHeads(l, layer, part), l.heads, l.headRows)
         /\ FlattenSeq(RepeatedHeads(l, layer, part)) \in Seq(RowSet)
         /\ Len(FlattenSeq(RepeatedHeads(l, layer, part))) = l.heads * l.headRows
<1> DEFINE d == l.headRows
           seqs == RepeatedHeads(l, layer, part)
           n == l.heads
<1>1. /\ PerKv(l) \in Nat \ {0} /\ d \in Nat \ {0} /\ l.kvHeads \in Nat \ {0} /\ n \in Nat \ {0}
      /\ n = PerKv(l) * l.kvHeads
  BY HeadFacts
<1>2. ASSUME NEW h \in 1 .. n PROVE seqs[h] \in Seq(RowSet) /\ Len(seqs[h]) = d
  <2> DEFINE m == PerKv(l)
             w == h - 1
             K == l.kvHeads
  <2>1. m \in Nat \ {0} /\ w \in Nat /\ K \in Nat /\ w < K * m
    BY <1>1
  <2>2. seqs[h] = HeadOf(l, layer, part, w \div m)
    BY DEF RepeatedHeads
  <2> HIDE DEF m, w, seqs, K
  <2>3. w \div m < K /\ w \div m \in Nat
    BY <2>1, QuotientLess
  <2> QED
    BY <2>2, <2>3, HeadRows DEF K
<1>3. seqs = [h \in 1 .. n |-> seqs[h]]
  BY DEF RepeatedHeads
<1> HIDE DEF seqs, n, d
<1>4. seqs \in Seq(Seq(RowSet)) /\ Len(seqs) = n
  BY <1>1, <1>2, <1>3, PartsType
<1> QED
  BY <1>2, <1>3, <1>1, <1>4, FlattenType, FlattenLength DEF Blocks, seqs, n, d, Listed

\* Where the first copy of a head is.
LEMMA OneOfRepeated ==
  ASSUME NEW l \in Layouts, NEW layer \in Int, NEW part \in {"k", "v"}, NEW g \in 1 .. l.kvHeads,
         NEW head, head = (g - 1) * PerKv(l)
  PROVE  /\ head \in Nat /\ (head + 1) * l.headRows <= l.heads * l.headRows
         /\ SubSeq(FlattenSeq(RepeatedHeads(l, layer, part)), head * l.headRows + 1, (head + 1) * l.headRows)
              = HeadOf(l, layer, part, g - 1)
<1> DEFINE d == l.headRows
           n == l.heads
           m == PerKv(l)
           j == g - 1
           seqs == RepeatedHeads(l, layer, part)
<1>1. m \in Nat \ {0} /\ d \in Nat \ {0} /\ l.kvHeads \in Nat \ {0} /\ n \in Nat \ {0} /\ n = m * l.kvHeads
  BY HeadFacts
<1>2. j \in Nat /\ j < l.kvHeads /\ head = j * m
  BY <1>1
<1>3. head \in Nat /\ head + 1 \in 1 .. n
  <2> HIDE DEF m, j, n
  <2> QED
    BY <1>1, <1>2, MultipleLess
<1>4. Blocks(seqs, n, d)
  BY RepeatedBlocks
<1> DEFINE k == head + 1
<1>5. k \in 1 .. n /\ k - 1 = head
  BY <1>3
<1>6. seqs[k] = HeadOf(l, layer, part, (k - 1) \div m)
  BY <1>5 DEF RepeatedHeads
<1>7. head \div m = j
  <2> HIDE DEF m, j
  <2>1. j * m + 0 = head
    BY <1>2, <1>3
  <2> QED
    BY <1>1, <1>2, EuclidUnique, <2>1
<1> HIDE DEF seqs, n, d, m, j, k
<1>8. SubSeq(FlattenSeq(seqs), (k - 1) * d + 1, k * d) = seqs[k]
  BY <1>1, <1>4, <1>5, BlockOf
<1>9. k * d <= n * d
  <2>1. CASE k = n
    BY <1>1, <2>1
  <2>2. CASE k # n
    BY <1>1, <1>5, <2>2, MultipleLess
  <2> QED
    BY <2>1, <2>2
<1> QED
  BY <1>3, <1>5, <1>6, <1>7, <1>8, <1>9 DEF seqs, n, d, k, j

\* Taking one copy of replicated keys and values gives them in their order.
LEMMA DeduplicatedFull ==
  ASSUME NEW l \in Layouts, NEW layer \in Int, NEW rows, HeadSize(l) = l.headRows, l.hidden = l.heads * l.headRows,
         rows = ReplicatedQkv(l, layer)
  PROVE  Deduplicated(l, rows) = QkvFull(l, layer)
<1> DEFINE n == l.kvHeads
           d == l.headRows
           Q == Full(l, layer, None, "q")
           K == FlattenSeq(RepeatedHeads(l, layer, "k"))
           V == FlattenSeq(RepeatedHeads(l, layer, "v"))
           N == l.heads * d
           OfGroups(first) == FlattenSeq([g \in 1 .. n |->
             LET head == (g - 1) * PerKv(l)
             IN SubSeq(rows, first + head * d + 1, first + (head + 1) * d)])
<1>1. Q \in Seq(RowSet) /\ Len(Q) = N /\ d \in Nat /\ l.heads \in Nat /\ N \in Nat
  BY HeadFacts
<1>2. K \in Seq(RowSet) /\ Len(K) = N /\ V \in Seq(RowSet) /\ Len(V) = N
  BY RepeatedBlocks
<1>3. Deduplicated(l, rows)
        = [query |-> SubSeq(rows, 1, N), key |-> OfGroups(N), value |-> OfGroups(2 * N)]
  BY DEF Deduplicated, PerKv
<1>4. rows = Q \o K \o V
  BY DEF ReplicatedQkv, RepeatedHeads
<1> HIDE DEF Q, K, V, N
<1>5. SubSeq(rows, 1, N) = Q /\ SubSeq(rows, N + 1, N + N) = K /\ SubSeq(rows, 2 * N + 1, 2 * N + N) = V
  <2>1. /\ SubSeq(Q \o K \o V, 1, Len(Q)) = Q
        /\ SubSeq(Q \o K \o V, Len(Q) + 1, Len(Q) + Len(K)) = K
        /\ SubSeq(Q \o K \o V, Len(Q) + Len(K) + 1, Len(Q) + Len(K) + Len(V)) = V
    BY <1>1, <1>2, ThreeParts
  <2>2. N + N = 2 * N
    BY <1>1
  <2> QED
    BY <1>1, <1>2, <1>4, <2>1, <2>2
<1>6. rows \in Seq(RowSet) /\ Len(rows) = 3 * N
  <2>1. Q \o K \o V \in Seq(RowSet) /\ Len(Q \o K \o V) = N + N + N
    BY SMTT(20), <1>1, <1>2
  <2>2. N + N + N = 3 * N
    BY <1>1
  <2> QED
    BY <1>4, <2>1, <2>2
<1>7. ASSUME NEW part \in {"k", "v"}, NEW first \in Nat, first + N <= Len(rows),
             SubSeq(rows, first + 1, first + N) = FlattenSeq(RepeatedHeads(l, layer, part))
      PROVE  OfGroups(first) = Full(l, layer, None, part)
  <2> DEFINE HeadAt(g) == SubSeq(rows, first + ((g - 1) * PerKv(l)) * d + 1, first + ((g - 1) * PerKv(l) + 1) * d)
  <2>1. ASSUME NEW g \in 1 .. n PROVE HeadAt(g) = HeadOf(l, layer, part, g - 1)
    <3> DEFINE head == (g - 1) * PerKv(l)
               a == head * d
               b == (head + 1) * d
    <3>1. /\ head \in Nat /\ b <= N
          /\ SubSeq(FlattenSeq(RepeatedHeads(l, layer, part)), a + 1, b) = HeadOf(l, layer, part, g - 1)
      BY OneOfRepeated DEF N
    <3>h. head \in Nat
      BY <3>1
    <3>2. a \in Nat /\ b \in Nat /\ a <= b
      <4> HIDE DEF head
      <4>1. head * d \in Nat /\ (head + 1) * d = head * d + d
        BY <1>1, <3>h
      <4> QED
        BY <1>1, <4>1
    <3>3. HeadAt(g) = SubSeq(rows, first + a + 1, first + b)
      OBVIOUS
    <3> HIDE DEF a, b, head, Head
    <3>4. SubSeq(rows, first + a + 1, first + b) = SubSeq(SubSeq(rows, first + 1, first + N), a + 1, b)
      <4>1. rows \in Seq(RowSet) /\ first + N <= Len(rows) /\ a \in Nat /\ b \in Nat /\ a <= b /\ b <= N
        BY <1>6, <1>7, <3>1, <3>2
      <4> QED
        BY <1>1, <4>1, SubSubSeq
    <3> QED
      BY <1>7, <3>1, <3>3, <3>4
  <2>2. OfGroups(first) = FlattenSeq([g \in 1 .. n |-> HeadAt(g)])
    OBVIOUS
  <2> HIDE DEF Head, OfGroups
  <2>3. [g \in 1 .. n |-> HeadAt(g)] = [g \in 1 .. n |-> HeadOf(l, layer, part, g - 1)]
    BY <2>1
  <2>4. FlattenSeq([g \in 1 .. n |-> HeadOf(l, layer, part, g - 1)]) = Full(l, layer, None, part)
    BY HeadsTogether
  <2> QED
    BY <2>2, <2>3, <2>4
<1> HIDE DEF OfGroups
<1>8. OfGroups(N) = Full(l, layer, None, "k")
  <2>1. N + N <= Len(rows)
    BY <1>1, <1>6
  <2> QED
    BY <1>1, <1>5, <1>7, <2>1 DEF K
<1>9. OfGroups(2 * N) = Full(l, layer, None, "v")
  <2>1. 2 * N \in Nat /\ 2 * N + N <= Len(rows)
    BY <1>1, <1>6
  <2> QED
    BY <1>5, <1>7, <2>1 DEF V
<1> QED
  BY <1>3, <1>5, <1>8, <1>9 DEF QkvFull, Q

----------------------------------------------------------------------------
\* The whole linear_qkv.

\* A training rank has the groups of its key-value heads.
LEMMA RankQkv ==
  ASSUME NEW l \in Layouts, NEW layer \in Int, ~l.replicated, NEW t \in 0 .. l.tp - 1,
         NEW m, m = l.kvHeads \div l.tp
  PROVE  LinearQkv(l, layer, t) = FlattenSeq([j \in 1 .. m |-> GroupsOf(l, layer)[t * m + j]])
<1>1. ASSUME NEW j \in 1 .. m PROVE GroupsOf(l, layer)[t * m + j] = QkvGroup(l, layer, t * m + j - 1)
  <2>1. t * m + j \in 1 .. l.kvHeads
    BY HeadCounts, LayoutFacts, PlaceLess
  <2> QED
    BY <2>1 DEF GroupsOf
<1> QED
  BY <1>1 DEF LinearQkv, QkvGroup, HeadOf, PerKv

\* Gathered over the tensor parallel group they are all groups; a replicated tensor is whole.
LEMMA GatheredQkv ==
  ASSUME NEW l \in Layouts, NEW r \in Ranks(l), NEW p \in ParamSet, p.kind = "linear_qkv", p.layer # None,
         NEW held, held = HeldLayer(l, PpRank(l, r), p.vp, p.layer)
  PROVE  TensorOf(l, r, p) = IF l.replicated THEN ReplicatedQkv(l, held) ELSE FlattenSeq(GroupsOf(l, held))
<1> DEFINE t == l.tp
           m == l.kvHeads \div l.tp
           T(k) == McoreTensor(l, Base(l, r) + k, p)
<1>1. /\ t \in Nat \ {0} /\ m \in Nat \ {0} /\ l.kvHeads = t * m
      /\ Base(l, r) \in Nat /\ r = Base(l, r) + TpRank(l, r) /\ TpRank(l, r) \in 0 .. t - 1 /\ r \in Nat
  BY HeadCounts, LayoutFacts, RankFacts DEF Base
<1>2. held \in Int
  BY RankFacts, HeldInt DEF ParamSet
<1>3. \A k \in 0 .. t - 1 : T(k) = LinearQkv(l, held, k)
  BY RankFacts DEF McoreTensor
<1>4. TensorOf(l, r, p) = IF t > 1 THEN FlattenSeq([i \in 1 .. t |-> McoreTensor(l, Base(l, r) + i - 1, p)]) ELSE T(0)
  BY <1>1 DEF TensorOf, Gathers
<1>5. CASE l.replicated
  <2>1. TensorOf(l, r, p) = LinearQkv(l, held, 0)
    BY <1>1, McoreConverterAssumption, <1>3, <1>4, <1>5 DEF McoreConverterAssumption
  <2> QED
    BY <1>5, <2>1 DEF LinearQkv, ReplicatedQkv, HeadOf, PerKv
<1>6. CASE ~l.replicated
  <2> DEFINE seqs == GroupsOf(l, held)
             outer == [i \in 1 .. t |-> FlattenSeq([j \in 1 .. m |-> seqs[(i - 1) * m + j]])]
             w == (PerKv(l) + 2) * l.headRows
  <2>1. \A k \in 0 .. t - 1 : T(k) = FlattenSeq([j \in 1 .. m |-> seqs[k * m + j]])
    BY <1>2, <1>3, <1>6, RankQkv
  <2>2. Blocks(seqs, t * m, w) /\ w \in Nat
    BY <1>1, <1>2, GroupBlocks
  <2>3. CASE t > 1
    <3>1. \A i \in 1 .. t : McoreTensor(l, Base(l, r) + i - 1, p) = outer[i]
      <4> TAKE i \in 1 .. t
      <4>1. i - 1 \in 0 .. t - 1 /\ Base(l, r) + (i - 1) = Base(l, r) + i - 1
        BY <1>1
      <4> QED
        BY <4>1, <2>1
    <3>2. Nested(outer, seqs, t, m)
      BY DEF Nested
    <3> HIDE DEF outer, seqs, t, m, w, T
    <3>3. FlattenSeq(outer) = FlattenSeq(seqs)
      BY <1>1, <2>2, <3>2, NestedFlatten
    <3> QED
      BY <1>4, <1>6, <2>3, <3>3, <3>1 DEF seqs, outer
  <2>4. CASE ~(t > 1)
    <3>1. seqs = [j \in 1 .. m |-> seqs[j]]
      BY <1>1, <2>4 DEF GroupsOf
    <3> HIDE DEF seqs, m, T, t
    <3>2. T(0) = FlattenSeq(seqs)
      BY <1>1, <2>1, <3>1
    <3> QED
      BY <1>4, <1>6, <2>4, <3>2 DEF seqs
  <2> QED
    BY <2>3, <2>4
<1> QED
  BY <1>5, <1>6

\* transform_mcore_qkv_weight gives the queries, keys and values of the model whenever the
\* size tells the format.
LEMMA TransformFull ==
  ASSUME NEW l \in Layouts, QkvMatches(l),
         NEW r \in Ranks(l), NEW p \in ParamSet, p.kind = "linear_qkv", p.layer # None
  PROVE  TransformMcoreQkv(l, TensorOf(l, r, p)) = QkvFull(l, HeldLayer(l, PpRank(l, r), p.vp, p.layer))
<1> DEFINE held == HeldLayer(l, PpRank(l, r), p.vp, p.layer)
           rows == TensorOf(l, r, p)
           f == QkvFormat(l, Len(rows))
           n == l.kvHeads
           d == l.headRows
           m == PerKv(l)
           H == HeadSize(l)
<1>1. held \in Int
  <2>1. p.vp \in Int /\ p.layer \in Int
    BY DEF ParamSet
  <2> QED
    BY <2>1, RankFacts, HeldInt
<1>2. rows = IF l.replicated THEN ReplicatedQkv(l, held) ELSE FlattenSeq(GroupsOf(l, held))
  BY GatheredQkv
<1>3. Len(rows) = QkvSize(l)
  BY QkvTensor
<1>4. /\ m \in Nat \ {0} /\ d \in Nat \ {0} /\ n \in Nat \ {0} /\ l.heads \in Nat \ {0} /\ l.heads = m * n
      /\ l.hidden \in Nat \ {0} /\ l.kvChannels \in Nat
  BY HeadFacts, LayoutFacts
<1>5. /\ f # "unsupported" /\ (f = "replicated" => l.hidden = l.heads * H)
      /\ (l.replicated <=> f = "replicated") /\ (f = "qwen3" => l.hidden = n * d)
  BY <1>3, McoreConverterAssumption DEF McoreConverterAssumption, QkvMatches
<1>6. H \in Nat
  BY SMTT(20), <1>4 DEF HeadSize
<1>7. f \in {"compact", "replicated", "qwen3"}
  BY <1>5 DEF QkvFormat
<1> HIDE DEF rows, held
<1>8. CASE f = "compact"
  <2>1. ~l.replicated
    BY <1>5, <1>8
  <2>2. Len(rows) = (m + 2) * H * n
    BY <1>8 DEF QkvFormat, PerKv
  <2>3. Len(rows) = (m + 2) * n * d
    BY <1>3, <2>1 DEF QkvSize, PerKv
  <2>4. H = d
    <3> DEFINE a == (m + 2) * n
    <3>1. a \in Nat \ {0} /\ (m + 2) * H * n = a * H
      BY <1>4, <1>6
    <3> HIDE DEF a, m, n, d, H
    <3>2. a * H = a * d
      BY <2>2, <2>3, <3>1 DEF a
    <3> QED
      BY <1>4, <1>6, <3>1, <3>2
  <2>5. TransformMcoreQkv(l, rows) = Deinterleaved(l, rows, d)
    BY <1>8, <2>4 DEF TransformMcoreQkv
  <2> QED
    BY <1>1, <1>2, <2>1, <2>5, DeinterleavedFull DEF held, rows
<1>9. CASE f = "qwen3"
  <2>1. ~l.replicated
    BY <1>5, <1>9
  <2>2. l.hidden \div n = d
    <3>1. l.hidden = d * n + 0 /\ 0 \in 0 .. n - 1
      BY <1>4, <1>5, <1>9
    <3> HIDE DEF n, d
    <3>2. (d * n + 0) \div n = d
      BY <1>4, <3>1, EuclidUnique
    <3> QED
      BY <3>1, <3>2
  <2>3. TransformMcoreQkv(l, rows) = Deinterleaved(l, rows, d)
    BY <1>9, <2>2 DEF TransformMcoreQkv
  <2> QED
    BY <1>1, <1>2, <2>1, <2>3, DeinterleavedFull DEF held, rows
<1>10. CASE f = "replicated"
  <2>1. l.replicated
    BY <1>5, <1>10
  <2>2. Len(rows) = 3 * l.heads * d /\ Len(rows) = 3 * l.hidden
    <3>1. Len(rows) = 3 * l.heads * d
      BY <1>3, <2>1 DEF QkvSize
    <3>2. Len(rows) = 3 * l.hidden
      BY <1>10 DEF QkvFormat
    <3> QED
      BY <3>1, <3>2
  <2>3. l.hidden = l.heads * d
    <3> DEFINE x == l.heads * d
    <3>1. 3 * l.heads * d = 3 * x /\ x \in Nat
      BY <1>4
    <3>2. 3 * x = 3 * l.hidden
      BY <2>2, <3>1
    <3> HIDE DEF x
    <3>3. l.hidden = x
      BY SMTT(20), <1>4, <3>1, <3>2
    <3> QED
      BY <3>3 DEF x
  <2>4. H = d
    <3> DEFINE a == l.heads
    <3>1. a * H = a * d /\ a \in Nat \ {0} /\ d \in Nat
      BY <1>4, <1>5, <1>10, <2>3
    <3> HIDE DEF a, H, d
    <3> QED
      BY <1>6, <3>1
  <2>5. TransformMcoreQkv(l, rows) = Deduplicated(l, rows)
    BY <1>10 DEF TransformMcoreQkv
  <2> QED
    BY <1>1, <1>2, <2>1, <2>3, <2>4, <2>5, DeduplicatedFull DEF held, rows
<1> QED
  BY <1>7, <1>8, <1>9, <1>10

----------------------------------------------------------------------------
\* The workers' query_key_value.

\* The rows of a worker: queries, and all; the query_key_value of all workers, and that in one.
QueryRows(l) == (l.heads \div l.infTp) * l.headRows
WorkerRows(l) == QueryRows(l) + KvWidth(l, l.headRows) + KvWidth(l, l.headRows)
WorkersQkv(l, layer) == [i \in 1 .. l.infTp |-> QueryKeyValue(l, i - 1, layer)]
Merged(l, layer) == FlattenSeq(WorkersQkv(l, layer))

\* The only slice is the whole.
LEMMA WholeSlice ==
  ASSUME NEW s, Listed(s)
  PROVE  Slice(s, 0, 1) = s
<1>1. Len(s) \in Nat /\ Len(s) = 1 * Len(s) /\ 0 * Len(s) + 1 = 1 /\ (0 + 1) * Len(s) = Len(s)
  BY ListedIs
<1> QED
  BY <1>1, EvenSlice, WholeSubSeq

\* The queries are cut evenly among the workers.
LEMMA QueryChunks ==
  ASSUME NEW l \in Layouts, NEW layer \in Int
  PROVE  LET s == Full(l, layer, None, "q") IN
         /\ QueryRows(l) \in Nat \ {0} /\ l.heads * l.headRows = l.infTp * QueryRows(l)
         /\ Len(Chunk(s, l.infTp)) = l.infTp
         /\ \A i \in 1 .. l.infTp : /\ Chunk(s, l.infTp)[i] = Slice(s, i - 1, l.infTp)
                                    /\ Listed(Chunk(s, l.infTp)[i]) /\ Len(Chunk(s, l.infTp)[i]) = QueryRows(l)
<1> DEFINE s == Full(l, layer, None, "q")
           t == l.infTp
           k == QueryRows(l)
           n == l.heads
           d == l.headRows
<1>1. t \in Nat \ {0} /\ n % t = 0 /\ n \in Nat \ {0} /\ d \in Nat \ {0} /\ s \in Seq(RowSet) /\ Len(s) = n * d
  BY HeadFacts, WorkerFacts
<1>2. k \in Nat \ {0} /\ n * d = t * k
  <2>1. n \div t \in Nat \ {0} /\ n = (n \div t) * t
    BY <1>1, Divides
  <2> DEFINE x == n \div t
  <2>2. k = x * d
    BY DEF QueryRows
  <2> HIDE DEF x, k
  <2> QED
    BY <2>1, <2>2, <1>1 DEF x
<1> HIDE DEF s, t, k, n, d
<1>3. t \in Nat \ {0} /\ k \in Nat \ {0} /\ Listed(s) /\ Len(s) = t * k
  BY <1>1, <1>2 DEF Listed
<1>4. Listed(Chunk(s, t)) /\ Len(Chunk(s, t)) = t /\ \A i \in 1 .. t : Listed(Chunk(s, t)[i]) /\ Len(Chunk(s, t)[i]) = k
  BY ONLY <1>3, ChunkEven
<1>5. \A i \in 1 .. t : Chunk(s, t)[i] = Slice(s, i - 1, t)
  BY ONLY <1>3, ChunkIs
<1> QED
  BY <1>2, <1>4, <1>5 DEF s, t, k, n, d

\* A worker's shard of the keys, or of the values, is the slice of its key-value heads,
\* shared with others where workers outnumber heads.
LEMMA KvShardsFull ==
  ASSUME NEW l \in Layouts, NEW layer \in Int, NEW part \in {"k", "v"}
  PROVE  LET s == Full(l, layer, None, part)
             shards == IF l.infTp >= l.kvHeads THEN l.kvHeads ELSE l.infTp
         IN \A i \in 1 .. l.infTp : KvShards(l, s)[i] = Slice(s, ((i - 1) * shards) \div l.infTp, shards)
<1> DEFINE s == Full(l, layer, None, part)
           t == l.infTp
           n == l.kvHeads
           d == l.headRows
<1>1. /\ t \in Nat \ {0} /\ n \in Nat \ {0} /\ d \in Nat \ {0} /\ s \in Seq(RowSet) /\ Len(s) = n * d
      /\ t >= n => t % n = 0
      /\ t < n => n % t = 0
  BY HeadFacts, WorkerFacts
<1>2. KvShards(l, s) = IF t >= n THEN [i \in 1 .. t |-> Chunk(s, n)[(i - 1) \div (t \div n) + 1]] ELSE Chunk(s, t)
  BY DEF KvShards
<1> HIDE DEF s, t, n, d
<1>3. Listed(s)
  BY <1>1 DEF Listed
<1>4. CASE t >= n
  <2> DEFINE g == t \div n
             C == Chunk(s, n)
  <2>1. g \in Nat \ {0} /\ t = g * n
    BY <1>1, <1>4, Divides
  <2>2. \A j \in 1 .. n : C[j] = Slice(s, j - 1, n)
    BY <1>1, <1>3, ChunkIs
  <2>3. KvShards(l, s) = [i \in 1 .. t |-> C[(i - 1) \div g + 1]]
    BY <1>2, <1>4
  <2> HIDE DEF g, C
  <2>4. ASSUME NEW i \in 1 .. t PROVE KvShards(l, s)[i] = Slice(s, ((i - 1) * n) \div t, n)
    <3> DEFINE x == i - 1
    <3>1. x \in Nat /\ x < n * g
      BY <1>1, <2>1
    <3> HIDE DEF x
    <3>2. (x * n) \div t = x \div g
      BY <1>1, <2>1, <3>1, QuotientTwice, EuclidUnique
    <3>3. C[x \div g + 1] = Slice(s, x \div g, n)
      <4> DEFINE j == x \div g
      <4>1. j \in Nat /\ j < n
        BY <1>1, <2>1, <3>1, QuotientLess
      <4> HIDE DEF j
      <4> QED
        BY <1>1, <4>1, <2>2 DEF j
    <3> QED
      BY <3>2, <3>3, <2>3 DEF x
  <2> QED
    BY <1>4, <2>4 DEF s, t, n
<1>5. CASE ~(t >= n)
  <2> DEFINE k == (n \div t) * d
  <2>1. k \in Nat \ {0} /\ n * d = t * k
    <3> DEFINE x == n \div t
    <3> HIDE DEF x
    <3> QED
      BY <1>1, <1>5, Divides DEF x
  <2> HIDE DEF k
  <2>2. \A i \in 1 .. t : Chunk(s, t)[i] = Slice(s, i - 1, t)
    BY <1>1, <1>3, <2>1, ChunkIs
  <2>3. ASSUME NEW i \in 1 .. t PROVE ((i - 1) * t) \div t = i - 1
    <3> DEFINE x == i - 1
    <3> HIDE DEF x
    <3> QED
      BY <1>1, EuclidUnique DEF x
  <2> QED
    BY <1>5, <1>2, <2>2, <2>3 DEF s, t, n
<1> QED
  BY <1>4, <1>5

\* What is put together for a worker is the query_key_value that it has.
LEMMA WorkerQkv ==
  ASSUME NEW l \in Layouts, NEW layer \in Int, NEW i \in 1 .. l.infTp
  PROVE  /\ EachWorker(l, QkvFull(l, layer))[i] = QueryKeyValue(l, i - 1, layer)
         /\ Listed(QueryKeyValue(l, i - 1, layer)) /\ Len(QueryKeyValue(l, i - 1, layer)) = WorkerRows(l)
<1> DEFINE query == Chunk(Full(l, layer, None, "q"), l.infTp)
           key == KvShards(l, Full(l, layer, None, "k"))
           value == KvShards(l, Full(l, layer, None, "v"))
           K == Full(l, layer, None, "k")
           V == Full(l, layer, None, "v")
           w == KvWidth(l, l.headRows)
           shards == IF l.infTp >= l.kvHeads THEN l.kvHeads ELSE l.infTp
<1>1. /\ query[i] = Slice(Full(l, layer, None, "q"), i - 1, l.infTp)
      /\ Listed(query[i]) /\ Len(query[i]) = QueryRows(l)
  BY QueryChunks
<1>2. /\ Listed(K) /\ Len(K) = l.kvHeads * l.headRows /\ Listed(V) /\ Len(V) = l.kvHeads * l.headRows
      /\ l.headRows \in Nat \ {0}
  BY HeadFacts DEF Listed
<1>3. /\ Listed(KvShards(l, K)[i]) /\ Len(KvShards(l, K)[i]) = w
      /\ Listed(KvShards(l, V)[i]) /\ Len(KvShards(l, V)[i]) = w
  <2> HIDE DEF K, V, w
  <2> QED
    BY <1>2, KvShardsAre DEF w
<1>4. Listed(query[i] \o key[i] \o value[i]) /\ Len(query[i] \o key[i] \o value[i]) = WorkerRows(l)
  <2> DEFINE x == query[i]
             y == key[i]
             z == value[i]
  <2>1. Listed(x) /\ Len(x) = QueryRows(l) /\ Listed(y) /\ Len(y) = w /\ Listed(z) /\ Len(z) = w
    BY <1>1, <1>3
  <2> HIDE DEF x, y, z
  <2>2. Listed((x \o y) \o z) /\ Len((x \o y) \o z) = (QueryRows(l) + w) + w
    BY <2>1, ConcatListed
  <2> QED
    BY <2>2 DEF x, y, z, WorkerRows
<1> QED
  BY <1>1, KvShardsFull, <1>4 DEF EachWorker, QkvFull, QueryKeyValue

----------------------------------------------------------------------------
\* Conversion gives the slice of it.

\* The query_key_value of a worker is its slice of all of them.
LEMMA QkvCuts ==
  ASSUME NEW l \in Layouts, NEW layer \in Int
  PROVE  /\ Listed(Merged(l, layer))
         /\ \A i \in 0 .. l.infTp - 1 : QueryKeyValue(l, i, layer) = Slice(Merged(l, layer), i, l.infTp)
<1> DEFINE t == l.infTp
           w == WorkerRows(l)
           seqs == WorkersQkv(l, layer)
<1>1. t \in Nat \ {0} /\ w \in Nat
  BY WorkerFacts, WorkerQkv, ListedIs
<1>2. \A i \in 1 .. t : Listed(seqs[i]) /\ Len(seqs[i]) = w
  BY WorkerQkv DEF WorkersQkv
<1>3. seqs = [i \in 1 .. t |-> seqs[i]]
  BY DEF WorkersQkv
<1>4. ASSUME NEW i \in 0 .. t - 1 PROVE seqs[i + 1] = QueryKeyValue(l, i, layer)
  BY <1>1 DEF WorkersQkv
<1> HIDE DEF t, w, seqs
<1>5. Blocks(seqs, t, w)
  BY <1>2, <1>3 DEF Blocks
<1>6. Listed(FlattenSeq(seqs)) /\ Len(FlattenSeq(seqs)) = t * w
  <2>1. t \in Nat /\ w \in Nat /\ seqs = [i \in 1 .. t |-> seqs[i]] /\ \A i \in 1 .. t : Listed(seqs[i]) /\ Len(seqs[i]) = w
    BY <1>1, <1>2, <1>3
  <2> QED
    BY ONLY <2>1, EachPart
<1>7. ASSUME NEW i \in 0 .. t - 1 PROVE QueryKeyValue(l, i, layer) = Slice(FlattenSeq(seqs), i, t)
  <2>1. i + 1 \in 1 .. t /\ (i + 1) - 1 = i /\ i \in Nat
    BY <1>1
  <2>2. Slice(FlattenSeq(seqs), i, t) = SubSeq(FlattenSeq(seqs), i * w + 1, (i + 1) * w)
    BY <1>1, <1>6, <2>1, EvenSlice
  <2> QED
    BY <1>4, <2>1, <1>1, <1>5, BlockOf, <2>2
<1> QED
  BY <1>6, <1>7 DEF t, seqs, Merged

\* What a training rank packs of linear_qkv is its slice of the same.
LEMMA ConvertQkvFull ==
  ASSUME NEW l \in Layouts, QkvMatches(l),
         NEW r \in Ranks(l), NEW p \in ParamSet, p.kind = "linear_qkv", p.layer # None
  PROVE  ConvertQkv(l, r, TensorOf(l, r, p)) = Slice(Merged(l, HeldLayer(l, PpRank(l, r), p.vp, p.layer)), TpRank(l, r), l.tp)
<1> DEFINE held == HeldLayer(l, PpRank(l, r), p.vp, p.layer)
           rows == TensorOf(l, r, p)
           seqs == EachWorker(l, TransformMcoreQkv(l, rows))
           d == l.tp
           m == FlattenSeq(seqs)
           j == TpRank(l, r)
<1>1. held \in Int
  BY RankFacts, HeldInt DEF ParamSet
<1>2. Listed(rows) /\ Len(rows) = QkvSize(l)
  BY WholeListed, QkvTensor
<1>3. seqs = WorkersQkv(l, held)
  <2>1. TransformMcoreQkv(l, rows) = QkvFull(l, held)
    BY TransformFull
  <2> HIDE DEF rows, held
  <2> QED
    BY <2>1, <1>1, WorkerQkv DEF WorkersQkv, EachWorker
<1>4. m = Merged(l, held)
  BY <1>3 DEF Merged
<1>5. ConvertQkv(l, r, rows) = IF d > 1 THEN Chunk(m, d)[j + 1] ELSE m
  BY <1>2, ConvertQkvIs
<1>6. PICK e \in Nat \ {0} : Listed(m) /\ Len(m) = d * e
  BY <1>2, ConvertQkvIs
<1>7. d \in Nat \ {0} /\ j \in 0 .. d - 1
  BY LayoutFacts, RankFacts
<1> HIDE DEF m, d, j, rows, held
<1>8. CASE d > 1
  <2>1. d \in Nat \ {0} /\ e \in Nat \ {0} /\ Listed(m) /\ Len(m) = d * e
    BY <1>6, <1>7
  <2>2. \A i \in 1 .. d : Chunk(m, d)[i] = Slice(m, i - 1, d)
    BY ONLY <2>1, ChunkIs
  <2> QED
    BY <1>4, <1>5, <1>8, <2>2, <1>7 DEF d, j, rows, held
<1>9. CASE ~(d > 1)
  BY <1>4, <1>5, <1>9, <1>7, <1>6, WholeSlice DEF d, j, rows, held
<1> QED
  BY <1>8, <1>9

----------------------------------------------------------------------------
\* What a rank holds of a parameter.

\* The layer and the expert of a parameter by their numbers in the model, and what a rank
\* has there of a part.
Place(l, r, p) ==
  <<Global(l, r, p), IF p.expert = None THEN None ELSE EpRank(l, r) * LocalExperts(l) + p.expert>>
HeldIn(l, r, n, part) ==
  IF part \in WholeParts THEN Full(l, n[1], n[2], part) ELSE Slice(Full(l, n[1], n[2], part), TpRank(l, r), l.tp)

\* Flattening one sequence, or two.
LEMMA FlattenFew ==
  ASSUME NEW s, NEW t, Listed(s), Listed(t)
  PROVE  FlattenSeq(<<s>>) = s /\ FlattenSeq(<<s, t>>) = s \o t
<1>1. PICK S : s \in Seq(S)
  BY DEF Listed
<1>2. PICK T : t \in Seq(T)
  BY DEF Listed
<1>3. s \in Seq(S \cup T) /\ t \in Seq(S \cup T)
  BY <1>1, <1>2
<1> QED
  BY <1>3, FlattenOne, FlattenTwo

\* The place of a parameter is a pair of numbers, and what a rank holds there is a sequence.
LEMMA PlaceIs ==
  ASSUME NEW l \in Layouts, NEW r \in Ranks(l), NEW p \in ParamSet
  PROVE  /\ Place(l, r, p)[1] \in Int /\ Place(l, r, p)[2] \in Int
         /\ \A part \in PartNames : Listed(HeldIn(l, r, Place(l, r, p), part))
<1>1. p.vp \in Int /\ p.layer \in Int /\ p.expert \in Int
  BY DEF ParamSet
<1>2. Global(l, r, p) \in Int
  BY <1>1, RankFacts, LayoutFacts, HeldInt DEF Global, None
<1>3. (IF p.expert = None THEN None ELSE EpRank(l, r) * LocalExperts(l) + p.expert) \in Int
  <2> DEFINE a == EpRank(l, r)
             b == LocalExperts(l)
  <2> HIDE DEF a, b
  <2> QED
    BY <1>1, RankFacts, LayoutFacts DEF None, a, b
<1> QED
  BY <1>2, <1>3, RankFacts, LayoutFacts, HeldPart DEF HeldIn, Place

\* The tensor of a parameter is what the rank holds of its parts.
LEMMA TensorIs ==
  ASSUME NEW l \in Layouts, NEW r \in Ranks(l), NEW p \in ParamSet, p.kind # "linear_qkv"
  PROVE  LET parts == McoreParts[p.kind]
             HeldOf(part) == HeldIn(l, r, Place(l, r, p), part)
         IN /\ Len(parts) = 1 => McoreTensor(l, r, p) = HeldOf(parts[1]) /\ parts[1] \in PartNames
            /\ Len(parts) = 2 => /\ McoreTensor(l, r, p) = HeldOf(parts[1]) \o HeldOf(parts[2])
                                 /\ parts[1] \in PartNames /\ parts[2] \in PartNames
<1> DEFINE parts == McoreParts[p.kind]
           H(part) == HeldIn(l, r, Place(l, r, p), part)
<1>1. DOMAIN parts = 1 .. Len(parts) /\ \A i \in 1 .. Len(parts) : parts[i] \in PartNames
  BY PartsAre DEF ParamSet
<1>2. \A part \in PartNames : Listed(H(part))
  BY PlaceIs
<1>3. McoreTensor(l, r, p) = FlattenSeq([i \in DOMAIN parts |-> H(parts[i])])
  BY DEF McoreTensor, HeldIn, Place, Global
<1> HIDE DEF H, parts
<1>4. ASSUME Len(parts) = 1 PROVE McoreTensor(l, r, p) = H(parts[1]) /\ parts[1] \in PartNames
  <2>1. [i \in DOMAIN parts |-> H(parts[i])] = <<H(parts[1])>>
    BY <1>1, <1>4
  <2>2. Listed(H(parts[1])) /\ parts[1] \in PartNames
    BY <1>1, <1>2, <1>4
  <2> QED
    BY <1>3, <2>1, <2>2, FlattenFew
<1>5. ASSUME Len(parts) = 2
      PROVE  McoreTensor(l, r, p) = H(parts[1]) \o H(parts[2]) /\ parts[1] \in PartNames /\ parts[2] \in PartNames
  <2>1. [i \in DOMAIN parts |-> H(parts[i])] = <<H(parts[1]), H(parts[2])>>
    BY <1>1, <1>5
  <2>2. Listed(H(parts[1])) /\ Listed(H(parts[2])) /\ parts[1] \in PartNames /\ parts[2] \in PartNames
    BY <1>1, <1>2, <1>5
  <2> QED
    BY <1>3, <2>1, <2>2, FlattenFew
<1> QED
  BY <1>4, <1>5 DEF H, parts

\* The gathered tensor of a down projection is the whole part.
LEMMA GatheredDown ==
  ASSUME NEW l \in Layouts, NEW r \in Ranks(l), NEW p \in ParamSet, p.kind \in DownProjections
  PROVE  TensorOf(l, r, p) = Full(l, Place(l, r, p)[1], Place(l, r, p)[2], McoreParts[p.kind][1])
<1> DEFINE part == McoreParts[p.kind][1]
           n == Place(l, r, p)
           s == Full(l, n[1], n[2], part)
<1>1. Len(McoreParts[p.kind]) = 1 /\ part \in PartNames /\ part \notin WholeParts /\ p.kind # "linear_qkv"
  BY DEF DownProjections, McoreParts, PartNames, WholeParts
<1>2. Listed(s)
  BY <1>1, PlaceIs, LayoutFacts, HeldPart
<1>3. l.tp \in Nat \ {0} /\ r = Base(l, r) + TpRank(l, r) /\ TpRank(l, r) \in 0 .. l.tp - 1
      /\ Base(l, r) \in Nat /\ r \in Nat
  BY RankFacts, LayoutFacts DEF Base
<1>4. ASSUME NEW k \in 0 .. l.tp - 1 PROVE McoreTensor(l, Base(l, r) + k, p) = Slice(s, k, l.tp)
  <2> DEFINE q == Base(l, r) + k
  <2>1. q \in Ranks(l) /\ TpRank(l, q) = k /\ PpRank(l, q) = PpRank(l, r)
    BY RankFacts
  <2>2. Place(l, q, p) = n
    BY <2>1, RankFacts DEF Place, Global, EpRank
  <2> HIDE DEF q, n
  <2> QED
    BY <1>1, <2>1, <2>2, TensorIs DEF HeldIn, q
<1> HIDE DEF s, part, n
<1>5. CASE l.tp > 1
  <2>1. \A i \in 1 .. l.tp : McoreTensor(l, Base(l, r) + i - 1, p) = Slice(s, i - 1, l.tp)
    <3> SUFFICES ASSUME NEW i \in 1 .. l.tp PROVE McoreTensor(l, Base(l, r) + i - 1, p) = Slice(s, i - 1, l.tp)
      OBVIOUS
    <3> QED
      BY <1>3, <1>4
  <2> QED
    BY <1>5, <1>2, <1>3, SliceCuts, <2>1 DEF s, part, n, TensorOf, Gathers
<1>6. CASE ~(l.tp > 1)
  BY <1>2, <1>6, <1>4, <1>3, WholeSlice DEF s, part, n, TensorOf, Gathers
<1> QED
  BY <1>5, <1>6

----------------------------------------------------------------------------
\* The tensors of the model.

\* What is handed over whole; the tensor that a name stands for; and what rank i of m has of it.
NotCut == WholeParts \cup {"kv_a_proj_with_mqa", "fused_qkv_a_proj_with_mqa"}
Canon(l, n) ==
  IF n[3] = "query_key_value" THEN Merged(l, n[1])
  ELSE IF n[3] = "fused_qkv_a_proj_with_mqa" THEN Full(l, n[1], None, "q_a_proj") \o Full(l, n[1], None, "kv_a_proj")
  ELSE IF n[3] = "kv_a_proj_with_mqa" THEN Full(l, n[1], None, "kv_a_proj")
  ELSE Full(l, n[1], n[2], n[3])
CutFor(l, n, i, m) == IF n[3] \in NotCut THEN Canon(l, n) ELSE Slice(Canon(l, n), i, m)

\* The slices of tensors of one size are of one size.
LEMMA SameSlices ==
  ASSUME NEW s, NEW t, Listed(s), Listed(t), Len(s) = Len(t), NEW i \in Nat, NEW n \in Nat \ {0}
  PROVE  Len(Slice(s, i, n)) = Len(Slice(t, i, n)) /\ Listed(Slice(s, i, n)) /\ Listed(Slice(t, i, n))
<1> DEFINE m == Len(s)
           a == (i * m) \div n
           b == ((i + 1) * m) \div n
<1>1. m \in Nat /\ i * m \in Nat /\ (i + 1) * m \in Nat /\ i * m <= (i + 1) * m
  <2>1. m \in Nat
    BY ListedIs
  <2> HIDE DEF m
  <2> QED
    BY <2>1
<1> DEFINE x == i * m
           y == (i + 1) * m
<1>2. a <= b /\ a \in Nat /\ b \in Nat
  <2>1. x \in Nat /\ y \in Nat /\ x <= y
    BY <1>1
  <2> HIDE DEF x, y
  <2>2. x \div n \in Nat /\ y \div n \in Nat
    BY <2>1
  <2>3. x \div n <= y \div n
    BY <2>1, QuotientOrder, <2>2
  <2> QED
    BY <2>2, <2>3 DEF x, y
<1> HIDE DEF a, b
<1> QED
  BY <1>2, SubSeqListed DEF Slice

\* The halves of two tensors of one size, in one.
LEMMA TwoHalves ==
  ASSUME NEW s, NEW t, Listed(s), Listed(t), Len(s) = Len(t), NEW u, u = s \o t
  PROVE  SubSeq(u, 1, Len(u) \div 2) = s /\ SubSeq(u, Len(u) \div 2 + 1, 2 * (Len(u) \div 2)) = t
<1> DEFINE half == Len(u) \div 2
<1>1. PICK S : s \in Seq(S)
  BY DEF Listed
<1>2. PICK T : t \in Seq(T)
  BY DEF Listed
<1>3. s \in Seq(S \cup T) /\ t \in Seq(S \cup T) /\ <<>> \in Seq(S \cup T)
  BY <1>1, <1>2
<1> DEFINE a == Len(s)
<1>4. a \in Nat /\ half = a
  <2>1. a \in Nat /\ Len(s \o t) = a + a
    BY ConcatListed, ListedIs
  <2> HIDE DEF a
  <2>2. (a + a) \div 2 = a
    BY <2>1
  <2> QED
    BY <2>1, <2>2
<1>5. SubSeq(s \o t, 1, a) = s /\ SubSeq(s \o t, a + 1, a + a) = t
  <2>1. s \o t \o <<>> = s \o t /\ Len(t) = a
    BY <1>3
  <2>2. /\ SubSeq(s \o t \o <<>>, 1, Len(s)) = s
        /\ SubSeq(s \o t \o <<>>, Len(s) + 1, Len(s) + Len(t)) = t
    <3>1. \E U : s \in Seq(U) /\ t \in Seq(U) /\ <<>> \in Seq(U)
      BY <1>3
    <3> QED
      BY ONLY <3>1, ThreeParts
  <2> QED
    BY <2>1, <2>2
<1>6. a + a = 2 * half
  BY SMTT(20), <1>4
<1> QED
  BY <1>4, <1>5, <1>6

\* The number of an expert, and the entries of the other parameters have none.
LEMMA ExpertSame ==
  ASSUME NEW l \in Layouts, NEW r \in Ranks(l), NEW p, ParamOK(l, PpRank(l, r), p)
  PROVE  /\ p \in ParamSet /\ p.kind \in Kinds /\ ExpertOf(l, r, p) = Place(l, r, p)[2]
         /\ p.kind \notin ExpertKinds => p.expert = None /\ Place(l, r, p)[2] = None
         /\ p.kind \in ExpertKinds => p.expert \in 0 .. LocalExperts(l) - 1 /\ p.layer # None
         /\ p.layer # None => /\ p.vp \in 0 .. l.vp - 1 /\ p.layer \in 0 .. StageSize(l) - 1
                              /\ InLayer(l, Global(l, r, p), p) \/ IsBias(l, Global(l, r, p), p)
         /\ p.layer = None => OuterParam(l, PpRank(l, r), p.vp, p)
<1>1. p \in ParamSet /\ p.kind \in Kinds /\ StageSize(l) \in Nat /\ LocalExperts(l) \in Nat
  BY LayoutFacts DEF ParamOK, ParamSet
<1>2. p.layer # None => /\ p.vp \in 0 .. l.vp - 1 /\ p.layer \in 0 .. StageSize(l) - 1
                        /\ InLayer(l, Global(l, r, p), p) \/ IsBias(l, Global(l, r, p), p)
  BY DEF ParamOK, OuterParam, Global
<1>3. p.layer = None => OuterParam(l, PpRank(l, r), p.vp, p)
  BY <1>1 DEF ParamOK, None
<1>4. p.kind \in ExpertKinds => p.expert \in 0 .. LocalExperts(l) - 1 /\ p.layer # None
  BY <1>2, <1>3 DEF OuterParam, OuterOf, ExpertKinds, InLayer, IsBias, AttentionSet, MlpSet, Opens
<1>5. p.kind \notin ExpertKinds => p.expert = None
  BY <1>2, <1>3 DEF OuterParam, InLayer, IsBias
<1>6. ExpertOf(l, r, p) = Place(l, r, p)[2]
  <2>1. CASE p.kind \in ExpertKinds
    <3> DEFINE a == EpRank(l, r) * LocalExperts(l)
    <3>1. a \in Int
      BY <1>1, RankFacts
    <3>2. ExpertOf(l, r, p) = p.expert + a /\ p.expert # None /\ Place(l, r, p)[2] = a + p.expert
      BY <1>1, <1>4, <2>1 DEF ExpertOf, ExpertId, LocalExperts, Place, None
    <3> HIDE DEF a
    <3> QED
      BY <3>1, <3>2, <1>1, <1>4, <2>1
  <2>2. CASE p.kind \notin ExpertKinds
    BY <1>5, <2>2 DEF ExpertOf, Place
  <2> QED
    BY <2>1, <2>2
<1> QED
  BY <1>1, <1>2, <1>3, <1>4, <1>5, <1>6 DEF Place

\* The number that the map gives a layer is the model's, and names a layer of the model.
LEMMA HeldNumber ==
  ASSUME NEW l \in Layouts, NEW r \in Ranks(l), NEW p, ParamOK(l, PpRank(l, r), p), p.layer # None
  PROVE  LET x == <<PpRank(l, r), p.vp, p.layer>>
         IN /\ Layered(l) /\ x \in Places(l) /\ Held(l, x) = Global(l, r, p)
            /\ Global(l, r, p) \in LayerNumbers(l)
<1> DEFINE x == <<PpRank(l, r), p.vp, p.layer>>
<1>1. x \in Places(l) /\ Held(l, x) = Global(l, r, p)
  BY ExpertSame, RankFacts DEF Places, Held, Global
<1>2. Layered(l)
  <2> SUFFICES ASSUME l.layers = 0 PROVE FALSE
    BY DEF Layered
  <2>1. StageSize(l) = 0
    <3> DEFINE y == l.pp * l.vp
    <3> HIDE DEF y
    <3> QED
      BY LayoutFacts DEF StageSize, y
  <2> QED
    BY <2>1, ExpertSame
<1> HIDE DEF x
<1> QED
  BY <1>1, <1>2, NamesAreLayers DEF x

----------------------------------------------------------------------------
\* Parameters of two parts.

\* The halves of a first projection, and the part of another.
LEMMA FirstRows ==
  ASSUME NEW l \in Layouts, NEW r \in Ranks(l), NEW p, ParamOK(l, PpRank(l, r), p), p.kind \in FirstKinds
  PROVE  /\ Len(Pieces(l, r, p)) = 2
         /\ \A i \in 1 .. 2 : /\ Pieces(l, r, p)[i].part = FirstNames(p.kind)[i]
                              /\ Pieces(l, r, p)[i].rows = HeldIn(l, r, Place(l, r, p), FirstNames(p.kind)[i])
<1> DEFINE rows == TensorOf(l, r, p)
           half == Len(rows) \div 2
           g == FirstNames(p.kind)[1]
           u == FirstNames(p.kind)[2]
           n == Place(l, r, p)
           s == HeldIn(l, r, n, g)
           t == HeldIn(l, r, n, u)
<1>1. p \in ParamSet
  BY ExpertSame
<1>2. /\ Len(McoreParts[p.kind]) = 2 /\ McoreParts[p.kind][1] = g /\ McoreParts[p.kind][2] = u
      /\ p.kind # "linear_qkv" /\ p.kind \notin DownProjections
      /\ g \in PartNames \ WholeParts /\ u \in PartNames \ WholeParts
      /\ Size(l, g) = Size(l, u)
  BY DEF FirstKinds, FirstNames, McoreParts, PartNames, WholeParts, Size, DownProjections
<1>3. Pieces(l, r, p) = <<Piece(g, "bf16", SubSeq(rows, 1, half)), Piece(u, "bf16", SubSeq(rows, half + 1, 2 * half))>>
  BY DEF Pieces
<1>4. rows = s \o t
  BY <1>1, <1>2, TensorIs DEF TensorOf, Gathers
<1>5. Listed(s) /\ Listed(t) /\ Len(s) = Len(t)
  <2>1. n[1] \in Int /\ n[2] \in Int
    BY <1>1, PlaceIs
  <2>2. TpRank(l, r) \in Nat /\ l.tp \in Nat \ {0}
    BY RankFacts, LayoutFacts
  <2>3. \A part \in {g, u} : Listed(Full(l, n[1], n[2], part)) /\ Len(Full(l, n[1], n[2], part)) = Size(l, part)
    BY <1>2, <2>1, FullType DEF Listed
  <2>4. s = Slice(Full(l, n[1], n[2], g), TpRank(l, r), l.tp) /\ t = Slice(Full(l, n[1], n[2], u), TpRank(l, r), l.tp)
    BY <1>2 DEF HeldIn
  <2> HIDE DEF s, t, n, g, u
  <2> QED
    BY <1>2, <2>2, <2>3, <2>4, SameSlices
<1> HIDE DEF s, t, n, rows
<1>6. SubSeq(rows, 1, half) = s /\ SubSeq(rows, half + 1, 2 * half) = t
  BY ONLY <1>4, <1>5, TwoHalves
<1> HIDE DEF half, g, u
<1>7. Len(Pieces(l, r, p)) = 2 /\ Pieces(l, r, p)[1].part = g /\ Pieces(l, r, p)[1].rows = s
      /\ Pieces(l, r, p)[2].part = u /\ Pieces(l, r, p)[2].rows = t
  <2>1. Pieces(l, r, p) = <<Piece(g, "bf16", s), Piece(u, "bf16", t)>>
    BY <1>3, <1>6
  <2>2. \A part, seq : Piece(part, "bf16", seq).part = part /\ Piece(part, "bf16", seq).rows = seq
    BY DEF Piece
  <2> QED
    BY ONLY <2>1, <2>2
<1> QED
  BY <1>7 DEF g, u, s, t, n

\* One entry.
LEMMA OneEntry == \A x : [i \in 1 .. 1 |-> x] = <<x>>
  OBVIOUS

\* Where the hypothesis holds, what is packed of two down projections is the one after the other.
LEMMA FusedRows ==
  ASSUME NEW l \in Layouts, Matching(l), NEW r \in Ranks(l), NEW p, ParamOK(l, PpRank(l, r), p),
         p.kind = "linear_kv_down_proj", l.qLora
  PROVE  Fused(l, r, p) = Canon(l, <<Global(l, r, p), None, "fused_qkv_a_proj_with_mqa">>)
<1> DEFINE layer == Global(l, r, p)
           d == DownOf(p)
           q == Full(l, layer, None, "q_a_proj")
           kv == Full(l, layer, None, "kv_a_proj")
<1>1. /\ p \in ParamSet /\ p.expert = None
      /\ Place(l, r, p)[1] = layer /\ Place(l, r, p)[2] = None
  BY ExpertSame DEF ExpertKinds, Place
<1>2. /\ d \in ParamSet /\ d.kind = "linear_q_down_proj" /\ d.expert = None
      /\ Place(l, r, d)[1] = layer /\ Place(l, r, d)[2] = None
  BY <1>1 DEF DownOf, ParamSet, Kinds, Place, Global
<1>3. TensorOf(l, r, d) = q
  <2>1. McoreParts[d.kind][1] = "q_a_proj" /\ d.kind \in DownProjections
    BY <1>2 DEF McoreParts, DownProjections
  <2> HIDE DEF d
  <2> QED
    BY <1>2, <2>1, GatheredDown
<1>4. TensorOf(l, r, p) = kv
  <2>1. McoreParts[p.kind][1] = "kv_a_proj" /\ p.kind \in DownProjections
    BY DEF McoreParts, DownProjections
  <2> QED
    BY <1>1, <2>1, GatheredDown
<1>5. Fused(l, r, p) = IF l.tp = 1 THEN q \o kv ELSE PackFused(q, kv, l.infTp)
  BY <1>3, <1>4 DEF Fused
<1>6. Canon(l, <<Global(l, r, p), None, "fused_qkv_a_proj_with_mqa">>) = q \o kv
  BY DEF Canon
<1>7. ASSUME l.tp # 1 PROVE PackFused(q, kv, l.infTp) = q \o kv
  <2>1. p.layer # None
    BY ExpertSame DEF OuterParam, OuterOf
  <2>2. ~Lightning(l, layer)
    BY <2>1, ExpertSame DEF InLayer, IsBias, AttentionSet, MlpSet, ExpertKinds
  <2>3. layer \in 0 .. l.layers - 1
    BY <2>1, HeldNumber DEF LayerNumbers
  <2>4. l.infTp = 1
    BY <1>7, <2>2, <2>3 DEF Matching
  <2>5. l.tp > 1
    BY <1>7, LayoutFacts
  <2>6. l.width \in Nat \ {0}
    BY <2>5, LayoutFacts, McoreConverterAssumption DEF McoreConverterAssumption
  <2>7. /\ Listed(q) /\ Listed(kv) /\ Len(q) = 1 * l.width /\ Len(kv) = 1 * l.width
    <3>1. layer \in Int /\ None \in Int /\ {"q_a_proj", "kv_a_proj"} \subseteq PartNames
      BY <2>3, LayoutFacts DEF PartNames, None
    <3>2. Size(l, "q_a_proj") = l.width /\ Size(l, "kv_a_proj") = l.width /\ 1 * l.width = l.width
      BY <2>6 DEF Size, WholeParts
    <3> HIDE DEF layer
    <3> QED
      BY <3>1, <3>2, FullType DEF Listed
  <2> HIDE DEF q, kv
  <2>8. ASSUME NEW s, Listed(s), Len(s) = 1 * l.width PROVE Chunk(s, 1) = <<s>>
    <3> DEFINE w == l.width
    <3>1. w \in Nat \ {0} /\ Listed(s) /\ Len(s) = 1 * w /\ 1 \in Nat \ {0}
      BY <2>6, <2>8
    <3> HIDE DEF w
    <3>2. Chunk(s, 1) = [i \in 1 .. 1 |-> SubSeq(s, (i - 1) * w + 1, i * w)]
      BY ONLY <3>1, ChunkIs
    <3>3. (1 - 1) * w + 1 = 1 /\ 1 * w = Len(s)
      BY <3>1
    <3>4. \A i \in 1 .. 1 : SubSeq(s, (i - 1) * w + 1, i * w) = s
      BY <3>1, <3>3, WholeSubSeq
    <3>5. Chunk(s, 1) = [i \in 1 .. 1 |-> s]
      BY <3>2, <3>4
    <3> QED
      BY <3>5, OneEntry
  <2>9. Listed(q \o kv)
    BY <2>7, ConcatListed
  <2>10. [i \in 1 .. 1 |-> Chunk(q, 1)[i] \o Chunk(kv, 1)[i]] = <<q \o kv>>
    <3>1. Chunk(q, 1) = <<q>> /\ Chunk(kv, 1) = <<kv>>
      BY <2>7, <2>8
    <3>2. \A i \in 1 .. 1 : Chunk(q, 1)[i] \o Chunk(kv, 1)[i] = q \o kv
      <4>1. Chunk(q, 1)[1] = q /\ Chunk(kv, 1)[1] = kv
        BY <3>1
      <4>2. \A i \in 1 .. 1 : i = 1
        OBVIOUS
      <4> QED
        BY <4>1, <4>2
    <3>3. [i \in 1 .. 1 |-> Chunk(q, 1)[i] \o Chunk(kv, 1)[i]] = [i \in 1 .. 1 |-> q \o kv]
      BY <3>2
    <3> QED
      BY <3>3, OneEntry
  <2>11. PackFused(q, kv, 1) = FlattenSeq(<<q \o kv>>)
    BY <2>10 DEF PackFused
  <2> QED
    BY <2>4, <2>9, <2>11, FlattenFew
<1> QED
  BY <1>5, <1>6, <1>7

----------------------------------------------------------------------------
\* What the training job hands over.

\* What a rank makes of a parameter is, by its name, the whole tensor or the slice of the rank.
LEMMA TrainRows ==
  ASSUME NEW l \in Layouts, Matching(l), NEW r \in Ranks(l), NEW p, ParamOK(l, PpRank(l, r), p),
         NEW e \in Made(l, r, p, Global(l, r, p))
  PROVE  e.rows = CutFor(l, Name(e), TpRank(l, r), l.tp)
<1> DEFINE P == Pieces(l, r, p)
           n == Place(l, r, p)
           k == TpRank(l, r)
<1>1. PICK i \in 1 .. Len(P) : e.part = P[i].part /\ e.rows = P[i].rows
  BY MadeFacts
<1>2. /\ p \in ParamSet /\ p.kind \in Kinds /\ Name(e) = <<n[1], n[2], e.part>>
      /\ p.kind \notin ExpertKinds => p.expert = None /\ n[2] = None
  BY MadeFacts, ExpertSame DEF Name, Place
<1>3. \A part, dtype, rows : Piece(part, dtype, rows).part = part /\ Piece(part, dtype, rows).rows = rows
  BY DEF Piece
<1> DEFINE m == <<n[1], n[2], e.part>>
<1>4. m[1] = n[1] /\ m[2] = n[2] /\ m[3] = e.part
  OBVIOUS
<1>5. ASSUME NEW x, P = <<x>> PROVE e.part = x.part /\ e.rows = x.rows
  BY <1>1, <1>5
<1>6. ASSUME NEW part \in PartNames, e.part = part, e.rows = HeldIn(l, r, n, part)
      PROVE  e.rows = CutFor(l, m, k, l.tp)
  <2>1. part \notin {"query_key_value", "fused_qkv_a_proj_with_mqa", "kv_a_proj_with_mqa"}
    BY DEF PartNames
  <2> HIDE DEF m, n, P, k
  <2> QED
    BY <1>4, <1>6, <2>1 DEF CutFor, HeldIn, k, Canon, NotCut
<1>7. CASE p.kind \in FirstKinds
  BY <1>2, <1>6, <1>1, <1>7, FirstRows DEF FirstNames, PartNames
<1>8. CASE p.kind \in DownProjections
  <2>1. k = 0 /\ p.kind = "linear_kv_down_proj" /\ n[2] = None
    BY <1>2, <1>8, <1>1 DEF Pieces, DownProjections, FirstKinds, ExpertKinds
  <2>2. CASE l.qLora
    <3>1. e.part = "fused_qkv_a_proj_with_mqa" /\ e.rows = Fused(l, r, p)
      BY <1>3, <1>5, <2>1, <2>2 DEF Pieces, DownProjections, FirstKinds
    <3> QED
      BY <1>2, <1>4, <3>1, <2>1, <2>2, FusedRows DEF CutFor, NotCut, Place
  <2>3. CASE ~l.qLora
    <3>1. e.part = "kv_a_proj_with_mqa" /\ e.rows = TensorOf(l, r, p)
      BY <1>3, <1>5, <2>1, <2>3 DEF Pieces, DownProjections, FirstKinds, PartName
    <3> QED
      BY <1>2, <1>4, <2>1, <3>1, <1>8, GatheredDown DEF CutFor, NotCut, Canon, McoreParts
  <2> QED
    BY <2>2, <2>3
<1>9. CASE p.kind = "linear_qkv"
  <2>1. e.part = "query_key_value" /\ e.rows = ConvertQkv(l, r, TensorOf(l, r, p))
    BY <1>3, <1>5, <1>9 DEF Pieces, DownProjections, FirstKinds
  <2>2. e.rows = Slice(Merged(l, n[1]), k, l.tp)
    BY <1>2, <1>9, <2>1, ExpertSame, ConvertQkvFull DEF Matching, Place, Global, OuterParam, OuterOf
  <2> QED
    BY <1>2, <1>4, <2>1, <2>2 DEF CutFor, NotCut, WholeParts, Canon
<1>10. CASE p.kind \notin FirstKinds \cup DownProjections \cup {"linear_qkv"}
  <2> DEFINE part == PartName[p.kind]
  <2>1. P = <<Piece(part, Dtype(p.kind), TensorOf(l, r, p))>>
    BY <1>10 DEF Pieces, DownProjections
  <2>2. TensorOf(l, r, p) = McoreTensor(l, r, p)
    BY <1>10 DEF TensorOf, Gathers
  <2>3. TensorOf(l, r, p) = HeldIn(l, r, n, part) /\ part \in PartNames
    BY <1>2, <1>10, <2>2, TensorIs DEF Kinds, McoreParts, PartName, FirstKinds, DownProjections
  <2> HIDE DEF part, P, n, m
  <2> QED
    BY <1>2, <1>6, <2>3, <1>3, <1>5, <2>1 DEF m
<1> QED
  BY <1>7, <1>8, <1>9, <1>10

----------------------------------------------------------------------------
\* The names of the training job.

\* The parts of an MLP, and the parts of a layer by the names both sides use.
Trio == {"gate_proj", "up_proj", "down_proj"}
LayerParts(l, layer) ==
  {"input_layernorm", "post_attention_layernorm", "dense"}
  \cup (IF Lightning(l, layer) THEN {"query_key_value", "query_layernorm", "key_layernorm", "g_proj", "g_norm"}
        ELSE {"kv_a_layernorm", "kv_b_proj"}
             \cup IF l.qLora THEN {"fused_qkv_a_proj_with_mqa", "q_a_layernorm", "q_b_proj"}
                  ELSE {"q_proj", "kv_a_proj_with_mqa"})
  \cup (IF Dense(l, layer) THEN Trio
        ELSE {"gate", "expert_bias", "shared_gate_proj", "shared_up_proj", "shared_down_proj"})
\* The names of the model.
IsName(l, layer, expert, part) ==
  \/ layer = None /\ expert = None /\ part \in {"embed_tokens", "norm", "lm_head"}
  \/ layer \in LayerNumbers(l) /\ expert = None /\ part \in LayerParts(l, layer)
  \/ layer \in LayerNumbers(l) /\ ~Dense(l, layer) /\ expert \in 0 .. l.experts - 1 /\ part \in Trio

\* That rank r makes a tensor of name n of a parameter, and that it has one.
Makes(l, r, p, n) ==
  /\ ParamOK(l, PpRank(l, r), p) /\ n = <<Place(l, r, p)[1], Place(l, r, p)[2], n[3]>>
  /\ n[3] \in PartsOf(l, p.kind) /\ (p.kind \in DownProjections => TpRank(l, r) = 0)
Holds(l, r, n) ==
  \E p \in ParamSet : ParamOK(l, PpRank(l, r), p) /\ \E e \in Made(l, r, p, Global(l, r, p)) : Name(e) = n

\* The names of a rank's tensors.
LEMMA HoldsIs ==
  ASSUME NEW l \in Layouts, NEW r \in Ranks(l), NEW n
  PROVE  Holds(l, r, n) <=> \E p \in ParamSet : Makes(l, r, p, n)
<1>1. ASSUME NEW p \in ParamSet, ParamOK(l, PpRank(l, r), p), NEW e \in Made(l, r, p, Global(l, r, p)), Name(e) = n
      PROVE  Makes(l, r, p, n)
  <2>1. /\ e.layer = Global(l, r, p) /\ e.expert = ExpertOf(l, r, p) /\ e.part \in PartsOf(l, p.kind)
        /\ Len(Pieces(l, r, p)) # 0
    BY MadeFacts
  <2>2. p.kind \in DownProjections => TpRank(l, r) = 0
    BY <2>1 DEF Pieces, DownProjections, FirstKinds
  <2> QED
    BY <1>1, <2>1, ExpertSame, <2>2 DEF Makes, Name, Place
<1>2. ASSUME NEW p \in ParamSet, Makes(l, r, p, n)
      PROVE  ParamOK(l, PpRank(l, r), p) /\ \E e \in Made(l, r, p, Global(l, r, p)) : Name(e) = n
  <2> DEFINE P == Pieces(l, r, p)
  <2>1. ParamOK(l, PpRank(l, r), p) /\ n[3] \in PartsOf(l, p.kind) /\ (p.kind \in DownProjections => TpRank(l, r) = 0)
    BY <1>2 DEF Makes
  <2>2. \E i \in 1 .. Len(P) : P[i].part = n[3]
    <3>1. CASE p.kind \in FirstKinds
      <4>1. \A i \in 1 .. 2 : P[i].part = FirstNames(p.kind)[i]
        BY <2>1, <3>1, FirstRows
      <4>2. Len(P) = 2
        BY <2>1, <3>1, FirstRows
      <4> HIDE DEF P
      <4> QED
        BY <4>1, <4>2, <2>1, <3>1 DEF PartsOf
    <3>2. CASE p.kind \notin FirstKinds
      <4>1. \E dtype, rows : P = <<Piece(n[3], dtype, rows)>>
        <5>1. p.kind # "linear_q_down_proj"
          BY <2>1, <3>2 DEF PartsOf
        <5>2. CASE p.kind = "linear_kv_down_proj" /\ l.qLora
          BY <2>1, <3>2, <5>1, <5>2 DEF Pieces, DownProjections, PartsOf
        <5>3. CASE ~(p.kind = "linear_kv_down_proj" /\ l.qLora)
          BY <2>1, <3>2, <5>1, <5>3 DEF Pieces, PartsOf, PartName
        <5> QED
          BY <5>2, <5>3
      <4> HIDE DEF P
      <4>2. PICK dtype, rows : P = <<Piece(n[3], dtype, rows)>>
        BY <4>1
      <4> QED
        BY <4>2 DEF Piece
    <3> QED
      BY <3>1, <3>2
  <2>3. PICK i \in 1 .. Len(P) : P[i].part = n[3]
    BY <2>2
  <2> DEFINE e == Pick(l, r, p, Global(l, r, p), i)
  <2>4. Name(e) = n
    BY <1>2, <2>1, <2>3, ExpertSame DEF Makes, Place, Pick, Entry, Name
  <2> QED
    BY <2>1, MadeFacts, <2>4
<1> QED
  BY <1>1, <1>2 DEF Holds

----------------------------------------------------------------------------
\* Ranks and names.

\* The rank at a place of the pipeline, the expert and the tensor parallel group.
LEMMA RankAt ==
  ASSUME NEW l \in Layouts, NEW pp \in 0 .. l.pp - 1, NEW q \in 0 .. l.ep - 1
  PROVE  \E r \in Ranks(l) : TpRank(l, r) = 0 /\ PpRank(l, r) = pp /\ EpRank(l, r) = q
<1> DEFINE t == l.tp
           e == l.ep
           b == pp * e + q
           r == b * t + 0
<1>1. t \in Nat \ {0} /\ e \in Nat \ {0} /\ l.pp \in Nat \ {0} /\ pp \in Nat /\ q \in 0 .. e - 1 /\ pp < l.pp
      /\ 0 \in 0 .. t - 1
  BY LayoutFacts
<1> HIDE DEF t, e
<1>2. b \in Nat /\ b \div e = pp /\ b % e = q
  <2>1. b \div e = pp /\ b % e = q
    BY ONLY <1>1, EuclidUnique DEF b
  <2> QED
    BY <1>1, <2>1
<1> HIDE DEF b
<1>3. r \in Nat /\ r \div t = b /\ r % t = 0
  BY <1>1, <1>2, EuclidUnique
<1>4. r < (l.pp * e) * t
  <2> DEFINE w == l.pp * e
  <2> HIDE DEF w
  <2> QED
    BY <1>1, <1>2, PlaceLess DEF w
<1> DEFINE z == t * e * l.pp
<1>5. z \in Nat
  BY <1>1
<1>6. r \in 0 .. z - 1
  <2>1. r < z
    BY <1>4, <1>1
  <2> HIDE DEF z, r
  <2> QED
    BY <1>3, <1>5, <2>1
<1> HIDE DEF r
<1>7. TpRank(l, r) = 0 /\ PpRank(l, r) = pp /\ EpRank(l, r) = q
  BY <1>2, <1>3, <1>1, QuotientTwice DEF TpRank, PpRank, EpRank, t, e
<1> QED
  BY <1>6, <1>7 DEF Ranks, t, e, z

\* A rank is known by its places.
LEMMA OneRank ==
  ASSUME NEW l \in Layouts, l.ep = 1, NEW r \in Ranks(l), NEW q \in Ranks(l),
         TpRank(l, r) = TpRank(l, q), PpRank(l, r) = PpRank(l, q)
  PROVE  r = q
<1>1. l.tp \in Nat \ {0} /\ r \in Nat /\ q \in Nat /\ l.tp * 1 = l.tp
  BY LayoutFacts, RankFacts
<1> QED
  BY <1>1, QuotientOrder DEF TpRank, PpRank

\* The names of a rank are names of the model.
LEMMA TrainNamed ==
  ASSUME NEW l \in Layouts, NEW r \in Ranks(l), NEW p \in ParamSet, NEW n, Makes(l, r, p, n)
  PROVE  n = <<n[1], n[2], n[3]>> /\ IsName(l, n[1], n[2], n[3])
<1>1. /\ ParamOK(l, PpRank(l, r), p) /\ n[1] = Global(l, r, p) /\ n[2] = Place(l, r, p)[2]
      /\ n[3] \in PartsOf(l, p.kind) /\ n = <<n[1], n[2], n[3]>>
  <2>1. n = <<Place(l, r, p)[1], Place(l, r, p)[2], n[3]>>
    BY DEF Makes
  <2>2. n[1] = Place(l, r, p)[1] /\ n[2] = Place(l, r, p)[2]
    BY <2>1
  <2>3. Place(l, r, p)[1] = Global(l, r, p)
    BY DEF Place
  <2> QED
    BY <2>1, <2>2, <2>3 DEF Makes
<1>2. CASE p.layer = None
  <2>1. p.kind \in OuterKinds /\ p.kind \notin ExpertKinds
    BY <1>1, <1>2, ExpertSame DEF OuterParam, OuterOf, OuterKinds, ExpertKinds
  <2>2. n[1] = None /\ n[2] = None
    BY <1>1, <1>2, <2>1, ExpertSame DEF Global
  <2>3. n[3] \in {"embed_tokens", "norm", "lm_head"}
    BY <1>1, <2>1 DEF PartsOf, OuterKinds, FirstKinds, PartName
  <2> QED
    BY <1>1, <2>2, <2>3 DEF IsName
<1>3. CASE p.layer # None
  <2>1. n[1] \in LayerNumbers(l) /\ (InLayer(l, n[1], p) \/ IsBias(l, n[1], p))
    BY <1>1, <1>3, HeldNumber, ExpertSame
  <2>2. CASE p.kind \in ExpertKinds
    <3>1. p.expert \in 0 .. LocalExperts(l) - 1 /\ p.expert # None /\ ~Dense(l, n[1])
      BY <1>1, <2>1, <2>2, ExpertSame, LayoutFacts
         DEF InLayer, IsBias, ExpertKinds, MlpSet, AttentionSet, Opens, None
    <3>2. n[3] \in Trio
      BY <1>1, <2>2 DEF PartsOf, ExpertKinds, FirstKinds, FirstNames, PartName, Trio
    <3> DEFINE m == LocalExperts(l)
               q == EpRank(l, r)
               x == p.expert
    <3>3. l.ep \in Nat \ {0} /\ l.experts \in Nat /\ m \in Nat \ {0} /\ q \in Nat /\ q < l.ep /\ m * l.ep <= l.experts
      <4>1. l.ep \in Nat \ {0} /\ l.experts \in Nat /\ LocalExperts(l) \in Nat /\ r \in Nat /\ l.tp \in Nat \ {0}
        BY LayoutFacts, RankFacts
      <4>2. \E a \in Nat, u \in 0 .. l.ep - 1 : a = l.experts \div l.ep /\ u = l.experts % l.ep /\ l.experts = a * l.ep + u
        BY <4>1, Euclid
      <4>3. r \div l.tp \in Nat
        BY <4>1
      <4>4. q \in 0 .. l.ep - 1
        BY <4>1, <4>3 DEF EpRank
      <4>5. m # 0
        BY <3>1, <4>1
      <4>6. PICK a \in Nat, u \in 0 .. l.ep - 1 : a = m /\ l.experts = a * l.ep + u
        BY <4>2 DEF LocalExperts
      <4>7. a * l.ep \in Nat /\ a * l.ep <= l.experts
        BY <4>1, <4>6
      <4> HIDE DEF m, q
      <4> QED
        BY <4>1, <4>4, <4>5, <4>6, <4>7 DEF m
    <3>4. n[2] = q * m + x
      BY <1>1, <3>1 DEF Place
    <3> HIDE DEF m, q, x
    <3>5. x \in 0 .. m - 1
      BY <3>1 DEF m, x
    <3>6. q * m + x < l.ep * m
      BY <3>3, <3>5, PlaceLess
    <3>7. l.ep * m = m * l.ep /\ q * m \in Nat
      BY <3>3
    <3> DEFINE y == q * m
               z == m * l.ep
    <3>8. y \in Nat /\ z <= l.experts /\ z \in Int /\ y + x < z
      BY <3>3, <3>6, <3>7
    <3> HIDE DEF y, z
    <3>9. y + x \in 0 .. l.experts - 1
      BY <3>3, <3>5, <3>8
    <3> QED
      BY <1>1, <2>1, <3>1, <3>2, <3>4, <3>9 DEF IsName, y
  <2>3. CASE p.kind \notin ExpertKinds
    <3>1. n[2] = None /\ p.kind \in Kinds
      BY <1>1, <2>3, ExpertSame
    <3>2. n[3] \in LayerParts(l, n[1])
      <4>1. CASE p.kind \in AttentionSet(l, n[1])
        BY <1>1, <4>1 DEF AttentionSet, PartsOf, FirstKinds, PartName, LayerParts, Opens
      <4>2. CASE p.kind \notin AttentionSet(l, n[1])
        <5>1. p.kind \in MlpSet(l, n[1]) \cup {"expert_bias"} /\ (p.kind = "expert_bias" => ~Dense(l, n[1]))
          BY <2>1, <2>3, <4>2 DEF InLayer, IsBias, MlpSet
        <5> QED
          BY <1>1, <5>1 DEF MlpSet, PartsOf, FirstKinds, FirstNames, PartName, LayerParts, Trio
      <4> QED
        BY <4>1, <4>2
    <3> QED
      BY <1>1, <2>1, <3>1, <3>2 DEF IsName
  <2> QED
    BY <2>2, <2>3
<1> QED
  BY <1>2, <1>3

----------------------------------------------------------------------------
\* Every name is made.

\* The parameter that a part of a layer comes from.
LEMMA KindFor ==
  ASSUME NEW l, l.qLora \in BOOLEAN, NEW a, NEW c \in LayerParts(l, a)
  PROVE  LET k == Source(l, a, None)[c]
         IN /\ k \in Kinds \ ExpertKinds /\ c \in PartsOf(l, k)
            /\ k \in AttentionSet(l, a) \cup MlpSet(l, a) \/ (~Dense(l, a) /\ k = "expert_bias")
<1> DEFINE k == Source(l, a, None)[c]
<1>1. CASE c \in {"input_layernorm", "post_attention_layernorm", "dense"}
  <2>1. k \in {"attn_input_layernorm", "input_layernorm", "pre_mlp_layernorm", "linear_proj"}
        /\ (k = "attn_input_layernorm" => Lightning(l, a)) /\ (k = "input_layernorm" => ~Lightning(l, a))
        /\ c = PartName[k]
    BY <1>1 DEF Source, PartName
  <2> HIDE DEF k
  <2>2. k \in AttentionSet(l, a)
    BY <2>1 DEF AttentionSet
  <2> QED
    BY <2>1, <2>2 DEF Kinds, ExpertKinds, PartsOf, FirstKinds, k
<1>2. CASE c \in {"query_key_value", "query_layernorm", "key_layernorm", "g_proj", "g_norm"}
  <2>1. k \in {"linear_qkv", "q_layernorm", "k_layernorm", "linear_gate", "gate_norm"} /\ c = PartName[k]
    BY <1>2 DEF Source, PartName
  <2> HIDE DEF k
  <2>2. k \in AttentionSet(l, a)
    BY <2>1, <1>2 DEF AttentionSet, LayerParts, Trio
  <2> QED
    BY <2>1, <2>2 DEF Kinds, ExpertKinds, PartsOf, FirstKinds, k
<1>3. CASE c \in {"kv_a_layernorm", "kv_b_proj", "q_a_layernorm", "q_b_proj", "q_proj"}
  <2>1. k \in {"linear_kv_up_layer_norm", "linear_kv_up_proj", "linear_q_up_layer_norm", "linear_q_up_proj", "linear_q_proj"}
        /\ c = PartName[k] /\ (k = "linear_q_proj" => c = "q_proj")
        /\ (k \in {"linear_q_up_layer_norm", "linear_q_up_proj"} => c \in {"q_a_layernorm", "q_b_proj"})
    BY <1>3 DEF Source, PartName
  <2> HIDE DEF k
  <2>2. k \in AttentionSet(l, a)
    BY <2>1, <1>3 DEF AttentionSet, Opens, LayerParts, Trio
  <2> QED
    BY <2>1, <2>2 DEF Kinds, ExpertKinds, PartsOf, FirstKinds, k
<1>4. CASE c \in {"kv_a_proj_with_mqa", "fused_qkv_a_proj_with_mqa"}
  <2>1. k = "linear_kv_down_proj"
    BY <1>4 DEF Source
  <2>2. ~Lightning(l, a) /\ (c = "kv_a_proj_with_mqa" <=> ~l.qLora)
    BY <1>4 DEF LayerParts, Trio
  <2> HIDE DEF k
  <2>3. k \in AttentionSet(l, a)
    BY <2>1, <2>2 DEF AttentionSet
  <2> QED
    BY <1>4, <2>1, <2>2, <2>3 DEF Kinds, ExpertKinds, PartsOf, FirstKinds, PartName, k
<1>5. CASE c \in Trio
  <2>1. k \in {"fc1", "fc2"} /\ (k = "fc1" => c \in {"gate_proj", "up_proj"}) /\ (k = "fc2" => c = PartName[k])
    BY <1>5 DEF Source, PartName, Trio
  <2>2. Dense(l, a)
    BY <1>5 DEF LayerParts, Trio
  <2> HIDE DEF k
  <2> QED
    BY <2>1, <2>2 DEF Kinds, ExpertKinds, PartsOf, FirstKinds, FirstNames, MlpSet, k
<1>6. CASE c \in {"gate", "expert_bias", "shared_gate_proj", "shared_up_proj", "shared_down_proj"}
  <2>1. k \in {"router", "expert_bias", "shared_fc1", "shared_fc2"}
        /\ (k = "shared_fc1" => c \in {"shared_gate_proj", "shared_up_proj"}) /\ (k # "shared_fc1" => c = PartName[k])
    BY <1>6 DEF Source, PartName
  <2>2. ~Dense(l, a)
    BY <1>6 DEF LayerParts, Trio
  <2> HIDE DEF k
  <2> QED
    BY <2>1, <2>2 DEF Kinds, ExpertKinds, PartsOf, FirstKinds, FirstNames, MlpSet, k
<1> QED
  BY <1>1, <1>2, <1>3, <1>4, <1>5, <1>6 DEF LayerParts, Trio

\* The expert b is the x-th one of an expert parallel rank.
LEMMA ExpertAt ==
  ASSUME NEW l \in Layouts, l.experts % l.ep = 0, NEW b \in 0 .. l.experts - 1
  PROVE  \E q \in 0 .. l.ep - 1, x \in 0 .. LocalExperts(l) - 1 : b = q * LocalExperts(l) + x
<1> DEFINE m == LocalExperts(l)
<1>1. l.ep \in Nat \ {0} /\ l.experts \in Nat /\ m \in Nat /\ b \in Nat /\ b < l.experts
  BY LayoutFacts
<1>2. l.experts = l.ep * m
  <2>1. \E q \in Nat, u \in 0 .. l.ep - 1 : q = l.experts \div l.ep /\ u = l.experts % l.ep /\ l.experts = q * l.ep + u
    BY ONLY <1>1, Euclid
  <2>2. PICK q \in Nat, u \in 0 .. l.ep - 1 : q = m /\ u = 0 /\ l.experts = q * l.ep + u
    BY <2>1 DEF LocalExperts
  <2> QED
    BY <2>2, <1>1
<1> HIDE DEF m
<1>3. m # 0
  <2>1. SUFFICES ASSUME m = 0 PROVE FALSE
    OBVIOUS
  <2> QED
    BY <1>1, <1>2, <2>1
<1>4. b \div m < l.ep /\ b \div m \in Nat /\ b % m \in 0 .. m - 1
  BY <1>1, <1>2, <1>3, QuotientLess
<1>5. \E q \in Nat, u \in 0 .. m - 1 : q = b \div m /\ b = q * m + u
  BY ONLY <1>1, <1>3, Euclid
<1>6. PICK q \in Nat, u \in 0 .. m - 1 : q = b \div m /\ b = q * m + u
  BY <1>5
<1> QED
  BY <1>6, <1>1, <1>4 DEF m

\* Every name of the model is made by some rank that is the first of its group.
LEMMA TrainHolds ==
  ASSUME NEW l \in Layouts, l.experts % l.ep = 0, NEW a, NEW b, NEW c, IsName(l, a, b, c)
  PROVE  \E r \in Ranks(l) : TpRank(l, r) = 0 /\ \E p \in ParamSet : Makes(l, r, p, <<a, b, c>>)
<1> DEFINE n == <<a, b, c>>
<1>1. l.ep \in Nat \ {0} /\ l.pp \in Nat \ {0} /\ l.vp \in Nat \ {0} /\ l.qLora \in BOOLEAN
      /\ 0 \in 0 .. l.ep - 1 /\ 0 \in 0 .. l.pp - 1 /\ l.pp - 1 \in 0 .. l.pp - 1
      /\ 0 \in 0 .. l.vp - 1 /\ l.vp - 1 \in 0 .. l.vp - 1
  BY LayoutFacts
<1>2. CASE a = None /\ b = None /\ c \in {"embed_tokens", "norm", "lm_head"}
  <2> DEFINE k == IF c = "embed_tokens" THEN "word_embeddings" ELSE IF c = "norm" THEN "final_layernorm" ELSE "output_layer"
             pp == IF c = "embed_tokens" THEN 0 ELSE l.pp - 1
             v == IF c = "embed_tokens" THEN 0 ELSE l.vp - 1
             p == [vp |-> v, layer |-> None, expert |-> None, kind |-> k]
  <2>1. pp \in 0 .. l.pp - 1 /\ v \in 0 .. l.vp - 1 /\ v \in Int
    BY <1>1
  <2>2. PICK r \in Ranks(l) : TpRank(l, r) = 0 /\ PpRank(l, r) = pp /\ EpRank(l, r) = 0
    BY <1>1, <2>1, RankAt
  <2>3. k \in OuterOf(l, pp, v) /\ k \in Kinds /\ c \in PartsOf(l, k) /\ k \in OuterKinds
    BY <1>2 DEF OuterOf, Kinds, PartsOf, PartName, FirstKinds, OuterKinds
  <2> HIDE DEF k, pp, v
  <2>4. p \in ParamSet /\ p.vp = v /\ p.layer = None /\ p.expert = None /\ p.kind = k
    BY <2>1, <2>3 DEF ParamSet, None
  <2> HIDE DEF p
  <2> QED
    BY <2>2, <2>4, <1>2, <2>3, <2>1 DEF Makes, ParamOK, OuterParam, Place, Global
<1>3. ASSUME a \in LayerNumbers(l), NEW q \in 0 .. l.ep - 1, NEW x \in Int, NEW k \in Kinds, c \in PartsOf(l, k),
             b = (IF x = None THEN None ELSE q * LocalExperts(l) + x),
             \/ x = None /\ (k \in AttentionSet(l, a) \cup MlpSet(l, a) \/ (~Dense(l, a) /\ k = "expert_bias"))
             \/ ~Dense(l, a) /\ x \in 0 .. LocalExperts(l) - 1 /\ k \in ExpertKinds
      PROVE  \E r \in Ranks(l) : TpRank(l, r) = 0 /\ \E p \in ParamSet : Makes(l, r, p, n)
  <2>1. PICK y \in Places(l) : Held(l, y) = a
    BY <1>3, LayoutFacts, HeldOnto DEF Layered, LayerNumbers
  <2>2. /\ y[1] \in 0 .. l.pp - 1 /\ y[2] \in 0 .. l.vp - 1 /\ y[3] \in 0 .. StageSize(l) - 1
        /\ HeldLayer(l, y[1], y[2], y[3]) = a
    BY <2>1 DEF Places, Held
  <2>3. PICK r \in Ranks(l) : TpRank(l, r) = 0 /\ PpRank(l, r) = y[1] /\ EpRank(l, r) = q
    BY <2>2, RankAt
  <2> DEFINE p == [vp |-> y[2], layer |-> y[3], expert |-> x, kind |-> k]
  <2>4. p \in ParamSet /\ p.vp = y[2] /\ p.layer = y[3] /\ p.expert = x /\ p.kind = k /\ y[3] # None
    BY <1>3, <2>2 DEF ParamSet, None
  <2> HIDE DEF p
  <2>5. ParamOK(l, PpRank(l, r), p)
    BY <2>2, <2>3, <2>4, <1>3 DEF ParamOK, InLayer, IsBias
  <2> QED
    BY <2>3, <2>4, <1>3, <2>5, <2>2 DEF Makes, Place, Global
<1>4. CASE a \in LayerNumbers(l) /\ b = None /\ c \in LayerParts(l, a)
  <2> DEFINE k == Source(l, a, None)[c]
  <2> HIDE DEF k
  <2> QED
    BY <1>1, <1>3, <1>4, KindFor DEF None
<1>5. CASE a \in LayerNumbers(l) /\ ~Dense(l, a) /\ b \in 0 .. l.experts - 1 /\ c \in Trio
  <2>1. PICK q \in 0 .. l.ep - 1, x \in 0 .. LocalExperts(l) - 1 : b = q * LocalExperts(l) + x
    BY <1>5, ExpertAt
  <2> DEFINE k == IF c = "down_proj" THEN "expert_fc2" ELSE "expert_fc1"
  <2>2. k \in Kinds /\ k \in ExpertKinds /\ c \in PartsOf(l, k)
    BY <1>5 DEF Kinds, ExpertKinds, PartsOf, FirstKinds, FirstNames, PartName, Trio
  <2> HIDE DEF k
  <2> QED
    BY <1>3, <1>5, <2>1, <2>2 DEF None
<1> QED
  BY <1>2, <1>4, <1>5 DEF IsName

----------------------------------------------------------------------------
\* What an inference rank names.

\* A tensor that is not a gathered one is made by all ranks of the tensor parallel group.
LEMMA HoldsAlong ==
  ASSUME NEW l \in Layouts, NEW r \in Ranks(l), NEW p \in ParamSet, NEW n, Makes(l, r, p, n),
         n[3] \notin {"kv_a_proj_with_mqa", "fused_qkv_a_proj_with_mqa"}, NEW q \in TpGroup(l, r)
  PROVE  Makes(l, q, p, n)
<1>1. q \div l.tp = r \div l.tp /\ PpRank(l, q) = PpRank(l, r)
  BY GroupFacts DEF TpGroup
<1>2. Place(l, q, p) = Place(l, r, p)
  BY <1>1 DEF Place, Global, EpRank
<1> QED
  BY <1>1, <1>2 DEF Makes, PartsOf, DownProjections, FirstKinds, PartName

\* All ranks with a name are in one stage of the pipeline.
LEMMA OneStage ==
  ASSUME NEW l \in Layouts, NEW r \in Ranks(l), NEW q \in Ranks(l), NEW p \in ParamSet, NEW o \in ParamSet, NEW n,
         Makes(l, r, p, n), Makes(l, q, o, n)
  PROVE  PpRank(l, r) = PpRank(l, q)
<1>1. /\ ParamOK(l, PpRank(l, r), p) /\ ParamOK(l, PpRank(l, q), o) /\ n[1] = Global(l, r, p) /\ n[1] = Global(l, q, o)
      /\ n[3] \in PartsOf(l, p.kind) /\ n[3] \in PartsOf(l, o.kind)
  BY DEF Makes, Place
<1>2. None \notin LayerNumbers(l)
  BY LayoutFacts DEF LayerNumbers, None
<1>3. CASE p.layer = None
  <2>1. p.kind \in OuterOf(l, PpRank(l, r), p.vp) /\ o.kind \in OuterOf(l, PpRank(l, q), o.vp)
    BY <1>1, <1>3, <1>2, HeldNumber, ExpertSame DEF OuterParam, Global
  <2>2. p.kind = o.kind /\ p.kind \in OuterKinds
    BY <1>1, <2>1 DEF OuterOf, OuterKinds, PartsOf, FirstKinds, PartName
  <2>3. CASE p.kind = "word_embeddings"
    BY <2>1, <2>2, <2>3 DEF OuterOf
  <2>4. CASE p.kind # "word_embeddings"
    BY <2>1, <2>2, <2>4 DEF OuterOf
  <2> QED
    BY <2>3, <2>4
<1>4. CASE p.layer # None
  <2> DEFINE x == <<PpRank(l, r), p.vp, p.layer>>
             y == <<PpRank(l, q), o.vp, o.layer>>
  <2>1. Layered(l) /\ x \in Places(l) /\ y \in Places(l) /\ Held(l, x) = Held(l, y)
    BY <1>1, <1>4, <1>2, HeldNumber DEF Global
  <2> QED
    BY <2>1, HeldOrder
<1> QED
  BY <1>3, <1>4

\* What worker i has under a name; its experts; and that it owns an expert.
ServedRows(l, i, n) ==
  IF n[3] \in NotCut \/ (n[2] # None /\ l.infEp # 1) THEN Canon(l, n) ELSE Slice(Canon(l, n), i, l.infTp)
Served(l, i, layer, expert, part) == View(layer, expert, part, ServedRows(l, i, <<layer, expert, part>>))
FirstExpert(l, i) == (IF l.infEp = 1 THEN 0 ELSE i) * WorkerExperts(l)
Own(l, i, expert) == expert = None \/ expert \in FirstExpert(l, i) .. FirstExpert(l, i) + WorkerExperts(l) - 1
\* What the SGLang converter makes of a parameter.
ViewsOf(l, i, name) == SglangConvertParam(l, i, name, SglangTensor(l, i, name))

\* A tensor of the model is a sequence of its size.
LEMMA FullListed ==
  ASSUME NEW l \in Layouts, NEW a, NEW b, NEW part
  PROVE  Listed(Full(l, a, b, part)) /\ Len(Full(l, a, b, part)) = Size(l, part)
<1> DEFINE s == Full(l, a, b, part)
           n == Size(l, part)
<1> HIDE DEF s, n
<1> QED
  BY LayoutFacts, ListedFunction DEF s, n, Full, Size

\* What an inference rank names of an attention parameter, or of a router.
LEMMA OneView ==
  ASSUME NEW l \in Layouts, NEW i \in Workers(l), NEW a \in Int, NEW k \in AttentionViews \cup {"gate", "expert_bias"}
  PROVE  ViewsOf(l, i, <<a, k>>) = {Served(l, i, a, None, k)}
<1>1. SglangTensor(l, i, <<a, k>>) = ServedRows(l, i, <<a, None, k>>)
  <2>1. CASE k = "query_key_value"
    <3>1. ServedRows(l, i, <<a, None, k>>) = Slice(Merged(l, a), i, l.infTp)
      BY <2>1 DEF ServedRows, NotCut, WholeParts, Canon
    <3> QED
      BY <2>1, <3>1, QkvCuts DEF Workers, SglangTensor, WholeParts
  <2>2. CASE k \in {"fused_qkv_a_proj_with_mqa", "kv_a_proj_with_mqa"}
    <3>1. ServedRows(l, i, <<a, None, k>>) = Canon(l, <<a, None, k>>)
      BY <2>2 DEF ServedRows, NotCut
    <3>2. CASE k = "kv_a_proj_with_mqa"
      BY <3>1, <3>2 DEF SglangTensor, Canon, WholeParts
    <3>3. CASE k = "fused_qkv_a_proj_with_mqa"
      BY <3>1, <3>3 DEF SglangTensor, Canon, WholeParts
    <3> QED
      BY <2>2, <3>2, <3>3
  <2>3. CASE k \in WholeParts
    BY <2>3 DEF SglangTensor, WholeParts, ServedRows, NotCut, Canon
  <2>4. CASE k \notin WholeParts \cup {"query_key_value", "fused_qkv_a_proj_with_mqa", "kv_a_proj_with_mqa"}
    BY <2>4 DEF SglangTensor, ServedRows, NotCut, Canon, AttentionViews
  <2> QED
    BY <2>1, <2>2, <2>3, <2>4
<1> QED
  BY <1>1 DEF Served, ViewsOf, SglangConvertParam, AttentionViews

\* What it names outside of the layers.
LEMMA OuterViews ==
  ASSUME NEW l \in Layouts, NEW i \in Workers(l)
  PROVE  /\ ViewsOf(l, i, <<None, "word_embeddings">>) = {Served(l, i, None, None, "embed_tokens")}
         /\ \A k \in {"norm", "lm_head"} : ViewsOf(l, i, <<None, k>>) = {Served(l, i, None, None, k)}
<1>1. ViewsOf(l, i, <<None, "word_embeddings">>) = {Served(l, i, None, None, "embed_tokens")}
  BY
     DEF ViewsOf, SglangConvertParam, SglangTensor, Served, ServedRows, NotCut, Canon, WholeParts,
       AttentionViews
<1>2. ViewsOf(l, i, <<None, "norm">>) = {Served(l, i, None, None, "norm")}
  BY
     DEF ViewsOf, SglangConvertParam, SglangTensor, Served, ServedRows, NotCut, Canon, WholeParts,
       AttentionViews
<1>3. ViewsOf(l, i, <<None, "lm_head">>) = {Served(l, i, None, None, "lm_head")}
  BY
     DEF ViewsOf, SglangConvertParam, SglangTensor, Served, ServedRows, NotCut, Canon, WholeParts,
       AttentionViews
<1> QED
  BY <1>1, <1>2, <1>3

----------------------------------------------------------------------------
\* Split projections.

\* Projections that SGLang has in one.
SplitParts == {<<"gate_proj", "up_proj">>, <<"shared_gate_proj", "shared_up_proj">>}

\* The two halves of a gate_up_proj.
LEMMA SplitViews ==
  ASSUME NEW l \in Layouts, NEW i \in Workers(l), NEW a, NEW b, NEW parts \in SplitParts
  PROVE  SplitGateUp(a, b, parts[1], parts[2], ServedRows(l, i, <<a, b, parts[1]>>) \o ServedRows(l, i, <<a, b, parts[2]>>))
           = {Served(l, i, a, b, parts[1]), Served(l, i, a, b, parts[2])}
<1> DEFINE s == ServedRows(l, i, <<a, b, parts[1]>>)
           t == ServedRows(l, i, <<a, b, parts[2]>>)
           rows == s \o t
<1>1. \A k \in 1 .. 2 : Canon(l, <<a, b, parts[k]>>) = Full(l, a, b, parts[k]) /\ Size(l, parts[k]) = l.width
                        /\ parts[k] \notin NotCut
  BY DEF SplitParts, Canon, Size, NotCut, WholeParts
<1>2. \A k \in 1 .. 2 : Listed(Canon(l, <<a, b, parts[k]>>)) /\ Len(Canon(l, <<a, b, parts[k]>>)) = l.width
  BY <1>1, FullListed
<1>3. 1 \in 1 .. 2 /\ 2 \in 1 .. 2
  OBVIOUS
<1>4. Listed(s) /\ Listed(t) /\ Len(s) = Len(t)
  <2>1. CASE b # None /\ l.infEp # 1
    <3>1. s = Canon(l, <<a, b, parts[1]>>) /\ t = Canon(l, <<a, b, parts[2]>>)
      BY <2>1 DEF ServedRows
    <3> HIDE DEF s, t
    <3> QED
      BY ONLY <1>3, <1>2, <3>1
  <2>2. CASE ~(b # None /\ l.infEp # 1)
    <3> HIDE DEF s, t
    <3> DEFINE x == Canon(l, <<a, b, parts[1]>>)
               y == Canon(l, <<a, b, parts[2]>>)
    <3>1. Listed(x) /\ Listed(y) /\ Len(x) = Len(y)
      BY <1>3, <1>2
    <3>2. s = Slice(x, i, l.infTp) /\ t = Slice(y, i, l.infTp)
      BY <1>3, <1>1, <2>2 DEF s, t, ServedRows
    <3> HIDE DEF x, y
    <3> QED
      BY WorkerFacts, <3>1, <3>2, SameSlices DEF Workers
  <2> QED
    BY <2>1, <2>2
<1>5. rows = s \o t
  OBVIOUS
<1> HIDE DEF s, t, rows
<1>6. SubSeq(rows, 1, Len(rows) \div 2) = s /\ SubSeq(rows, Len(rows) \div 2 + 1, 2 * (Len(rows) \div 2)) = t
  BY ONLY <1>4, <1>5, TwoHalves
<1> QED
  BY <1>6 DEF Served, s, t, rows, SplitGateUp

----------------------------------------------------------------------------
\* MLPs and experts.

\* What it names of a dense or a shared MLP.
LEMMA MlpViews ==
  ASSUME NEW l \in Layouts, NEW i \in Workers(l), NEW a
  PROVE  /\ ViewsOf(l, i, <<a, "gate_up_proj">>) = {Served(l, i, a, None, "gate_proj"), Served(l, i, a, None, "up_proj")}
         /\ ViewsOf(l, i, <<a, "shared_gate_up_proj">>)
              = {Served(l, i, a, None, "shared_gate_proj"), Served(l, i, a, None, "shared_up_proj")}
         /\ ViewsOf(l, i, <<a, "down_proj">>) = {Served(l, i, a, None, "down_proj")}
         /\ ViewsOf(l, i, <<a, "shared_down_proj">>) = {Served(l, i, a, None, "shared_down_proj")}
<1>1. \A part \in Trio \cup {"shared_gate_proj", "shared_up_proj", "shared_down_proj"} :
        ServedRows(l, i, <<a, None, part>>) = Slice(Full(l, a, None, part), i, l.infTp)
  BY DEF ServedRows, NotCut, WholeParts, Canon, Trio
<1>2. \A rows : /\ SglangConvertParam(l, i, <<a, "gate_up_proj">>, rows) = SplitGateUp(a, None, "gate_proj", "up_proj", rows)
                /\ SglangConvertParam(l, i, <<a, "shared_gate_up_proj">>, rows)
                     = SplitGateUp(a, None, "shared_gate_proj", "shared_up_proj", rows)
                /\ SglangConvertParam(l, i, <<a, "down_proj">>, rows) = {View(a, None, "down_proj", rows)}
                /\ SglangConvertParam(l, i, <<a, "shared_down_proj">>, rows) = {View(a, None, "shared_down_proj", rows)}
  BY DEF SglangConvertParam, ConvertMlpView, AttentionViews
<1>3. ASSUME NEW parts \in SplitParts, NEW name,
             SglangTensor(l, i, name) = Slice(Full(l, a, None, parts[1]), i, l.infTp) \o Slice(Full(l, a, None, parts[2]), i, l.infTp),
             \A rows : SglangConvertParam(l, i, name, rows) = SplitGateUp(a, None, parts[1], parts[2], rows)
      PROVE  ViewsOf(l, i, name) = {Served(l, i, a, None, parts[1]), Served(l, i, a, None, parts[2])}
  <2> DEFINE rows == SglangTensor(l, i, name)
             s == ServedRows(l, i, <<a, None, parts[1]>>)
             t == ServedRows(l, i, <<a, None, parts[2]>>)
  <2>1. parts[1] \in Trio \cup {"shared_gate_proj", "shared_up_proj", "shared_down_proj"}
        /\ parts[2] \in Trio \cup {"shared_gate_proj", "shared_up_proj", "shared_down_proj"}
    BY <1>3 DEF SplitParts, Trio
  <2>2. s = Slice(Full(l, a, None, parts[1]), i, l.infTp) /\ t = Slice(Full(l, a, None, parts[2]), i, l.infTp)
    BY <1>1, <2>1
  <2>3. SplitGateUp(a, None, parts[1], parts[2], s \o t) = {Served(l, i, a, None, parts[1]), Served(l, i, a, None, parts[2])}
    BY SplitViews
  <2> HIDE DEF s, t
  <2> QED
    BY <1>3, <2>2, <2>3 DEF ViewsOf
<1> DEFINE x == <<"gate_proj", "up_proj">>
           y == <<"shared_gate_proj", "shared_up_proj">>
<1>4. x \in SplitParts /\ y \in SplitParts /\ x[1] = "gate_proj" /\ x[2] = "up_proj"
      /\ y[1] = "shared_gate_proj" /\ y[2] = "shared_up_proj"
  BY DEF SplitParts
<1> HIDE DEF x, y
<1>5. ViewsOf(l, i, <<a, "gate_up_proj">>) = {Served(l, i, a, None, x[1]), Served(l, i, a, None, x[2])}
  BY <1>2, <1>3, <1>4 DEF SglangTensor, WholeParts
<1>6. ViewsOf(l, i, <<a, "shared_gate_up_proj">>) = {Served(l, i, a, None, y[1]), Served(l, i, a, None, y[2])}
  BY <1>2, <1>3, <1>4 DEF SglangTensor, WholeParts
<1> QED
  BY <1>1, <1>2, <1>4, <1>5, <1>6 DEF ViewsOf, Served, Trio, SglangTensor, WholeParts

\* What it names of its experts.
LEMMA ExpertViews ==
  ASSUME NEW l \in Layouts, NEW i \in Workers(l), NEW a
  PROVE  /\ ViewsOf(l, i, <<a, "w13_weight">>)
              = UNION {{Served(l, i, a, FirstExpert(l, i) + e - 1, "gate_proj"),
                        Served(l, i, a, FirstExpert(l, i) + e - 1, "up_proj")} : e \in 1 .. WorkerExperts(l)}
         /\ ViewsOf(l, i, <<a, "w2_weight">>)
              = {Served(l, i, a, FirstExpert(l, i) + e - 1, "down_proj") : e \in 1 .. WorkerExperts(l)}
<1> DEFINE w == WorkerExperts(l)
           f == FirstExpert(l, i)
           Rows(e, part) == ServedRows(l, i, <<a, e, part>>)
           CutOf(e, part) == IF l.infEp = 1 THEN Slice(Full(l, a, e, part), i, l.infTp) ELSE Full(l, a, e, part)
           first == SglangTensor(l, i, <<a, "w13_weight">>)
           second == SglangTensor(l, i, <<a, "w2_weight">>)
<1>1. w \in Nat /\ f \in Nat
  <2>1. i \in Nat /\ l.experts \in Nat /\ l.infEp \in Nat \ {0}
    BY LayoutFacts, WorkerFacts, HybridModelAssumption DEF Workers, HybridModelAssumption
  <2>2. w \in Nat
    BY <2>1 DEF WorkerExperts
  <2> HIDE DEF w
  <2>3. i * w \in Nat /\ 0 * w = 0
    BY <2>1, <2>2
  <2> QED
    BY <2>2, <2>3 DEF FirstExpert, w
<1>2. \A e \in Nat : \A part \in Trio : Rows(e, part) = CutOf(e, part)
  BY DEF ServedRows, NotCut, WholeParts, Canon, Trio, None
<1>3. first = [n \in 1 .. w |-> FlattenSeq([k \in 1 .. 2 |-> CutOf(f + n - 1, <<"gate_proj", "up_proj">>[k])])]
  BY DEF SglangTensor, WholeParts, FirstExpert
<1>4. second = [n \in 1 .. w |-> FlattenSeq([k \in 1 .. 1 |-> CutOf(f + n - 1, <<"down_proj">>[k])])]
  BY DEF SglangTensor, WholeParts, FirstExpert
<1>5. i \in Nat /\ l.infTp \in Nat \ {0}
  BY WorkerFacts DEF Workers
<1>6. ASSUME NEW e \in Nat, NEW part \in Trio PROVE Listed(CutOf(e, part))
  <2> DEFINE s == Full(l, a, e, part)
  <2>1. Listed(s)
    BY FullListed
  <2> HIDE DEF s
  <2>2. Listed(Slice(s, i, l.infTp))
    BY <1>5, <2>1, SameSlices
  <2> QED
    BY <2>1, <2>2 DEF s
<1>7. \A e \in Nat : /\ CutOf(e, "gate_proj") = Rows(e, "gate_proj") /\ Listed(CutOf(e, "gate_proj"))
                     /\ CutOf(e, "up_proj") = Rows(e, "up_proj") /\ Listed(CutOf(e, "up_proj"))
                     /\ CutOf(e, "down_proj") = Rows(e, "down_proj") /\ Listed(CutOf(e, "down_proj"))
  BY <1>2, <1>6 DEF Trio
<1> HIDE DEF w, f, Rows, CutOf, first, second
<1>8. DOMAIN first = 1 .. w /\ \A n \in 1 .. w : first[n] = Rows(f + n - 1, "gate_proj") \o Rows(f + n - 1, "up_proj")
  <2>1. ASSUME NEW n \in 1 .. w PROVE first[n] = Rows(f + n - 1, "gate_proj") \o Rows(f + n - 1, "up_proj")
    <3> DEFINE e == f + n - 1
    <3>1. e \in Nat
      BY <1>1
    <3> HIDE DEF e
    <3>2. [k \in 1 .. 2 |-> CutOf(e, <<"gate_proj", "up_proj">>[k])] = <<CutOf(e, "gate_proj"), CutOf(e, "up_proj")>>
      OBVIOUS
    <3>3. FlattenSeq(<<CutOf(e, "gate_proj"), CutOf(e, "up_proj")>>) = CutOf(e, "gate_proj") \o CutOf(e, "up_proj")
      BY <1>7, <3>1, FlattenFew
    <3>4. first[n] = FlattenSeq([k \in 1 .. 2 |-> CutOf(e, <<"gate_proj", "up_proj">>[k])])
      BY <1>3 DEF e
    <3> QED
      BY <1>7, <3>1, <3>2, <3>3, <3>4 DEF e
  <2> QED
    BY <1>3, <2>1
<1>9. DOMAIN second = 1 .. w /\ \A n \in 1 .. w : second[n] = Rows(f + n - 1, "down_proj")
  <2>1. ASSUME NEW n \in 1 .. w PROVE second[n] = Rows(f + n - 1, "down_proj")
    <3> DEFINE e == f + n - 1
    <3>1. e \in Nat
      BY <1>1
    <3> HIDE DEF e
    <3>2. [k \in 1 .. 1 |-> CutOf(e, <<"down_proj">>[k])] = <<CutOf(e, "down_proj")>>
      <4>1. [k \in 1 .. 1 |-> CutOf(e, <<"down_proj">>[k])] = [k \in 1 .. 1 |-> CutOf(e, "down_proj")]
        OBVIOUS
      <4> QED
        BY <4>1, OneEntry
    <3>3. FlattenSeq(<<CutOf(e, "down_proj")>>) = CutOf(e, "down_proj")
      BY <1>7, <3>1, FlattenFew
    <3>4. second[n] = FlattenSeq([k \in 1 .. 1 |-> CutOf(e, <<"down_proj">>[k])])
      BY <1>4 DEF e
    <3> QED
      BY <1>7, <3>1, <3>2, <3>3, <3>4 DEF e
  <2> QED
    BY <1>4, <2>1
<1>10. Len(first) = w /\ Len(second) = w
  BY <1>1, <1>3, <1>4
<1>11. \A n \in 1 .. w : (IF l.infEp = 1 THEN n - 1 ELSE n - 1 + i * w) = f + n - 1
  <2>1. f = IF l.infEp = 1 THEN 0 ELSE i * w
    BY <1>1, <1>5 DEF FirstExpert, f, w
  <2>2. l.infEp # 1 => i * w \in Nat
    BY <1>1, <2>1
  <2> DEFINE z == i * w
  <2> HIDE DEF z
  <2> QED
    BY <1>1, <2>1, <2>2 DEF z
<1>12. ViewsOf(l, i, <<a, "w13_weight">>)
         = UNION {SplitGateUp(a, f + e - 1, "gate_proj", "up_proj", first[e]) : e \in 1 .. w}
  BY SMTT(20), <1>8, <1>10, <1>11
     DEF ViewsOf, SglangConvertParam, ConvertExpertTp, ConvertExpertMoe, ConvertMlpView,
       AttentionViews, first
<1>13. ViewsOf(l, i, <<a, "w2_weight">>) = UNION {{View(a, f + e - 1, "down_proj", second[e])} : e \in 1 .. w}
  BY <1>9, <1>10, <1>11
     DEF ViewsOf, SglangConvertParam, ConvertExpertTp, ConvertExpertMoe, ConvertMlpView,
       AttentionViews, second
<1>14. ASSUME NEW n \in 1 .. w
       PROVE  SplitGateUp(a, f + n - 1, "gate_proj", "up_proj", first[n])
                = {Served(l, i, a, f + n - 1, "gate_proj"), Served(l, i, a, f + n - 1, "up_proj")}
  <2> DEFINE x == <<"gate_proj", "up_proj">>
             e == f + n - 1
  <2>1. x \in SplitParts /\ x[1] = "gate_proj" /\ x[2] = "up_proj"
    BY DEF SplitParts
  <2> HIDE DEF x, e
  <2>2. first[n] = ServedRows(l, i, <<a, e, x[1]>>) \o ServedRows(l, i, <<a, e, x[2]>>)
    BY <1>8, <2>1 DEF Rows, e
  <2>3. SplitGateUp(a, e, x[1], x[2], ServedRows(l, i, <<a, e, x[1]>>) \o ServedRows(l, i, <<a, e, x[2]>>))
          = {Served(l, i, a, e, x[1]), Served(l, i, a, e, x[2])}
    BY <2>1, SplitViews
  <2> QED
    BY <2>1, <2>2, <2>3 DEF e
<1>15. \A n \in 1 .. w : View(a, f + n - 1, "down_proj", second[n]) = Served(l, i, a, f + n - 1, "down_proj")
  BY <1>9 DEF Served, Rows
<1>16. ViewsOf(l, i, <<a, "w13_weight">>)
         = UNION {{Served(l, i, a, f + e - 1, "gate_proj"), Served(l, i, a, f + e - 1, "up_proj")} : e \in 1 .. w}
  BY <1>12, <1>14
<1>17. ViewsOf(l, i, <<a, "w2_weight">>) = {Served(l, i, a, f + e - 1, "down_proj") : e \in 1 .. w}
  BY <1>13, <1>15
<1> QED
  BY <1>16, <1>17 DEF w, f

----------------------------------------------------------------------------
\* The names of an inference rank.

\* The experts of a worker, all of them or its share.
LEMMA FirstIs ==
  ASSUME NEW l \in Layouts, l.experts % l.infEp = 0, NEW i \in Workers(l)
  PROVE  /\ WorkerExperts(l) \in Nat /\ FirstExpert(l, i) \in Nat /\ l.experts \in Nat
         /\ FirstExpert(l, i) + WorkerExperts(l) <= l.experts
         /\ l.infEp = 1 => FirstExpert(l, i) = 0 /\ WorkerExperts(l) = l.experts
         /\ l.infEp # 1 => FirstExpert(l, i) = i * WorkerExperts(l) /\ l.infEp = l.infTp /\ l.experts = l.infTp * WorkerExperts(l)
<1> DEFINE e == l.experts
           w == WorkerExperts(l)
           n == l.infEp
           t == l.infTp
<1>1. e \in Nat /\ n \in Nat \ {0} /\ t \in Nat \ {0} /\ n \in {1, t} /\ i \in 0 .. t - 1 /\ e % n = 0 /\ w = e \div n
  BY LayoutFacts, WorkerFacts, HybridModelAssumption
     DEF Workers, HybridModelAssumption, WorkerExperts
<1>2. FirstExpert(l, i) = (IF n = 1 THEN 0 ELSE i) * w
  BY DEF FirstExpert
<1> HIDE DEF e, w, n, t
<1>3. w \in Nat /\ e = n * w
  <2>1. PICK q \in Nat, u \in 0 .. n - 1 : q = e \div n /\ u = e % n /\ e = q * n + u
    BY ONLY <1>1, Euclid
  <2> QED
    BY <2>1, <1>1
<1>4. CASE n = 1
  BY <1>1, <1>2, <1>3, <1>4 DEF e, w, n, t
<1>5. CASE n # 1
  <2> DEFINE x == i * w
             y == t * w
  <2>1. n = t /\ e = y /\ FirstExpert(l, i) = x /\ x \in Nat
    BY <1>1, <1>2, <1>3, <1>5
  <2>2. x + w <= y
    BY <1>1, <1>3, MultipleLess
  <2> HIDE DEF x, y
  <2>3. FirstExpert(l, i) + w <= e
    BY <2>1, <2>2
  <2> QED
    BY <1>1, <1>3, <1>5, <2>1, <2>3 DEF e, w, n, t, x, y
<1> QED
  BY <1>4, <1>5

\* A worker names every part that it owns.
LEMMA ServedAll ==
  ASSUME NEW l \in Layouts, l.experts % l.infEp = 0, NEW i \in Workers(l), NEW a, NEW b, NEW c, IsName(l, a, b, c), Own(l, i, b)
  PROVE  Served(l, i, a, b, c) \in SglangViews(l, i)
<1> DEFINE v == Served(l, i, a, b, c)
<1> HIDE DEF v
<1>1. SUFFICES \E name \in SglangNames(l) : v \in ViewsOf(l, i, name)
  BY DEF SglangViews, ViewsOf, v
<1>2. CASE a = None /\ b = None /\ c \in {"embed_tokens", "norm", "lm_head"}
  BY <1>2, OuterViews DEF v, SglangNames
<1>3. \A layer \in LayerNumbers(l) : layer \in Int /\ \A k \in SglangLayer(l, layer) : <<layer, k>> \in SglangNames(l)
  BY LayoutFacts DEF SglangNames, LayerNumbers
<1>4. CASE a \in LayerNumbers(l) /\ b = None /\ c \in LayerParts(l, a)
  <2>1. CASE c \in AttentionViews \cup {"gate", "expert_bias"}
    <3>1. v \in ViewsOf(l, i, <<a, c>>)
      BY <1>3, <1>4, <2>1, OneView DEF v
    <3> QED
      BY <1>3, <1>4, <2>1, <3>1 DEF SglangLayer, LayerParts, Trio, AttentionViews
  <2>2. CASE c \in Trio
    <3>1. v \in ViewsOf(l, i, <<a, "gate_up_proj">>) \/ v \in ViewsOf(l, i, <<a, "down_proj">>)
      <4>1. /\ ViewsOf(l, i, <<a, "gate_up_proj">>) = {Served(l, i, a, None, "gate_proj"), Served(l, i, a, None, "up_proj")}
            /\ ViewsOf(l, i, <<a, "down_proj">>) = {Served(l, i, a, None, "down_proj")}
        BY MlpViews
      <4> QED
        BY <1>4, <2>2, <4>1 DEF v, Trio
    <3> QED
      BY <1>3, <1>4, <2>2, <3>1 DEF SglangLayer, LayerParts, Trio
  <2>3. CASE c \in {"shared_gate_proj", "shared_up_proj", "shared_down_proj"}
    <3>1. v \in ViewsOf(l, i, <<a, "shared_gate_up_proj">>) \/ v \in ViewsOf(l, i, <<a, "shared_down_proj">>)
      <4>1. /\ ViewsOf(l, i, <<a, "shared_gate_up_proj">>)
                 = {Served(l, i, a, None, "shared_gate_proj"), Served(l, i, a, None, "shared_up_proj")}
            /\ ViewsOf(l, i, <<a, "shared_down_proj">>) = {Served(l, i, a, None, "shared_down_proj")}
        BY MlpViews
      <4> QED
        BY <1>4, <2>3, <4>1 DEF v
    <3> QED
      BY <1>3, <1>4, <2>3, <3>1 DEF SglangLayer, LayerParts, Trio
  <2> QED
    BY <1>4, <2>1, <2>2, <2>3 DEF LayerParts, AttentionViews, Trio
<1>5. CASE a \in LayerNumbers(l) /\ ~Dense(l, a) /\ b \in 0 .. l.experts - 1 /\ c \in Trio
  <2> DEFINE f == FirstExpert(l, i)
             w == WorkerExperts(l)
             e == b - f + 1
  <2>1. f \in Nat /\ w \in Nat
    BY FirstIs
  <2>2. b \in f .. f + w - 1 /\ b \in Nat
    BY <1>5, LayoutFacts DEF Own, None
  <2> HIDE DEF f, w
  <2>3. e \in 1 .. w /\ b = f + e - 1
    BY <2>1, <2>2
  <2> HIDE DEF e
  <2>4. v \in ViewsOf(l, i, <<a, "w13_weight">>) \/ v \in ViewsOf(l, i, <<a, "w2_weight">>)
    BY <1>5, <2>3, ExpertViews DEF v, Trio, f, w
  <2> QED
    BY <1>3, <1>5, <2>4 DEF SglangLayer
<1> QED
  BY <1>2, <1>4, <1>5 DEF IsName

\* It names nothing else.
LEMMA ServedNamed ==
  ASSUME NEW l \in Layouts, l.experts % l.infEp = 0, NEW i \in Workers(l), NEW v \in SglangViews(l, i)
  PROVE  \E a, b, c : v = Served(l, i, a, b, c) /\ IsName(l, a, b, c) /\ Own(l, i, b)
<1>1. PICK name \in SglangNames(l) : v \in ViewsOf(l, i, name)
  BY DEF SglangViews, ViewsOf
<1>2. Own(l, i, None)
  BY DEF Own
<1>3. CASE \E k \in {"word_embeddings", "norm", "lm_head"} : name = <<None, k>>
  BY <1>2, <1>1, <1>3, OuterViews DEF IsName
<1>4. ASSUME NEW a \in LayerNumbers(l), NEW k \in SglangLayer(l, a), name = <<a, k>>
      PROVE  \E b, c : v = Served(l, i, a, b, c) /\ IsName(l, a, b, c) /\ Own(l, i, b)
  <2>1. CASE k \in AttentionViews \cup {"gate", "expert_bias"}
    <3>1. v = Served(l, i, a, None, k)
      BY <1>1, <1>4, LayoutFacts, <2>1, OneView DEF LayerNumbers
    <3> QED
      BY <1>2, <3>1, <2>1 DEF IsName, SglangLayer, LayerParts, AttentionViews
  <2>2. CASE k \in {"gate_up_proj", "down_proj"}
    <3>1. \E c \in Trio : v = Served(l, i, a, None, c)
      <4>1. /\ ViewsOf(l, i, <<a, "gate_up_proj">>) = {Served(l, i, a, None, "gate_proj"), Served(l, i, a, None, "up_proj")}
            /\ ViewsOf(l, i, <<a, "down_proj">>) = {Served(l, i, a, None, "down_proj")}
        BY MlpViews
      <4> QED
        BY <1>1, <1>4, <2>2, <4>1 DEF Trio
    <3> QED
      BY <1>2, <3>1, <2>2 DEF IsName, SglangLayer, LayerParts
  <2>3. CASE k \in {"shared_gate_up_proj", "shared_down_proj"}
    <3>1. \E c \in {"shared_gate_proj", "shared_up_proj", "shared_down_proj"} : v = Served(l, i, a, None, c)
      <4>1. /\ ViewsOf(l, i, <<a, "shared_gate_up_proj">>)
                 = {Served(l, i, a, None, "shared_gate_proj"), Served(l, i, a, None, "shared_up_proj")}
            /\ ViewsOf(l, i, <<a, "shared_down_proj">>) = {Served(l, i, a, None, "shared_down_proj")}
        BY MlpViews
      <4> QED
        BY <1>1, <1>4, <2>3, <4>1
    <3> QED
      BY <1>2, <3>1, <2>3 DEF IsName, SglangLayer, LayerParts
  <2>4. CASE k \in {"w13_weight", "w2_weight"}
    <3> DEFINE f == FirstExpert(l, i)
               w == WorkerExperts(l)
    <3>1. \E e \in 1 .. w, c \in Trio : v = Served(l, i, a, f + e - 1, c)
      <4>1. /\ ViewsOf(l, i, <<a, "w13_weight">>)
                 = UNION {{Served(l, i, a, f + e - 1, "gate_proj"), Served(l, i, a, f + e - 1, "up_proj")} : e \in 1 .. w}
            /\ ViewsOf(l, i, <<a, "w2_weight">>) = {Served(l, i, a, f + e - 1, "down_proj") : e \in 1 .. w}
        BY ExpertViews
      <4> HIDE DEF f, w
      <4> QED
        BY <1>1, <1>4, <2>4, <4>1 DEF Trio
    <3> HIDE DEF f, w
    <3>2. PICK e \in 1 .. w, c \in Trio : v = Served(l, i, a, f + e - 1, c)
      BY <3>1
    <3> QED
      BY <2>4, <3>2, FirstIs DEF IsName, Own, f, w, SglangLayer
  <2> QED
    BY <2>1, <2>2, <2>3, <2>4 DEF SglangLayer, AttentionViews
<1> QED
  BY <1>1, <1>3, <1>4 DEF SglangNames, LayerNumbers

----------------------------------------------------------------------------
\* Putting shards together.

\* The number of different things.
LEMMA CountFirst ==
  ASSUME NEW n \in Nat, NEW f, \A i, j \in 1 .. n : f[i] = f[j] => i = j
  PROVE  Cardinality({f[i] : i \in 1 .. n}) = n
<1> DEFINE S == {f[i] : i \in 1 .. n}
           g == [s \in S |-> CHOOSE i \in 1 .. n : f[i] = s]
<1>1. IsFiniteSet(1 .. n) /\ Cardinality(1 .. n) = n
  BY FS_Interval
<1>2. \A s \in S : g[s] \in 1 .. n /\ f[g[s]] = s
  OBVIOUS
<1>3. g \in [S -> 1 .. n]
  BY <1>2
<1>4. ASSUME NEW i \in 1 .. n PROVE \E s \in S : g[s] = i
  <2> HIDE DEF g
  <2> QED
    BY <1>2
<1> HIDE DEF g, S
<1>5. Cardinality(S) = Cardinality(1 .. n)
  BY <1>1, <1>3, <1>2, <1>4, SameCount
<1> QED
  BY <1>1, <1>5 DEF S

\* One shard of every rank of tensor parallelism, from the rank after t on.
InTurn(m, t, sharding, shards, sh, seqs) ==
  /\ m \in Nat \ {0} /\ t \in Int /\ sharding \in {"TP", "EP"}
  /\ \A s : s \in shards <=> \E k \in 1 .. m : s = sh[k]
  /\ seqs = [k \in 1 .. m |-> seqs[k]]
  /\ \A k \in 1 .. m : /\ sh[k].tp = t + k /\ sh[k].rank \in Int /\ sh[k].rows = seqs[k]
                       /\ sharding = "EP" => sh[k].ep = sh[k].tp

\* They make one replica.
LEMMA AssembledOne ==
  ASSUME NEW m, NEW t, NEW sharding, NEW shards, NEW sh, NEW seqs, InTurn(m, t, sharding, shards, sh, seqs)
  PROVE  Assembled(sharding, shards) = {FlattenSeq(seqs)}
<1> DEFINE S == {sh[k] : k \in 1 .. m}
           Key(s) == IF sharding = "TP" THEN s.tp ELSE s.ep
           Replica(s) == Cardinality({q \in S : q.rank < s.rank /\ Key(q) = Key(s)})
           Before(a, b) == a.tp < b.tp \/ (a.tp = b.tp /\ Key(a) < Key(b))
           Nth(replica, i) == CHOOSE s \in replica : Cardinality({q \in replica : Before(q, s)}) = i - 1
           Rows(replica) == FlattenSeq([i \in 1 .. Cardinality(replica) |-> Nth(replica, i).rows])
<1>1. m \in Nat \ {0} /\ t \in Int
  BY DEF InTurn
<1>2. \A k \in 1 .. m : sh[k] \in S /\ Key(sh[k]) = t + k /\ sh[k].tp = t + k /\ sh[k].rank \in Int
  BY DEF InTurn
<1>3. \A s \in S : \E k \in 1 .. m : s = sh[k]
  OBVIOUS
<1>4. \A i, j \in 1 .. m : sh[i] = sh[j] => i = j
  <2>1. ASSUME NEW i \in 1 .. m, NEW j \in 1 .. m, sh[i] = sh[j] PROVE i = j
    BY <1>1, <1>2, <2>1
  <2> QED
    BY <2>1
<1>5. Cardinality(S) = m
  BY <1>1, <1>4, CountFirst
<1>6. ASSUME NEW s \in S PROVE Replica(s) = 0
  <2>1. PICK k \in 1 .. m : s = sh[k]
    BY <1>3
  <2>2. ASSUME NEW q \in S, q.rank < s.rank, Key(q) = Key(s) PROVE FALSE
    <3>1. PICK j \in 1 .. m : q = sh[j]
      BY <1>3
    <3> QED
      BY <1>2, <2>1, <2>2, <3>1, <1>1
  <2> QED
    BY <2>2, FS_EmptySet
<1>7. ASSUME NEW k \in 1 .. m PROVE Cardinality({q \in S : Before(q, sh[k])}) = k - 1
  <2>1. ASSUME NEW j \in 1 .. m PROVE Before(sh[j], sh[k]) <=> j < k
    <3> HIDE DEF Key
    <3> QED
      BY <1>1, <1>2
  <2>2. \A j \in 1 .. k - 1 : j \in 1 .. m
    BY <1>1
  <2> HIDE DEF Before, S
  <2>3. {q \in S : Before(q, sh[k])} = {sh[j] : j \in 1 .. k - 1}
    <3>1. ASSUME NEW q \in S, Before(q, sh[k]) PROVE q \in {sh[j] : j \in 1 .. k - 1}
      <4>1. PICK j \in 1 .. m : q = sh[j]
        BY <1>3
      <4> QED
        BY <4>1, <2>1, <3>1
    <3>2. ASSUME NEW j \in 1 .. k - 1 PROVE sh[j] \in S /\ Before(sh[j], sh[k])
      BY <1>2, <2>1, <2>2
    <3> QED
      BY <3>1, <3>2
  <2> QED
    BY <2>3, <1>4, <2>2, CountFirst
<1> HIDE DEF Key, Replica, Before, S
<1>8. ASSUME NEW k \in 1 .. m PROVE Nth(S, k) = sh[k]
  <2>1. \A s \in S : Cardinality({q \in S : Before(q, s)}) = k - 1 <=> s = sh[k]
    <3>1. ASSUME NEW s \in S, Cardinality({q \in S : Before(q, s)}) = k - 1 PROVE s = sh[k]
      <4>1. PICK j \in 1 .. m : s = sh[j]
        BY <1>3
      <4> QED
        BY <4>1, <1>7, <3>1
    <3> QED
      BY <1>7, <3>1
  <2> QED
    BY <1>2, <2>1
<1>9. {Replica(s) : s \in S} = {0}
  BY <1>2, <1>6, <1>1
<1>10. {s \in S : Replica(s) = 0} = S
  BY <1>6
<1> HIDE DEF Nth
<1>11. Rows(S) = FlattenSeq(seqs)
  BY <1>5, <1>8 DEF InTurn
<1> HIDE DEF Rows
<1>12. {Rows({s \in S : Replica(s) = n}) : n \in {Replica(s) : s \in S}} = {Rows(S)}
  BY ONLY <1>9, <1>10
<1>13. Assembled(sharding, S) = {Rows({s \in S : Replica(s) = n}) : n \in {Replica(s) : s \in S}}
  BY <1>1 DEF InTurn, Assembled, Rows, Nth, Replica, Before, Key
<1>14. shards = S
  BY DEF InTurn, S
<1> QED
  BY <1>11, <1>12, <1>13, <1>14

----------------------------------------------------------------------------
\* The engines' shards.

\* The workers that have a name: all, or the one with the expert.
LEMMA Owners ==
  ASSUME NEW l \in Layouts, l.experts % l.infEp = 0, NEW a, NEW b, NEW c, IsName(l, a, b, c)
  PROVE  /\ b = None \/ l.infEp = 1 => \A i \in Workers(l) : Own(l, i, b)
         /\ b # None /\ l.infEp # 1 => \E j \in Workers(l) : \A i \in Workers(l) : Own(l, i, b) <=> i = j
<1>1. l.infTp \in Nat \ {0} /\ Workers(l) = 0 .. l.infTp - 1
  BY WorkerFacts DEF Workers
<1>2. b # None => b \in 0 .. l.experts - 1
  BY DEF IsName
<1>3. CASE b = None \/ l.infEp = 1
  <2>1. ASSUME NEW i \in Workers(l), b # None, l.infEp = 1 PROVE Own(l, i, b)
    BY <1>2, <2>1, FirstIs DEF Own
  <2> QED
    BY <1>3, <2>1 DEF Own
<1>4. CASE b # None /\ l.infEp # 1
  <2> DEFINE w == WorkerExperts(l)
             t == l.infTp
  <2>1. 0 \in Workers(l)
    BY <1>1
  <2>2. w \in Nat /\ l.experts = t * w /\ l.experts \in Nat
    BY <1>4, <2>1, FirstIs
  <2>3. \A i \in Workers(l) : FirstExpert(l, i) = i * w /\ i \in Nat
    BY <1>1, <1>4, FirstIs
  <2> HIDE DEF w, t
  <2>4. w # 0 /\ b \in Nat /\ b < t * w /\ t \in Nat
    BY <2>2, <1>1, <1>2, <1>4 DEF t
  <2>5. \E q \in Nat, u \in 0 .. w - 1 : q = b \div w /\ b = q * w + u
    BY ONLY <2>2, <2>4, Euclid
  <2>6. PICK j \in Nat, u \in 0 .. w - 1 : j = b \div w /\ b = j * w + u
    BY <2>5
  <2>7. j \in Workers(l)
    BY <1>1, <2>2, <2>4, QuotientLess, <2>6 DEF t
  <2>8. ASSUME NEW i \in Workers(l) PROVE Own(l, i, b) <=> i = j
    <3> DEFINE x == i * w
    <3>1. x \in Nat /\ i \in Nat
      BY <2>2, <2>3
    <3> HIDE DEF x
    <3>2. ASSUME b \in x .. x + w - 1 PROVE i = j
      <4> DEFINE y == b - x
      <4>1. y \in 0 .. w - 1 /\ b = x + y
        BY <2>2, <2>4, <3>1, <3>2
      <4> HIDE DEF y
      <4>2. (i * w + y) \div w = i
        BY ONLY <2>2, <2>4, <3>1, <4>1, EuclidUnique
      <4> QED
        BY <2>6, <4>1, <4>2 DEF x
    <3>3. ASSUME i = j PROVE b \in x .. x + w - 1
      BY <2>2, <3>1, <2>6, <3>3 DEF x
    <3> QED
      BY <1>4, <2>3, <3>2, <3>3 DEF Own, w, x
  <2> QED
    BY <1>4, <2>7, <2>8
<1> QED
  BY <1>3, <1>4

\* The tensor that a name stands for is a sequence.
LEMMA CanonListed ==
  ASSUME NEW l \in Layouts, NEW a, NEW b, NEW c, IsName(l, a, b, c)
  PROVE  Listed(Canon(l, <<a, b, c>>))
<1> DEFINE n == <<a, b, c>>
<1>1. n[1] = a /\ n[2] = b /\ n[3] = c
  OBVIOUS
<1>2. CASE c = "query_key_value"
  BY <1>2, LayoutFacts, QkvCuts DEF Canon, IsName, LayerNumbers, Trio
<1>3. CASE c = "fused_qkv_a_proj_with_mqa"
  <2> DEFINE s == Full(l, a, None, "q_a_proj")
             t == Full(l, a, None, "kv_a_proj")
  <2>1. Listed(s) /\ Listed(t)
    BY FullListed
  <2>2. Canon(l, n) = s \o t
    BY <1>3 DEF Canon
  <2> HIDE DEF s, t, n
  <2> QED
    BY <2>2, <2>1, ConcatListed DEF n
<1>4. CASE c \notin {"query_key_value", "fused_qkv_a_proj_with_mqa"}
  BY <1>4, FullListed DEF Canon
<1> QED
  BY <1>2, <1>3, <1>4

\* A shard as meta_resolver describes it.
InferShard(i, n) ==
  [name |-> n, rank |-> i, tp |-> i, ep |-> IF layout.infEp = 1 THEN 0 ELSE i, rows |-> ServedRows(layout, i, n)]

\* The shards of a name on the workers.
LEMMA InferNamed ==
  ASSUME layout \in Layouts, layout.experts % layout.infEp = 0
  PROVE  /\ \A s \in InferShards : \E a, b, c : s.name = <<a, b, c>> /\ IsName(layout, a, b, c)
         /\ \A a, b, c : IsName(layout, a, b, c) =>
              {s \in InferShards : s.name = <<a, b, c>>}
                = {InferShard(i, <<a, b, c>>) : i \in {j \in Workers(layout) : Own(layout, j, b)}}
<1>1. \A i, a, b, c : Name(Served(layout, i, a, b, c)) = <<a, b, c>>
                      /\ Served(layout, i, a, b, c).rows = ServedRows(layout, i, <<a, b, c>>)
  BY DEF Served, View, Name
<1>2. ASSUME NEW s \in InferShards
      PROVE  \E i \in Workers(layout) : \E a, b, c : s = InferShard(i, <<a, b, c>>) /\ IsName(layout, a, b, c) /\ Own(layout, i, b)
  <2>1. PICK i \in Workers(layout) : \E v \in SglangViews(layout, i) :
          s = [name |-> Name(v), rank |-> i, tp |-> i, ep |-> IF layout.infEp = 1 THEN 0 ELSE i, rows |-> v.rows]
    BY DEF InferShards
  <2>2. PICK v \in SglangViews(layout, i) :
          s = [name |-> Name(v), rank |-> i, tp |-> i, ep |-> IF layout.infEp = 1 THEN 0 ELSE i, rows |-> v.rows]
    BY <2>1
  <2>3. PICK a, b, c : v = Served(layout, i, a, b, c) /\ IsName(layout, a, b, c) /\ Own(layout, i, b)
    BY ServedNamed
  <2>4. s = InferShard(i, <<a, b, c>>)
    BY <1>1, <2>2, <2>3 DEF InferShard
  <2> QED
    BY <2>3, <2>4
<1>3. ASSUME NEW i \in Workers(layout), NEW a, NEW b, NEW c, IsName(layout, a, b, c), Own(layout, i, b)
      PROVE  InferShard(i, <<a, b, c>>) \in InferShards
  <2> DEFINE v == Served(layout, i, a, b, c)
  <2>1. v \in SglangViews(layout, i)
    BY <1>3, ServedAll
  <2>2. Name(v) = <<a, b, c>> /\ v.rows = ServedRows(layout, i, <<a, b, c>>)
    BY <1>1
  <2> HIDE DEF v
  <2> QED
    BY SMTT(20), <2>1, <2>2 DEF InferShards, InferShard
<1>4. \A i, n : InferShard(i, n).name = n
  BY DEF InferShard
<1>5. ASSUME NEW s \in InferShards PROVE \E a, b, c : s.name = <<a, b, c>> /\ IsName(layout, a, b, c)
  BY <1>2, <1>4
<1>6. ASSUME NEW a, NEW b, NEW c, IsName(layout, a, b, c)
      PROVE  {s \in InferShards : s.name = <<a, b, c>>}
               = {InferShard(i, <<a, b, c>>) : i \in {j \in Workers(layout) : Own(layout, j, b)}}
  <2>1. ASSUME NEW s \in InferShards, s.name = <<a, b, c>>
        PROVE  \E i \in Workers(layout) : Own(layout, i, b) /\ s = InferShard(i, <<a, b, c>>)
    <3>1. PICK i \in Workers(layout) : \E x, y, z : s = InferShard(i, <<x, y, z>>) /\ Own(layout, i, y)
      BY <1>2
    <3>2. PICK x, y, z : s = InferShard(i, <<x, y, z>>) /\ Own(layout, i, y)
      BY <3>1
    <3>3. <<x, y, z>> = <<a, b, c>>
      BY <1>4, <2>1, <3>2
    <3>4. y = b
      BY <3>3
    <3> QED
      BY <3>2, <3>3, <3>4
  <2> QED
    BY <1>3, <1>4, <1>6, <2>1
<1> QED
  BY <1>5, <1>6

----------------------------------------------------------------------------
\* The engines' tensors.

\* The shards of the workers make up the whole tensor.
LEMMA ServedTensor ==
  ASSUME layout \in Layouts, layout.experts % layout.infEp = 0, NEW a, NEW b, NEW c, IsName(layout, a, b, c),
         NEW shards, shards = {s \in InferShards : s.name = <<a, b, c>>}
  PROVE  Assembled(Sharding("sglang", layout.infTp, layout.infEp, <<a, b, c>>), shards) = {Canon(layout, <<a, b, c>>)}
<1> DEFINE n == <<a, b, c>>
           t == layout.infTp
           canon == Canon(layout, n)
           sharding == Sharding("sglang", t, layout.infEp, n)
           Has == {i \in Workers(layout) : Own(layout, i, b)}
<1>1. n[1] = a /\ n[2] = b /\ n[3] = c
  OBVIOUS
<1>2. t \in Nat \ {0} /\ Workers(layout) = 0 .. t - 1 /\ 0 \in Workers(layout) /\ layout.infEp \in {1, t}
  BY WorkerFacts, HybridModelAssumption DEF Workers, HybridModelAssumption
<1>3. shards = {InferShard(i, n) : i \in Has}
  BY InferNamed
<1>4. Listed(canon)
  BY CanonListed
<1> DEFINE shared == {"shared_gate_proj", "shared_up_proj", "shared_down_proj"}
<1>5. sharding = (IF c \in {"kv_a_proj_with_mqa", "q_a_proj", "fused_qkv_a_proj_with_mqa"} \/ t = 1 \/ c \in WholeParts THEN "NO"
                  ELSE IF (b # None \/ c \in shared) /\ layout.infEp > 1 THEN "EP" ELSE "TP")
  BY <1>1 DEF Sharding
<1>6. \A i : InferShard(i, n).tp = i /\ InferShard(i, n).rank = i /\ InferShard(i, n).rows = ServedRows(layout, i, n)
             /\ (layout.infEp # 1 => InferShard(i, n).ep = i)
  BY DEF InferShard
<1>7. \A i : ServedRows(layout, i, n) = IF c \in NotCut \/ (b # None /\ layout.infEp # 1) THEN canon ELSE Slice(canon, i, t)
  BY <1>1 DEF ServedRows
<1> HIDE DEF n, canon, sharding, Has
<1>8. Has # {} /\ Has \subseteq Workers(layout)
  BY <1>2, Owners DEF Has
<1>9. CASE sharding = "NO"
  <2>1. ASSUME NEW i \in Has PROVE ServedRows(layout, i, n) = canon
    <3>1. CASE c \in NotCut
      BY <1>7, <3>1
    <3>2. CASE c \notin NotCut
      <4>1. t = 1
        BY <1>5, <1>9, <3>2 DEF NotCut, IsName, LayerParts, Trio
      <4> QED
        BY <1>7, <4>1, <1>2, <1>8, <1>4, WholeSlice
    <3> QED
      BY <3>1, <3>2
  <2> QED
    BY <1>9, <1>3, <1>6, <1>8, <2>1 DEF n, canon, sharding, Assembled
<1>10. ASSUME sharding # "NO", NEW m \in Nat \ {0}, NEW k \in Int, NEW R, R = [i \in 1 .. m |-> R[i]],
              \A i : i \in Has <=> \E j \in 1 .. m : i = k + j,
              \A i \in 1 .. m : ServedRows(layout, k + i, n) = R[i]
       PROVE  Assembled(sharding, shards) = {FlattenSeq(R)}
  <2> DEFINE sh == [i \in 1 .. m |-> InferShard(k + i, n)]
  <2>1. sharding \in {"TP", "EP"} /\ (sharding = "EP" => layout.infEp # 1)
    BY <1>5, <1>10
  <2>2. \A i \in 1 .. m : /\ sh[i].tp = k + i /\ sh[i].rank \in Int /\ sh[i].rows = R[i]
                          /\ sharding = "EP" => sh[i].ep = sh[i].tp
    BY <1>6, <1>10, <2>1
  <2>3. \A s : s \in shards <=> \E i \in 1 .. m : s = sh[i]
    BY ONLY <1>3, <1>10
  <2> HIDE DEF sh
  <2>4. InTurn(m, k, sharding, shards, sh, R)
    BY <1>10, <2>1, <2>2, <2>3 DEF InTurn
  <2> QED
    BY <2>4, AssembledOne
<1>11. CASE sharding # "NO" /\ b # None /\ layout.infEp # 1
  <2>1. PICK j \in Workers(layout) : Has = {j}
    BY <1>11, Owners DEF Has
  <2> DEFINE R == [i \in 1 .. 1 |-> canon]
             k == j - 1
  <2>2. 1 \in Nat \ {0} /\ k \in Int /\ R = [i \in 1 .. 1 |-> R[i]]
    BY <1>2
  <2>3. FlattenSeq(R) = canon
    BY <1>4, OneEntry, FlattenFew
  <2>4. \A i : i \in Has <=> \E x \in 1 .. 1 : i = k + x
    BY <1>2, <2>1
  <2>5. \A i \in 1 .. 1 : ServedRows(layout, k + i, n) = R[i]
    BY <1>7, <1>11
  <2> HIDE DEF R, k
  <2>6. Assembled(sharding, shards) = {FlattenSeq(R)}
    BY ONLY <1>10, <1>11, <2>2, <2>4, <2>5
  <2> QED
    BY <2>3, <2>6 DEF n, canon, sharding
<1>12. CASE sharding # "NO" /\ ~(b # None /\ layout.infEp # 1)
  <2> DEFINE R == [i \in 1 .. t |-> Slice(canon, i - 1, t)]
             k == -1
  <2>1. t \in Nat \ {0} /\ k \in Int /\ R = [i \in 1 .. t |-> R[i]]
    BY <1>2
  <2>2. FlattenSeq(R) = canon
    BY <1>2, <1>4, SliceCuts
  <2>3. \A i : i \in Has <=> \E x \in 1 .. t : i = k + x
    <3>1. ASSUME NEW i \in 0 .. t - 1 PROVE i + 1 \in 1 .. t /\ i = k + (i + 1)
      BY <1>2
    <3>2. \A x \in 1 .. t : k + x \in 0 .. t - 1
      BY <1>2
    <3> HIDE DEF k
    <3> QED
      BY <1>2, <1>12, Owners, <3>1, <3>2 DEF Has
  <2>4. \A i \in 1 .. t : ServedRows(layout, k + i, n) = R[i]
    <3>1. \A i \in 1 .. t : k + i = i - 1
      BY <1>2
    <3> HIDE DEF k
    <3> QED
      BY <1>7, <1>12, <1>5, <3>1 DEF NotCut
  <2> HIDE DEF R, k
  <2>5. Assembled(sharding, shards) = {FlattenSeq(R)}
    BY ONLY <1>10, <1>12, <2>1, <2>3, <2>4
  <2> QED
    BY <2>2, <2>5 DEF n, canon, sharding
<1> QED
  BY <1>9, <1>11, <1>12

----------------------------------------------------------------------------
\* The training job's tensors.

\* What the workers have taken out of the buffers.
LEMMA TrainWeights ==
  ASSUME Core, Truth, AllDone, NEW r \in Ranks(layout)
  PROVE  /\ \A n : n \in DOMAIN weights[r] <=> Holds(layout, r, n)
         /\ Matching(layout) =>
              \A n \in DOMAIN weights[r] : weights[r][n] = CutFor(layout, n, TpRank(layout, r), layout.tp)
<1> DEFINE D == Due(r, Len(All(r)))
           w == weights[r]
           OfParam(p) == Made(layout, r, p, Global(layout, r, p))
<1>1. layout \in Layouts /\ phase[r] = "done"
  BY DEF Core, Shapes, AllDone
<1>2. PICK c : Complete(r, c) /\ weights[r] = Unpacked(Packed(c))
  BY <1>1 DEF Truth, HandedOver
<1>3. DOMAIN w = {Name(e) : e \in D} /\ \A e \in D : w[Name(e)] = e.rows
  BY <1>1, <1>2, WeightsAre
<1>4. \A e : e \in D <=> \E p \in ParamSet : ParamOK(layout, PpRank(layout, r), p) /\ e \in OfParam(p)
  <2>1. \A e : e \in D <=> \E p \in Elements(All(r)) : e \in OfParam(p)
    BY DEF Due, OfModel, Elements
  <2> HIDE DEF D, OfParam
  <2> QED
    BY <2>1, <1>1, AllFacts
<1> HIDE DEF D, w
<1>5. ASSUME Matching(layout), NEW n \in DOMAIN w PROVE w[n] = CutFor(layout, n, TpRank(layout, r), layout.tp)
  <2>1. PICK e \in D : n = Name(e) /\ w[n] = e.rows
    BY <1>3
  <2>2. PICK p \in ParamSet : ParamOK(layout, PpRank(layout, r), p) /\ e \in OfParam(p)
    BY <1>4
  <2> QED
    BY <2>1, <1>1, <1>5, <2>2, TrainRows
<1> QED
  BY <1>3, <1>4, <1>5 DEF w, Holds

\* A shard as meta_resolver describes it.
TrainShard(r, n) ==
  [name |-> n, rank |-> r, tp |-> TpRank(layout, r), ep |-> EpRank(layout, r),
   rows |-> CutFor(layout, n, TpRank(layout, r), layout.tp)]

\* The shards of a name in the training job.
LEMMA TrainNames ==
  ASSUME Core, Truth, AllDone, Matching(layout)
  PROVE  /\ \A s \in TrainShards : \E a, b, c : s.name = <<a, b, c>> /\ IsName(layout, a, b, c)
         /\ \A n : {s \in TrainShards : s.name = n} = {TrainShard(r, n) : r \in {q \in Ranks(layout) : Holds(layout, q, n)}}
<1>1. \A s : s \in TrainShards <=> \E r \in Ranks(layout) : \E n : Holds(layout, r, n) /\ s = TrainShard(r, n)
  BY TrainWeights DEF TrainShard, TrainShards
<1>2. \A r, n : TrainShard(r, n).name = n
  BY DEF TrainShard
<1>3. ASSUME NEW s \in TrainShards PROVE \E a, b, c : s.name = <<a, b, c>> /\ IsName(layout, a, b, c)
  <2>1. PICK r \in Ranks(layout) : \E n : Holds(layout, r, n) /\ s = TrainShard(r, n)
    BY <1>1
  <2>2. PICK n : Holds(layout, r, n) /\ s = TrainShard(r, n)
    BY <2>1
  <2>3. layout \in Layouts
    BY DEF Core, Shapes
  <2>4. PICK p \in ParamSet : Makes(layout, r, p, n)
    BY <2>2, <2>3, HoldsIs
  <2> QED
    BY <1>2, <2>2, <2>3, <2>4, TrainNamed
<1>4. ASSUME NEW n
      PROVE  {s \in TrainShards : s.name = n} = {TrainShard(r, n) : r \in {q \in Ranks(layout) : Holds(layout, q, n)}}
  BY <1>1, <1>2
<1> QED
  BY <1>3, <1>4

\* The shards of the training job make up the whole tensor, too.
LEMMA TrainedTensor ==
  ASSUME Core, Truth, AllDone, Matching(layout), NEW a, NEW b, NEW c, IsName(layout, a, b, c),
         NEW shards, shards = {s \in TrainShards : s.name = <<a, b, c>>}
  PROVE  Assembled(Sharding("mcore", layout.tp, layout.ep, <<a, b, c>>), shards) = {Canon(layout, <<a, b, c>>)}
<1> DEFINE n == <<a, b, c>>
           t == layout.tp
           canon == Canon(layout, n)
           sharding == Sharding("mcore", t, layout.ep, n)
           Has == {r \in Ranks(layout) : Holds(layout, r, n)}
<1>1. n[1] = a /\ n[2] = b /\ n[3] = c
  OBVIOUS
<1>2. layout \in Layouts /\ t \in Nat \ {0} /\ (t = 1 \/ layout.ep = 1) /\ layout.experts % layout.ep = 0
  BY LayoutFacts, HybridModelAssumption DEF HybridModelAssumption, Core, Shapes, Matching
<1>3. shards = {TrainShard(r, n) : r \in Has}
  BY TrainNames
<1>4. Listed(canon)
  BY <1>2, CanonListed
<1>5. sharding = IF c \in {"kv_a_proj_with_mqa", "q_a_proj", "fused_qkv_a_proj_with_mqa"} \/ t = 1 \/ c \in WholeParts
                 THEN "NO" ELSE "TP"
  BY <1>1, <1>2 DEF Sharding
<1>6. \A r : /\ TrainShard(r, n).tp = TpRank(layout, r) /\ TrainShard(r, n).rank = r
             /\ TrainShard(r, n).rows = CutFor(layout, n, TpRank(layout, r), t)
  BY DEF TrainShard
<1>7. \A i : CutFor(layout, n, i, t) = IF c \in NotCut THEN canon ELSE Slice(canon, i, t)
  BY <1>1 DEF CutFor
<1>8. PICK o \in Ranks(layout) : TpRank(layout, o) = 0 /\ \E p \in ParamSet : Makes(layout, o, p, n)
  BY <1>2, TrainHolds
<1>9. o \in Has
  BY <1>2, <1>8, HoldsIs
<1>10. Has \subseteq Ranks(layout)
  OBVIOUS
<1> HIDE DEF n, canon, sharding
<1>11. CASE sharding = "NO"
  <2>1. ASSUME NEW r \in Has PROVE CutFor(layout, n, TpRank(layout, r), t) = canon
    <3>1. CASE c \in NotCut
      BY <1>7, <3>1
    <3>2. CASE c \notin NotCut
      <4>1. t = 1
        BY <1>5, <1>11, <3>2 DEF NotCut, IsName, LayerParts, Trio
      <4> QED
        BY <1>7, <4>1, <1>2, RankFacts, <1>4, WholeSlice
    <3> QED
      BY <3>1, <3>2
  <2> HIDE DEF Has
  <2> QED
    BY <1>3, <1>9, <1>11, <1>6, <2>1 DEF n, canon, sharding, Assembled
<1>12. CASE sharding = "TP"
  <2> DEFINE R == [i \in 1 .. t |-> Slice(canon, i - 1, t)]
             sh == [i \in 1 .. t |-> TrainShard(o + (i - 1), n)]
             k == -1
  <2>1. layout.ep = 1 /\ c \notin NotCut
    BY <1>2, <1>5, <1>12 DEF NotCut
  <2>2. Base(layout, o) = o /\ o \in Nat
    BY <1>2, <1>8, RankFacts DEF Base
  <2>3. PICK p \in ParamSet : Makes(layout, o, p, n)
    BY <1>8
  <2>4. ASSUME NEW j \in 0 .. t - 1
        PROVE  o + j \in Has /\ TpRank(layout, o + j) = j /\ PpRank(layout, o + j) = PpRank(layout, o)
    <3>1. /\ o + j \in Ranks(layout) /\ o + j \in TpGroup(layout, o)
          /\ TpRank(layout, o + j) = j /\ PpRank(layout, o + j) = PpRank(layout, o)
      BY <1>2, <2>2, RankFacts, GroupIs
    <3>2. Makes(layout, o + j, p, n)
      BY <1>1, <1>2, <2>1, <2>3, <3>1, HoldsAlong DEF NotCut, n
    <3> QED
      BY <1>2, <3>1, <3>2, HoldsIs
  <2>5. ASSUME NEW r \in Has PROVE \E j \in 0 .. t - 1 : r = o + j
    <3> DEFINE j == TpRank(layout, r)
    <3>1. PICK q \in ParamSet : Makes(layout, r, q, n)
      BY <1>2, HoldsIs
    <3>2. PpRank(layout, r) = PpRank(layout, o)
      BY <1>2, <2>3, <3>1, OneStage
    <3> QED
      BY <1>2, RankFacts, <2>1, <3>2, <2>4, OneRank
  <2> HIDE DEF Has
  <2>6. \A s : s \in shards <=> \E i \in 1 .. t : s = sh[i]
    <3>1. \A i \in 1 .. t : i - 1 \in 0 .. t - 1 /\ sh[i] = TrainShard(o + (i - 1), n)
      BY <1>2
    <3>2. \A j \in 0 .. t - 1 : j + 1 \in 1 .. t /\ sh[j + 1] = TrainShard(o + j, n)
      BY <1>2
    <3> HIDE DEF sh
    <3>3. ASSUME NEW s \in shards PROVE \E i \in 1 .. t : s = sh[i]
      <4>1. PICK r \in Has : s = TrainShard(r, n)
        BY <1>3
      <4>2. PICK j \in 0 .. t - 1 : r = o + j
        BY <2>5
      <4> QED
        BY <3>2, <4>1, <4>2
    <3> QED
      BY <3>3, <1>3, <2>4, <3>1
  <2>7. \A i \in 1 .. t : sh[i].tp = k + i /\ sh[i].rank \in Int /\ sh[i].rows = R[i]
    <3>1. ASSUME NEW i \in 1 .. t PROVE sh[i].tp = k + i /\ sh[i].rank \in Int /\ sh[i].rows = R[i]
      <4>1. i - 1 \in 0 .. t - 1 /\ o + (i - 1) \in Int /\ i - 1 = k + i
        BY <1>2, <2>2
      <4>2. sh[i] = TrainShard(o + (i - 1), n) /\ R[i] = Slice(canon, i - 1, t)
        OBVIOUS
      <4> HIDE DEF sh, R, k
      <4> QED
        BY <1>6, <1>7, <2>1, <4>1, <2>4, <4>2
    <3> QED
      BY <3>1
  <2>8. R = [i \in 1 .. t |-> R[i]] /\ FlattenSeq(R) = canon
    BY <1>2, <1>4, SliceCuts
  <2>9. k \in Int
    OBVIOUS
  <2> HIDE DEF sh, R, k
  <2>10. InTurn(t, k, "TP", shards, sh, R)
    BY ONLY <1>2, <2>9, <2>6, <2>7, <2>8 DEF InTurn
  <2>11. Assembled("TP", shards) = {FlattenSeq(R)}
    BY <2>10, AssembledOne
  <2> QED
    BY <1>3, <1>9, <1>12, <2>8, <2>11 DEF n, canon, sharding
<1> QED
  BY <1>5, <1>11, <1>12

----------------------------------------------------------------------------
\* Both sides mean the same.

\* A name lies in the training job's metadata exactly if it lies in the engines'.
LEMMA SameNames ==
  ASSUME Core, Truth, AllDone, Matching(layout)
  PROVE  {s.name : s \in TrainShards} = {s.name : s \in InferShards}
<1>1. layout \in Layouts /\ layout.experts % layout.infEp = 0 /\ layout.experts % layout.ep = 0
  BY DEF Core, Shapes, Matching
<1>2. ASSUME NEW s \in TrainShards PROVE \E q \in InferShards : q.name = s.name
  <2>1. PICK a, b, c : s.name = <<a, b, c>> /\ IsName(layout, a, b, c)
    BY TrainNames
  <2>2. PICK i \in Workers(layout) : Own(layout, i, b)
    BY <1>1, <2>1, HybridModelAssumption, Owners DEF HybridModelAssumption, Workers
  <2>3. InferShard(i, <<a, b, c>>) \in {q \in InferShards : q.name = <<a, b, c>>}
    BY <1>1, <2>1, <2>2, InferNamed
  <2> QED
    BY <2>1, <2>3
<1>3. ASSUME NEW q \in InferShards PROVE \E s \in TrainShards : s.name = q.name
  <2>1. PICK a, b, c : q.name = <<a, b, c>> /\ IsName(layout, a, b, c)
    BY <1>1, InferNamed
  <2>2. PICK r \in Ranks(layout) : \E p \in ParamSet : Makes(layout, r, p, <<a, b, c>>)
    BY <1>1, <2>1, TrainHolds
  <2> QED
    BY <2>1, <1>1, <2>2, HoldsIs, TrainNames
<1> QED
  BY <1>2, <1>3

\* Once all workers are done, both sides put together the one tensor of the model.
LEMMA CanonicalWhenDone ==
  ASSUME Core, Truth, Matching(layout)
  PROVE  CanonicalTensors
<1> SUFFICES ASSUME AllDone PROVE CanonicalTensors
  BY DEF CanonicalTensors
<1> DEFINE Sent(n) == Assembled(Sharding("mcore", layout.tp, layout.ep, n), {s \in TrainShards : s.name = n})
           Had(n) == Assembled(Sharding("sglang", layout.infTp, layout.infEp, n), {s \in InferShards : s.name = n})
           Names == {s.name : s \in TrainShards}
<1>1. layout \in Layouts /\ layout.experts % layout.infEp = 0
  BY DEF Core, Shapes, Matching
<1>2. ASSUME NEW n \in Names PROVE Cardinality(Sent(n)) = 1 /\ Sent(n) = Had(n)
  <2>1. PICK a, b, c : n = <<a, b, c>> /\ IsName(layout, a, b, c)
    BY TrainNames
  <2>2. Sent(n) = {Canon(layout, n)}
    BY <2>1, TrainedTensor
  <2>3. Had(n) = {Canon(layout, n)}
    BY <1>1, <2>1, ServedTensor
  <2> HIDE DEF Sent, Had
  <2> QED
    BY <2>2, <2>3, FS_Singleton
<1> QED
  BY SameNames, <1>2 DEF CanonicalTensors

\* In every layout that the conversion is made for, the shards of the training job and
\* those of the engines make up the same names, and under each name one and the same
\* tensor, row by row (mcore_converter.py, sglang_converter.py, meta_resolver.py,
\* param_sharding.py).
THEOREM SameTensorsBothSides == Spec => [](Matching(layout) => CanonicalTensors)
<1>1. Core /\ Truth => (Matching(layout) => CanonicalTensors)
  BY CanonicalWhenDone
<1> QED
  BY <1>1, CoreInvariant, TruthInvariant, PTL
============================================================================
