--------------------------- MODULE SequenceLemmas ---------------------------
(***************************************************************************)
(* Facts about naturals and sequences that the proofs of several parts     *)
(* cite: the least element, which stands in for induction, and what the    *)
(* selection from a list returns.                                          *)
(***************************************************************************)
EXTENDS Selection, Integers, SequencesExt, SequenceTheorems, WellFoundedInduction, TLAPS

\* A set of naturals has a least element.
LEMMA LeastNatural ==
    ASSUME NEW S \in SUBSET Nat, S # {}
    PROVE  \E m \in S : \A y \in S : m <= y
<1>1. IsWellFoundedOn(OpToRel(<, Nat), Nat)
  BY NatLessThanWellFounded
<1>2. PICK m \in S : \A y \in S : ~(<<y, m>> \in OpToRel(<, Nat))
  BY <1>1, WFMin
<1>3. \A y \in S : ~(y < m)
  BY <1>2 DEF OpToRel
<1>4. QED  BY <1>3

\* Appending to a list and then putting it behind another.
LEMMA ConcatAppend ==
    ASSUME NEW S, NEW s \in Seq(S), NEW t \in Seq(S), NEW e \in S
    PROVE  s \o Append(t, e) = Append(s \o t, e)
<1>1. <<e>> \in Seq(S) /\ s \o t \in Seq(S)
  BY ConcatProperties
<1>2. Append(t, e) = t \o <<e>> /\ Append(s \o t, e) = (s \o t) \o <<e>>
  BY <1>1, AppendIsConcat
<1>3. QED  BY <1>1, <1>2, ConcatAssociative, SMTT(30)

\* The first element of two lists in a row is the first list's.
LEMMA HeadTailOfConcat ==
    ASSUME NEW S, NEW s \in Seq(S), NEW t \in Seq(S), s # <<>>
    PROVE  s \o t # <<>> /\ Head(s \o t) = Head(s) /\ Tail(s \o t) = Tail(s) \o t
<1> DEFINE u == Tail(s) \o t
           v == Tail(s \o t)
           n == Len(s)
           m == Len(t)
<1>1. n \in Nat /\ m \in Nat /\ n > 0
  BY LenProperties, EmptySeq
<1>2. /\ s \o t \in Seq(S) /\ Len(s \o t) = n + m
      /\ \A i \in 1..(n + m) : (s \o t)[i] = IF i <= n THEN s[i] ELSE t[i - n]
  BY ConcatProperties
<1>3. /\ Tail(s) \in Seq(S) /\ Len(Tail(s)) = n - 1 /\ Head(s) = s[1]
      /\ \A i \in 1..(n - 1) : Tail(s)[i] = s[i + 1]
  BY HeadTailProperties
<1>4. s \o t # <<>>
  BY <1>1, <1>2, EmptySeq
<1>5. /\ v \in Seq(S) /\ Len(v) = n + m - 1 /\ Head(s \o t) = (s \o t)[1]
      /\ \A i \in 1..(n + m - 1) : v[i] = (s \o t)[i + 1]
  <2> DEFINE w == s \o t
  <2>1. w \in Seq(S) /\ w # <<>> /\ Len(w) = n + m
    BY <1>2, <1>4
  <2> HIDE DEF w
  <2>2. /\ Tail(w) \in Seq(S) /\ Len(Tail(w)) = n + m - 1 /\ Head(w) = w[1]
        /\ \A i \in 1..(n + m - 1) : Tail(w)[i] = w[i + 1]
    BY <2>1, HeadTailProperties
  <2>3. QED  BY <2>2 DEF w
<1>6. /\ u \in Seq(S) /\ Len(u) = n - 1 + m
      /\ \A i \in 1..(n - 1 + m) : u[i] = IF i <= n - 1 THEN Tail(s)[i] ELSE t[i - (n - 1)]
  <2> DEFINE w == Tail(s)
  <2>1. w \in Seq(S) /\ Len(w) = n - 1
    BY <1>3
  <2> HIDE DEF w
  <2>2. /\ w \o t \in Seq(S) /\ Len(w \o t) = Len(w) + Len(t)
        /\ \A i \in 1..(Len(w) + Len(t)) :
               (w \o t)[i] = IF i <= Len(w) THEN w[i] ELSE t[i - Len(w)]
    BY <2>1, ConcatProperties
  <2>3. QED  BY <2>1, <2>2 DEF w
<1> HIDE DEF u, v, n, m
<1>7. ASSUME NEW i \in 1..(n + m - 1) PROVE v[i] = u[i]
  <2>1. i \in 1..(n - 1 + m) /\ i + 1 \in 1..(n + m) /\ (i + 1 <= n <=> i <= n - 1)
        /\ (i + 1) - n = i - (n - 1) /\ (i <= n - 1 => i \in 1..(n - 1))
    BY <1>1
  <2>2. v[i] = IF i + 1 <= n THEN s[i + 1] ELSE t[(i + 1) - n]
    BY <1>2, <1>5, <2>1
  <2>3. u[i] = IF i <= n - 1 THEN s[i + 1] ELSE t[i - (n - 1)]
    BY <1>3, <1>6, <2>1
  <2>4. QED  BY <2>1, <2>2, <2>3
<1>8. u = v
  <2>1. Len(u) = Len(v) /\ Len(v) = n + m - 1
    BY <1>1, <1>5, <1>6
  <2>2. QED  BY <1>5, <1>6, <1>7, <2>1, SeqEqual
<1>9. Head(s \o t) = Head(s)
  BY <1>1, <1>2, <1>3, <1>5
<1>10. QED  BY <1>4, <1>8, <1>9 DEF u, v

\* The beginning of two lists in a row is the first.
LEMMA PrefixOfConcat ==
    ASSUME NEW S, NEW s \in Seq(S), NEW t \in Seq(S)
    PROVE  SubSeq(s \o t, 1, Len(s)) = s /\ Len(s) \in 0..Len(s \o t)
<1> DEFINE n == Len(s)
           w == s \o t
           u == SubSeq(w, 1, n)
<1>1. n \in Nat /\ Len(t) \in Nat
  BY LenProperties
<1>2. /\ w \in Seq(S) /\ Len(w) = n + Len(t)
      /\ \A i \in 1..(n + Len(t)) : w[i] = IF i <= n THEN s[i] ELSE t[i - n]
  BY ConcatProperties
<1> HIDE DEF w
<1>3. \A i \in 1..n : w[i] = s[i] /\ s[i] \in S
  BY <1>1, <1>2, ElementOfSeq
<1>4. u \in Seq(S) /\ Len(u) = n /\ \A i \in 1..n : u[i] = w[i]
  <2>1. 1 \in Int /\ n \in Int /\ \A i \in 1..n : w[i] \in S
    BY <1>1, <1>3
  <2> HIDE DEF n
  <2>2. /\ u \in Seq(S) /\ Len(u) = IF 1 <= n THEN n - 1 + 1 ELSE 0
        /\ \A i \in 1..(n - 1 + 1) : u[i] = w[1 + i - 1]
    BY <2>1, SubSeqProperties
  <2>3. Len(u) = n /\ n - 1 + 1 = n /\ \A i \in 1..n : 1 + i - 1 = i
    BY <1>1, <2>2
  <2>4. QED  BY <2>2, <2>3
<1> HIDE DEF u
<1>5. u = s
  BY <1>3, <1>4, SeqEqual
<1>6. QED  BY <1>1, <1>2, <1>5 DEF u, w

LEMMA WholeSeq ==
    ASSUME NEW S, NEW s \in Seq(S)
    PROVE  s = SubSeq(s, 1, Len(s)) /\ Len(s) \in 0..Len(s)
<1>1. <<>> \in Seq(S) /\ s \o <<>> = s
  BY ConcatEmptySeq, EmptySeq
<1>2. SubSeq(s \o <<>>, 1, Len(s)) = s /\ Len(s) \in 0..Len(s \o <<>>)
  BY <1>1, PrefixOfConcat
<1>3. QED  BY <1>1, <1>2

-----------------------------------------------------------------------------
\* h is the recursion of Kept over the first n elements.
KeptBy(h, s, K, n) ==
    h = [i \in 0..n |-> IF i = 0 THEN <<>>
                        ELSE IF s[i] \in K THEN Append(h[i - 1], s[i]) ELSE h[i - 1]]

\* One more element is one more value of the function.
LEMMA KeptByNext ==
    ASSUME NEW s, NEW K, NEW n \in Nat, NEW h, KeptBy(h, s, K, n)
    PROVE  \E g : KeptBy(g, s, K, n + 1)
<1> DEFINE v == IF s[n + 1] \in K THEN Append(h[n], s[n + 1]) ELSE h[n]
           g == [i \in 0..(n + 1) |-> IF i = n + 1 THEN v ELSE h[i]]
           G == [i \in 0..(n + 1) |-> IF i = 0 THEN <<>>
                        ELSE IF s[i] \in K THEN Append(g[i - 1], s[i]) ELSE g[i - 1]]
<1>1. ASSUME NEW i \in 0..(n + 1) PROVE g[i] = G[i]
  <2>1. CASE i = n + 1
    <3>1. i # 0 /\ i - 1 = n /\ n \in 0..(n + 1) /\ n # n + 1
      BY <2>1
    <3>2. g[i - 1] = h[n]
      BY <3>1
    <3>3. g[i] = v
      BY <2>1
    <3>4. QED  BY <2>1, <3>1, <3>2, <3>3
  <2>2. CASE i = 0
    <3>1. 0 \in 0..n /\ 0 # n + 1 /\ 0 \in 0..(n + 1)
      OBVIOUS
    <3>2. h[0] = <<>>
      BY <3>1 DEF KeptBy
    <3>3. QED  BY <2>2, <3>1, <3>2
  <2>3. CASE i # 0 /\ i # n + 1
    <3>1. i \in 0..n /\ i - 1 \in 0..(n + 1) /\ i - 1 # n + 1
      BY <2>3
    <3>2. h[i] = IF s[i] \in K THEN Append(h[i - 1], s[i]) ELSE h[i - 1]
      BY <2>3, <3>1 DEF KeptBy
    <3>3. g[i] = h[i] /\ g[i - 1] = h[i - 1]
      BY <2>3, <3>1
    <3>4. QED  BY <2>3, <3>2, <3>3
  <2>4. QED  BY <2>1, <2>2, <2>3
<1>2. g = G
  <2> HIDE DEF v
  <2>1. DOMAIN g = DOMAIN G
    OBVIOUS
  <2>2. QED  BY <1>1
<1>3. KeptBy(g, s, K, n + 1)
  BY <1>2 DEF KeptBy
<1>4. QED  BY <1>3

\* The recursion has a solution for every list.
LEMMA KeptByExists ==
    ASSUME NEW s, NEW K, NEW n \in Nat
    PROVE  \E h : KeptBy(h, s, K, n)
<1> DEFINE Bad == {m \in Nat : ~ \E h : KeptBy(h, s, K, m)}
<1>1. 0 \notin Bad
  <2> DEFINE h == [i \in 0..0 |-> <<>>]
  <2>1. h = [i \in 0..0 |-> IF i = 0 THEN <<>>
                        ELSE IF s[i] \in K THEN Append(h[i - 1], s[i]) ELSE h[i - 1]]
    OBVIOUS
  <2>2. KeptBy(h, s, K, 0)
    BY <2>1 DEF KeptBy
  <2>3. QED  BY <2>2
<1>2. \A m \in Nat : m \notin Bad => m + 1 \notin Bad
  BY KeptByNext
<1>3. Bad \in SUBSET Nat
  OBVIOUS
<1>4. n \in Bad <=> ~ \E h : KeptBy(h, s, K, n)
  OBVIOUS
<1> HIDE DEF Bad
<1>5. Bad = {}
  <2> SUFFICES ASSUME Bad # {} PROVE FALSE
    OBVIOUS
  <2>1. PICK m \in Bad : \A y \in Bad : m <= y
    BY <1>3, LeastNatural
  <2>2. m \in Nat /\ m # 0
    BY <1>1, <1>3
  <2>3. m - 1 \in Nat /\ m - 1 \notin Bad /\ (m - 1) + 1 = m
    BY <2>1, <2>2
  <2>4. QED  BY <1>2, <2>3
<1>6. QED  BY <1>4, <1>5

\* What Kept computes, step by step.
LEMMA KeptIs ==
    ASSUME NEW S, NEW s \in Seq(S), NEW K
    PROVE  \E h : KeptBy(h, s, K, Len(s)) /\ Kept(s, K) = h[Len(s)]
<1> DEFINE upto == CHOOSE h : KeptBy(h, s, K, Len(s))
<1>1. KeptBy(upto, s, K, Len(s))
  <2>1. \E h : KeptBy(h, s, K, Len(s))
    BY LenProperties, KeptByExists
  <2>2. QED  BY <2>1
<1>2. Kept(s, K) = upto[Len(s)]
  BY DEF Kept, KeptBy
<1> HIDE DEF upto
<1>3. QED  BY <1>1, <1>2

\* Two solutions agree on the values that both have.
LEMMA KeptBySame ==
    ASSUME NEW s, NEW t, NEW K, NEW L, NEW n \in Nat, NEW m \in Nat, NEW g, NEW h,
           KeptBy(g, s, K, n), KeptBy(h, t, L, m), n <= m,
           \A i \in 1..n : s[i] = t[i] /\ (s[i] \in K <=> s[i] \in L)
    PROVE  \A i \in 0..n : g[i] = h[i]
<1> DEFINE Bad == {i \in 0..n : g[i] # h[i]}
<1>1. \A i \in 0..n : i \in 0..m
  OBVIOUS
<1>2. 0 \notin Bad
  <2>1. 0 \in 0..n /\ 0 \in 0..m
    OBVIOUS
  <2>2. g[0] = <<>> /\ h[0] = <<>>
    BY <2>1 DEF KeptBy
  <2>3. QED  BY <2>2
<1>3. ASSUME NEW i \in 1..n, i - 1 \notin Bad PROVE i \notin Bad
  <2>1. i \in 0..n /\ i \in 0..m /\ i # 0 /\ i - 1 \in 0..n
    OBVIOUS
  <2>2. /\ g[i] = IF s[i] \in K THEN Append(g[i - 1], s[i]) ELSE g[i - 1]
        /\ h[i] = IF t[i] \in L THEN Append(h[i - 1], t[i]) ELSE h[i - 1]
    BY <2>1 DEF KeptBy
  <2>3. g[i - 1] = h[i - 1]
    BY <1>3, <2>1
  <2>4. QED  BY <2>2, <2>3
<1>4. Bad \in SUBSET Nat /\ \A i \in Bad : i \in 0..n
  OBVIOUS
<1>5. \A i \in 0..n : i \in Bad <=> g[i] # h[i]
  OBVIOUS
<1> HIDE DEF Bad
<1>6. Bad = {}
  <2> SUFFICES ASSUME Bad # {} PROVE FALSE
    OBVIOUS
  <2>1. PICK i \in Bad : \A y \in Bad : i <= y
    BY <1>4, LeastNatural
  <2>2. i \in 1..n
    BY <1>2, <1>4
  <2>3. i - 1 \notin Bad
    BY <2>1, <2>2
  <2>4. QED  BY <1>3, <2>2, <2>3
<1>7. QED  BY <1>5, <1>6

\* Nothing is kept of nothing; one more element is kept or not.
LEMMA KeptOfNone == ASSUME NEW K PROVE Kept(<<>>, K) = <<>>
<1>1. <<>> \in Seq({}) /\ Len(<<>>) = 0
  OBVIOUS
<1>2. PICK h : KeptBy(h, <<>>, K, 0) /\ Kept(<<>>, K) = h[0]
  BY <1>1, KeptIs
<1>3. QED  BY <1>2 DEF KeptBy

LEMMA KeptOfMore ==
    ASSUME NEW S, NEW s \in Seq(S), NEW e \in S, NEW K
    PROVE  Kept(Append(s, e), K) = IF e \in K THEN Append(Kept(s, K), e) ELSE Kept(s, K)
<1> DEFINE t == Append(s, e)
           n == Len(s)
<1>1. t \in Seq(S) /\ n \in Nat /\ Len(t) = n + 1 /\ t[n + 1] = e
      /\ \A i \in 1..n : s[i] = t[i]
  BY AppendProperties, LenProperties
<1> HIDE DEF t, n
<1>2. PICK g : KeptBy(g, s, K, n) /\ Kept(s, K) = g[n]
  BY KeptIs DEF n
<1>3. PICK h : KeptBy(h, t, K, n + 1) /\ Kept(t, K) = h[n + 1]
  BY <1>1, KeptIs
<1>4. n \in 0..n /\ n <= n + 1 /\ n + 1 \in Nat /\ n + 1 \in 0..(n + 1) /\ n + 1 # 0 /\ (n + 1) - 1 = n
  BY <1>1
<1>5. g[n] = h[n]
  <2> DEFINE m == n + 1
  <2>1. m \in Nat /\ n <= m /\ KeptBy(h, t, K, m)
    BY <1>3, <1>4
  <2> HIDE DEF m
  <2>2. \A i \in 1..n : s[i] = t[i] /\ (s[i] \in K <=> s[i] \in K)
    BY <1>1
  <2>3. \A i \in 0..n : g[i] = h[i]
    BY <1>1, <1>2, <2>1, <2>2, KeptBySame
  <2>4. QED  BY <1>4, <2>3
<1>6. h[n + 1] = IF t[n + 1] \in K THEN Append(h[(n + 1) - 1], t[n + 1]) ELSE h[(n + 1) - 1]
  BY <1>3, <1>4 DEF KeptBy
<1>7. QED  BY <1>1, <1>2, <1>3, <1>4, <1>5, <1>6 DEF t

\* What is kept are elements of the list that belong to the set.
LEMMA KeptElements ==
    ASSUME NEW S, NEW s \in Seq(S), NEW K
    PROVE  Kept(s, K) \in Seq(S \cap K) /\ Kept(s, K) \in Seq(S)
<1>1. PICK h : KeptBy(h, s, K, Len(s)) /\ Kept(s, K) = h[Len(s)]
  BY KeptIs
<1> DEFINE n == Len(s)
           Bad == {i \in 0..n : h[i] \notin Seq(S \cap K)}
<1>2. n \in Nat /\ \A i \in 1..n : s[i] \in S
  BY LenProperties, ElementOfSeq
<1> HIDE DEF n
<1>3. 0 \notin Bad
  <2>1. 0 \in 0..n
    BY <1>2
  <2>2. h[0] = <<>>
    BY <1>1, <2>1 DEF KeptBy, n
  <2>3. QED  BY <2>2, EmptySeq
<1>4. ASSUME NEW i \in 1..n, i - 1 \notin Bad PROVE i \notin Bad
  <2>1. i \in 0..n /\ i # 0 /\ i - 1 \in 0..n
    BY <1>2
  <2>2. h[i] = IF s[i] \in K THEN Append(h[i - 1], s[i]) ELSE h[i - 1]
    BY <1>1, <2>1 DEF KeptBy, n
  <2>3. h[i - 1] \in Seq(S \cap K)
    BY <1>4, <2>1
  <2>4. s[i] \in K => s[i] \in S \cap K
    BY <1>2
  <2>5. h[i] \in Seq(S \cap K)
    BY <2>2, <2>3, <2>4, AppendProperties
  <2>6. QED  BY <2>5
<1>5. Bad \in SUBSET Nat /\ \A i \in Bad : i \in 0..n
  BY <1>2
<1>6. \A i \in 0..n : i \in Bad <=> h[i] \notin Seq(S \cap K)
  OBVIOUS
<1> HIDE DEF Bad
<1>7. Bad = {}
  <2> SUFFICES ASSUME Bad # {} PROVE FALSE
    OBVIOUS
  <2>1. PICK i \in Bad : \A y \in Bad : i <= y
    BY <1>5, LeastNatural
  <2>2. i \in 1..n
    BY <1>2, <1>3, <1>5
  <2>3. i - 1 \notin Bad
    BY <2>1, <2>2
  <2>4. QED  BY <1>4, <2>2, <2>3
<1>8. n \in 0..n
  BY <1>2
<1>9. Kept(s, K) \in Seq(S \cap K)
  BY <1>1, <1>6, <1>7, <1>8 DEF n
<1>10. QED  BY <1>9

\* Only the membership of the elements counts.
LEMMA KeptSameSet ==
    ASSUME NEW S, NEW s \in Seq(S), NEW K, NEW L, \A e \in S : e \in K <=> e \in L
    PROVE  Kept(s, K) = Kept(s, L)
<1> DEFINE n == Len(s)
<1>1. n \in Nat
  BY LenProperties
<1>2. \A i \in 1..n : s[i] = s[i] /\ (s[i] \in K <=> s[i] \in L)
  BY ElementOfSeq
<1>3. PICK g : KeptBy(g, s, K, n) /\ Kept(s, K) = g[n]
  BY KeptIs
<1>4. PICK h : KeptBy(h, s, L, n) /\ Kept(s, L) = h[n]
  BY KeptIs
<1> HIDE DEF n
<1>5. n <= n /\ n \in 0..n
  BY <1>1
<1>6. KeptBy(g, s, K, n) /\ KeptBy(h, s, L, n)
  BY <1>3, <1>4
<1>7. \A i \in 0..n : g[i] = h[i]
  BY <1>1, <1>5, <1>6, <1>2, KeptBySame
<1>8. QED  BY <1>3, <1>4, <1>5, <1>7

\* Selecting from two lists in a row is selecting from each.
LEMMA KeptConcat ==
    ASSUME NEW S, NEW s \in Seq(S), NEW t \in Seq(S), NEW K
    PROVE  Kept(s \o t, K) = Kept(s, K) \o Kept(t, K)
<1> DEFINE Good(u) == Kept(s \o u, K) = Kept(s, K) \o Kept(u, K)
           Bad == {Len(u) : u \in {v \in Seq(S) : ~Good(v)}}
<1>1. Kept(s, K) \in Seq(S) /\ Kept(t, K) \in Seq(S)
  BY KeptElements
<1>2. Good(<<>>)
  <2>1. s \o <<>> = s /\ Kept(s, K) \o <<>> = Kept(s, K)
    BY <1>1, ConcatEmptySeq
  <2>2. QED  BY <2>1, KeptOfNone
<1>3. ASSUME NEW u \in Seq(S), NEW e \in S, Good(u) PROVE Good(Append(u, e))
  <2>1. s \o u \in Seq(S) /\ Kept(u, K) \in Seq(S)
    <3>1. Kept(u, K) \in Seq(S)
      BY KeptElements
    <3>2. QED  BY <3>1, ConcatProperties
  <2>2. s \o Append(u, e) = Append(s \o u, e)
    BY ConcatAppend
  <2>3. Kept(s \o Append(u, e), K) = IF e \in K THEN Append(Kept(s \o u, K), e) ELSE Kept(s \o u, K)
    BY <2>1, <2>2, KeptOfMore
  <2>4. Kept(Append(u, e), K) = IF e \in K THEN Append(Kept(u, K), e) ELSE Kept(u, K)
    BY KeptOfMore
  <2>5. Kept(s, K) \o Append(Kept(u, K), e) = Append(Kept(s, K) \o Kept(u, K), e)
    BY <1>1, <2>1, ConcatAppend
  <2>6. QED  BY <1>3, <2>3, <2>4, <2>5
<1> HIDE DEF Good
<1>4. Bad \in SUBSET Nat
  BY LenProperties
<1>5. Bad = {}
  <2> SUFFICES ASSUME Bad # {} PROVE FALSE
    OBVIOUS
  <2>1. PICK m \in Bad : \A y \in Bad : m <= y
    BY <1>4, LeastNatural
  <2>2. PICK v \in Seq(S) : ~Good(v) /\ Len(v) = m
    BY <2>1
  <2>3. PICK u \in Seq(S), e \in S : v = Append(u, e)
    BY <1>2, <2>2, SequenceEmptyOrAppend
  <2>4. Len(v) = Len(u) + 1 /\ Len(u) \in Nat
    BY <2>3, AppendProperties, LenProperties
  <2>5. Good(u)
    <3> SUFFICES ASSUME ~Good(u) PROVE FALSE
      OBVIOUS
    <3>1. Len(u) \in Bad
      OBVIOUS
    <3>2. m <= Len(u)
      BY <2>1, <3>1
    <3>3. QED  BY <2>2, <2>4, <3>2
  <2>6. QED  BY <1>3, <2>2, <2>3, <2>5
<1>6. Good(t)
  <2> SUFFICES ASSUME ~Good(t) PROVE FALSE
    OBVIOUS
  <2>1. Len(t) \in Bad
    OBVIOUS
  <2>2. QED  BY <1>5, <2>1
<1>7. QED  BY <1>6 DEF Good

-----------------------------------------------------------------------------
\* h is the recursion of FlattenSeq over the first n sequences of ss.
FlatBy(h, ss, n) == h = [i \in 1..n |-> IF i = 1 THEN ss[i] ELSE h[i - 1] \o ss[i]]

LEMMA FlatByNext ==
    ASSUME NEW ss, NEW n \in Nat, NEW h, FlatBy(h, ss, n)
    PROVE  \E g : FlatBy(g, ss, n + 1)
<1> DEFINE v == IF n = 0 THEN ss[n + 1] ELSE h[n] \o ss[n + 1]
           g == [i \in 1..(n + 1) |-> IF i = n + 1 THEN v ELSE h[i]]
           G == [i \in 1..(n + 1) |-> IF i = 1 THEN ss[i] ELSE g[i - 1] \o ss[i]]
<1>1. ASSUME NEW i \in 1..(n + 1) PROVE g[i] = G[i]
  <2>1. CASE i = n + 1
    <3>1. g[i] = v
      BY <2>1
    <3>2. CASE n = 0
      BY <2>1, <3>1, <3>2
    <3>3. CASE n # 0
      <4>1. i # 1 /\ i - 1 = n /\ n \in 1..(n + 1) /\ n # n + 1
        BY <2>1, <3>3
      <4>2. g[i - 1] = h[n]
        BY <4>1
      <4>3. QED  BY <2>1, <3>1, <3>3, <4>1, <4>2
    <3>4. QED  BY <3>2, <3>3
  <2>2. CASE i # n + 1
    <3>1. i \in 1..n
      BY <2>2
    <3>2. h[i] = IF i = 1 THEN ss[i] ELSE h[i - 1] \o ss[i]
      BY <3>1 DEF FlatBy
    <3>3. g[i] = h[i]
      BY <2>2
    <3>4. i # 1 => i - 1 \in 1..(n + 1) /\ i - 1 # n + 1
      BY <3>1
    <3>5. i # 1 => g[i - 1] = h[i - 1]
      BY <3>4
    <3>6. QED  BY <3>2, <3>3, <3>5
  <2>3. QED  BY <2>1, <2>2
<1>2. g = G
  <2> HIDE DEF v
  <2>1. DOMAIN g = DOMAIN G
    OBVIOUS
  <2>2. QED  BY <1>1
<1>3. FlatBy(g, ss, n + 1)
  BY <1>2 DEF FlatBy
<1>4. QED  BY <1>3

LEMMA FlatByExists ==
    ASSUME NEW ss, NEW n \in Nat
    PROVE  \E h : FlatBy(h, ss, n)
<1> DEFINE Bad == {m \in Nat : ~ \E h : FlatBy(h, ss, m)}
<1>1. 0 \notin Bad
  <2> DEFINE h == [i \in 1..0 |-> {}]
  <2>1. h = [i \in 1..0 |-> IF i = 1 THEN ss[i] ELSE h[i - 1] \o ss[i]]
    OBVIOUS
  <2>2. FlatBy(h, ss, 0)
    BY <2>1 DEF FlatBy
  <2>3. QED  BY <2>2
<1>2. \A m \in Nat : m \notin Bad => m + 1 \notin Bad
  BY FlatByNext
<1>3. Bad \in SUBSET Nat
  OBVIOUS
<1>4. n \in Bad <=> ~ \E h : FlatBy(h, ss, n)
  OBVIOUS
<1> HIDE DEF Bad
<1>5. Bad = {}
  <2> SUFFICES ASSUME Bad # {} PROVE FALSE
    OBVIOUS
  <2>1. PICK m \in Bad : \A y \in Bad : m <= y
    BY <1>3, LeastNatural
  <2>2. m \in Nat /\ m # 0
    BY <1>1, <1>3
  <2>3. m - 1 \in Nat /\ m - 1 \notin Bad /\ (m - 1) + 1 = m
    BY <2>1, <2>2
  <2>4. QED  BY <1>2, <2>3
<1>6. QED  BY <1>4, <1>5

\* f and g have the same first n values.
SameTo(f, g, n) == \A i \in 1..n : f[i] = g[i]

LEMMA FlatBySame ==
    ASSUME NEW ss, NEW tt, NEW n \in Nat, NEW m \in Nat, NEW g, NEW h,
           FlatBy(g, ss, n), FlatBy(h, tt, m), n <= m, SameTo(ss, tt, n)
    PROVE  SameTo(g, h, n)
<1> DEFINE Bad == {i \in 1..n : g[i] # h[i]}
<1>1. \A i \in 1..n : i \in 1..m
  OBVIOUS
<1>2. ASSUME NEW i \in 1..n, i - 1 \notin Bad PROVE i \notin Bad
  <2>1. /\ g[i] = IF i = 1 THEN ss[i] ELSE g[i - 1] \o ss[i]
        /\ h[i] = IF i = 1 THEN tt[i] ELSE h[i - 1] \o tt[i]
    BY <1>1 DEF FlatBy, SameTo
  <2>2. i # 1 => i - 1 \in 1..n
    OBVIOUS
  <2>3. i # 1 => g[i - 1] = h[i - 1]
    BY <1>2, <2>2
  <2>4. ss[i] = tt[i]
    BY DEF SameTo
  <2>5. QED  BY <2>1, <2>3, <2>4
<1>3. Bad \in SUBSET Nat /\ \A i \in Bad : i \in 1..n
  OBVIOUS
<1>4. \A i \in 1..n : i \in Bad <=> g[i] # h[i]
  OBVIOUS
<1> HIDE DEF Bad
<1>5. Bad = {}
  <2> SUFFICES ASSUME Bad # {} PROVE FALSE
    OBVIOUS
  <2>1. PICK i \in Bad : \A y \in Bad : i <= y
    BY <1>3, LeastNatural
  <2>2. i \in 1..n /\ i - 1 \notin Bad
    BY <1>3, <2>1
  <2>3. QED  BY <1>2, <2>1, <2>2
<1>6. QED  BY <1>4, <1>5 DEF SameTo

\* What FlattenSeq computes, step by step.
LEMMA FlatIs ==
    ASSUME NEW S, NEW ss \in Seq(S), Len(ss) # 0
    PROVE  \E h : FlatBy(h, ss, Len(ss)) /\ FlattenSeq(ss) = h[Len(ss)]
<1> DEFINE flatten == CHOOSE h : FlatBy(h, ss, Len(ss))
<1>1. FlatBy(flatten, ss, Len(ss))
  <2>1. \E h : FlatBy(h, ss, Len(ss))
    BY LenProperties, FlatByExists
  <2>2. QED  BY <2>1
<1>2. FlattenSeq(ss) = flatten[Len(ss)]
  BY DEF FlattenSeq, FlatBy
<1> HIDE DEF flatten
<1>3. QED  BY <1>1, <1>2

\* No sequences, one more at the end, the first one.
LEMMA FlatOfNone == FlattenSeq(<<>>) = <<>>
BY DEF FlattenSeq

LEMMA FlatOfMore ==
    ASSUME NEW S, NEW ss \in Seq(Seq(S)), NEW e \in Seq(S), FlattenSeq(ss) \in Seq(S)
    PROVE  /\ FlattenSeq(Append(ss, e)) = FlattenSeq(ss) \o e
           /\ FlattenSeq(Append(ss, e)) \in Seq(S)
<1> DEFINE tt == Append(ss, e)
           n == Len(ss)
           m == n + 1
<1>1. tt \in Seq(Seq(S)) /\ n \in Nat /\ Len(tt) = m /\ m \in Nat /\ m # 0 /\ n <= m /\ tt[m] = e
  BY AppendProperties, LenProperties
<1>2. SameTo(ss, tt, n)
  BY AppendProperties DEF SameTo
<1>3. n = 0 => ss = <<>>
  BY EmptySeq
<1>4. m \in 1..m /\ m - 1 = n /\ (m = 1 <=> n = 0) /\ (n # 0 => n \in 1..n)
  BY <1>1
<1>5. n # 0 => \E h : FlatBy(h, ss, n) /\ FlattenSeq(ss) = h[n]
  BY FlatIs
<1> HIDE DEF tt, n, m
<1>6. PICK h : FlatBy(h, tt, m) /\ FlattenSeq(tt) = h[m]
  BY <1>1, FlatIs
<1>7. h[m] = IF m = 1 THEN tt[m] ELSE h[m - 1] \o tt[m]
  BY <1>4, <1>6 DEF FlatBy
<1>8. FlattenSeq(tt) = FlattenSeq(ss) \o e
  <2>1. CASE n = 0
    <3>1. FlattenSeq(ss) = <<>>
      BY <1>3, <2>1, FlatOfNone
    <3>2. <<>> \o e = e
      BY ConcatEmptySeq
    <3>3. QED  BY <1>1, <1>4, <1>6, <1>7, <2>1, <3>1, <3>2
  <2>2. CASE n # 0
    <3>1. PICK g : FlatBy(g, ss, n) /\ FlattenSeq(ss) = g[n]
      BY <1>5, <2>2
    <3>2. n \in Nat /\ m \in Nat /\ n <= m /\ FlatBy(g, ss, n) /\ FlatBy(h, tt, m)
      BY <1>1, <1>6, <3>1
    <3>3. SameTo(g, h, n)
      BY <1>2, <3>2, FlatBySame
    <3>4. g[n] = h[n]
      BY <1>4, <2>2, <3>3 DEF SameTo
    <3>5. QED  BY <1>1, <1>4, <1>6, <1>7, <2>2, <3>1, <3>4
  <2>3. QED  BY <2>1, <2>2
<1>9. FlattenSeq(ss) \o e \in Seq(S)
  BY ConcatProperties
<1>10. QED  BY <1>8, <1>9 DEF tt

LEMMA FlatTyped ==
    ASSUME NEW S, NEW ss \in Seq(Seq(S))
    PROVE  /\ FlattenSeq(ss) \in Seq(S)
           /\ ss # <<>> => FlattenSeq(ss) = Head(ss) \o FlattenSeq(Tail(ss))
<1> DEFINE Good(u) == /\ FlattenSeq(u) \in Seq(S)
                      /\ u # <<>> => FlattenSeq(u) = Head(u) \o FlattenSeq(Tail(u))
           Bad == {Len(u) : u \in {v \in Seq(Seq(S)) : ~Good(v)}}
<1>1. Good(<<>>)
  BY FlatOfNone, EmptySeq
<1>2. ASSUME NEW u \in Seq(Seq(S)), NEW e \in Seq(S), Good(u),
             \A v \in Seq(Seq(S)) : Len(v) <= Len(u) => Good(v)
      PROVE  Good(Append(u, e))
  <2>1. FlattenSeq(Append(u, e)) = FlattenSeq(u) \o e /\ FlattenSeq(Append(u, e)) \in Seq(S)
    BY <1>2, FlatOfMore
  <2>2. /\ Head(Append(u, e)) = IF u = <<>> THEN e ELSE Head(u)
        /\ Tail(Append(u, e)) = IF u = <<>> THEN <<>> ELSE Append(Tail(u), e)
    BY HeadTailAppend
  <2>3. CASE u = <<>>
    <3>1. <<>> \o e = e /\ e \o <<>> = e
      BY ConcatEmptySeq
    <3>2. QED  BY <2>1, <2>2, <2>3, <3>1, FlatOfNone
  <2>4. CASE u # <<>>
    <3>1. Tail(u) \in Seq(Seq(S)) /\ Head(u) \in Seq(S) /\ Len(Tail(u)) = Len(u) - 1 /\ Len(u) \in Nat
      BY <2>4, HeadTailProperties, LenProperties
    <3>2. Len(Tail(u)) <= Len(u)
      BY <3>1
    <3>3. FlattenSeq(Tail(u)) \in Seq(S)
      BY <1>2, <3>1, <3>2
    <3>4. FlattenSeq(Append(Tail(u), e)) = FlattenSeq(Tail(u)) \o e
      BY <3>1, <3>3, FlatOfMore
    <3>5. FlattenSeq(u) = Head(u) \o FlattenSeq(Tail(u))
      BY <1>2, <2>4
    <3>6. (Head(u) \o FlattenSeq(Tail(u))) \o e = Head(u) \o (FlattenSeq(Tail(u)) \o e)
      <4> DEFINE a == Head(u)
                 b == FlattenSeq(Tail(u))
      <4>1. a \in Seq(S) /\ b \in Seq(S)
        BY <3>1, <3>3
      <4> HIDE DEF a, b
      <4>2. (a \o b) \o e = a \o (b \o e)
        BY <4>1, ConcatAssociative, SMTT(30)
      <4>3. QED  BY <4>2 DEF a, b
    <3>7. QED  BY <2>1, <2>2, <2>4, <3>4, <3>5, <3>6
  <2>5. QED  BY <2>3, <2>4
<1> HIDE DEF Good
<1>3. Bad \in SUBSET Nat
  BY LenProperties
<1>4. \A v \in Seq(Seq(S)) : ~Good(v) => Len(v) \in Bad
  OBVIOUS
<1>5. \A x \in Bad : \E v \in Seq(Seq(S)) : ~Good(v) /\ Len(v) = x
  OBVIOUS
<1> HIDE DEF Bad
<1>6. Bad = {}
  <2> SUFFICES ASSUME Bad # {} PROVE FALSE
    OBVIOUS
  <2>1. PICK m \in Bad : \A y \in Bad : m <= y
    BY <1>3, LeastNatural
  <2>2. PICK v \in Seq(Seq(S)) : ~Good(v) /\ Len(v) = m
    BY <1>5, <2>1
  <2>3. PICK u \in Seq(Seq(S)), e \in Seq(S) : v = Append(u, e)
    BY <1>1, <2>2, SequenceEmptyOrAppend
  <2>4. Len(v) = Len(u) + 1 /\ Len(u) \in Nat
    BY <2>3, AppendProperties, LenProperties
  <2>5. ASSUME NEW w \in Seq(Seq(S)), Len(w) <= Len(u) PROVE Good(w)
    <3> SUFFICES ASSUME ~Good(w) PROVE FALSE
      OBVIOUS
    <3>1. m <= Len(w) /\ Len(w) \in Nat
      BY <1>4, <2>1, LenProperties
    <3>2. QED  BY <2>2, <2>4, <2>5, <3>1
  <2>6. Good(u)
    BY <2>4, <2>5
  <2>7. QED  BY <1>2, <2>2, <2>3, <2>5, <2>6
<1>7. Good(ss)
  BY <1>4, <1>6
<1>8. QED  BY <1>7 DEF Good

-----------------------------------------------------------------------------
\* A recursion that goes from q to a later nxt[q], until q is in done, has a
\* solution: f is one on the arguments from k on.
SolvesFrom(f, k, n, V, done, base, nxt, step) ==
    /\ f \in [k..n -> V]
    /\ \A q \in k..n : f[q] = IF q \in done THEN base[q] ELSE step[<<q, f[nxt[q]]>>]

LEMMA RecursionUp ==
    ASSUME NEW a \in Nat, NEW n \in Nat, NEW V, NEW done, NEW base \in [a..n -> V],
           NEW nxt, NEW step \in [(a..n) \X V -> V],
           \A q \in a..n : q \notin done => nxt[q] \in (q + 1)..n
    PROVE  \E f : SolvesFrom(f, a, n, V, done, base, nxt, step)
<1> DEFINE Good(k) == \E f : SolvesFrom(f, k, n, V, done, base, nxt, step)
           Bad == {m \in Nat : n + 1 - m >= a /\ ~Good(n + 1 - m)}
<1>1. ASSUME NEW k \in a..n, Good(k + 1) PROVE Good(k)
  <2>1. PICK g : SolvesFrom(g, k + 1, n, V, done, base, nxt, step)
    BY <1>1
  <2> DEFINE v == IF k \in done THEN base[k] ELSE step[<<k, g[nxt[k]]>>]
             f == [q \in k..n |-> IF q = k THEN v ELSE g[q]]
  <2>2. g \in [(k + 1)..n -> V] /\ (k \notin done => nxt[k] \in (k + 1)..n)
    BY <2>1 DEF SolvesFrom
  <2>3. v \in V
    <3>1. k \in done => base[k] \in V
      OBVIOUS
    <3>2. ASSUME k \notin done PROVE step[<<k, g[nxt[k]]>>] \in V
      <4>1. g[nxt[k]] \in V
        BY <2>2, <3>2
      <4>2. <<k, g[nxt[k]]>> \in (a..n) \X V
        BY <4>1
      <4> QED BY <4>2
    <3> QED BY <3>1, <3>2
  <2> HIDE DEF v
  <2>4. \A q \in k..n : q = k \/ q \in (k + 1)..n
    OBVIOUS
  <2>5. f \in [k..n -> V]
    BY <2>2, <2>3, <2>4
  <2>6. \A q \in (k + 1)..n : f[q] = g[q]
    OBVIOUS
  <2>7. f[k] = v
    OBVIOUS
  <2> HIDE DEF f
  <2>8. ASSUME NEW q \in k..n PROVE f[q] = IF q \in done THEN base[q] ELSE step[<<q, f[nxt[q]]>>]
    <3>1. CASE q = k
      BY <2>2, <2>6, <2>7, <3>1 DEF v
    <3>2. CASE q \in (k + 1)..n
      <4>1. q \in a..n /\ f[q] = g[q]
        BY <2>6, <3>2
      <4>2. g[q] = IF q \in done THEN base[q] ELSE step[<<q, g[nxt[q]]>>]
        BY <2>1, <3>2 DEF SolvesFrom
      <4>3. q \notin done => nxt[q] \in (k + 1)..n
        BY <4>1, <3>2
      <4> QED BY <2>6, <4>1, <4>2, <4>3
    <3> QED BY <2>4, <3>1, <3>2
  <2> QED BY <2>5, <2>8 DEF SolvesFrom
<1>2. Good(n + 1)
  <2> DEFINE f == [q \in (n + 1)..n |-> base[q]]
  <2>1. f \in [(n + 1)..n -> V] /\ \A q \in (n + 1)..n : FALSE
    OBVIOUS
  <2>2. SolvesFrom(f, n + 1, n, V, done, base, nxt, step)
    BY <2>1 DEF SolvesFrom
  <2> QED BY <2>2
<1> HIDE DEF Good
<1>3. Bad \in SUBSET Nat /\ \A m \in Nat : m \in Bad <=> n + 1 - m >= a /\ ~Good(n + 1 - m)
  OBVIOUS
<1> HIDE DEF Bad
<1>4. Bad = {}
  <2> SUFFICES ASSUME Bad # {} PROVE FALSE
    OBVIOUS
  <2>1. PICK m \in Bad : \A y \in Bad : m <= y
    BY <1>3, LeastNatural
  <2>2. m \in Nat /\ n + 1 - m >= a /\ ~Good(n + 1 - m)
    BY <1>3, <2>1
  <2>3. m # 0
    <3>1. n + 1 - 0 = n + 1
      OBVIOUS
    <3> QED BY <1>2, <2>2, <3>1
  <2>4. m - 1 \in Nat /\ n + 1 - (m - 1) >= a /\ n + 1 - (m - 1) = (n + 1 - m) + 1 /\ n + 1 - m \in a..n
    BY <2>2, <2>3
  <2>5. m - 1 \notin Bad
    BY <2>1, <2>2, <2>4
  <2>6. Good((n + 1 - m) + 1)
    BY <1>3, <2>4, <2>5
  <2> QED BY <1>1, <2>2, <2>4, <2>6
<1>5. CASE a <= n + 1
  <2>1. n + 1 - a \in Nat /\ n + 1 - (n + 1 - a) = a
    BY <1>5
  <2>2. ~(n + 1 - (n + 1 - a) >= a /\ ~Good(n + 1 - (n + 1 - a)))
    BY <1>3, <1>4, <2>1
  <2>3. Good(a)
    BY <2>1, <2>2
  <2> QED BY <2>3 DEF Good
<1>6. CASE ~(a <= n + 1)
  <2> DEFINE f == [q \in a..n |-> base[q]]
  <2>1. f \in [a..n -> V] /\ \A q \in a..n : FALSE
    BY <1>6
  <2>2. SolvesFrom(f, a, n, V, done, base, nxt, step)
    BY <2>1 DEF SolvesFrom
  <2> QED BY <2>2
<1> QED BY <1>5, <1>6

\* The loop that goes on w at a time while it is in text, as a recursive function.
StopsOf(stop, n, w, text) == stop = [q \in 0..n |-> IF q \in text THEN stop[q + w] ELSE q]

\* The loop from q on ends at e, the first argument it comes to that is not in text.
EndsAt(q, e, n, w, text) ==
    /\ e \in q..n /\ (e - q) % w = 0 /\ e \notin text
    /\ \A k \in q..(e - 1) : (k - q) % w = 0 => k \in text

LEMMA StopExists ==
    ASSUME NEW n \in Nat, NEW w \in {1, 2}, NEW text \in SUBSET (0..(n - w))
    PROVE  \E stop : StopsOf(stop, n, w, text)
<1> DEFINE done == (0..n) \ text
           base == [q \in 0..n |-> q]
           nxt == [q \in 0..n |-> q + w]
           step == [p \in (0..n) \X Nat |-> p[2]]
<1>1. base \in [0..n -> Nat] /\ step \in [(0..n) \X Nat -> Nat]
  OBVIOUS
<1>2. ASSUME NEW q \in 0..n, q \notin done PROVE nxt[q] \in (q + 1)..n
  <2>1. q \in 0..(n - w)
    BY <1>2
  <2> QED BY <2>1
<1>3. \A q \in 0..n : base[q] = q /\ nxt[q] = q + w /\ (q \in done <=> q \notin text)
  OBVIOUS
<1>4. \A q \in 0..n, v \in Nat : step[<<q, v>>] = v
  OBVIOUS
<1>5. 0 \in Nat
  OBVIOUS
<1> HIDE DEF done, base, nxt, step
<1>6. PICK f : SolvesFrom(f, 0, n, Nat, done, base, nxt, step)
  BY <1>1, <1>2, <1>5, RecursionUp
<1>7. ASSUME NEW q \in 0..n PROVE f[q] = IF q \in text THEN f[q + w] ELSE q
  <2>1. f[q] = IF q \in done THEN base[q] ELSE step[<<q, f[nxt[q]]>>]
    BY <1>6 DEF SolvesFrom
  <2>2. CASE q \in text
    <3>1. nxt[q] = q + w /\ q + w \in 0..n
      BY <1>2, <1>3, <2>2
    <3>2. f[q + w] \in Nat
      BY <1>6, <3>1 DEF SolvesFrom
    <3> QED BY <1>3, <1>4, <2>1, <2>2, <3>1, <3>2
  <2>3. CASE q \notin text
    BY <1>3, <2>1, <2>3
  <2> QED BY <2>2, <2>3
<1>8. DOMAIN f = 0..n /\ f = [q \in DOMAIN f |-> f[q]]
  BY <1>6 DEF SolvesFrom
<1>9. f = [q \in 0..n |-> IF q \in text THEN f[q + w] ELSE q]
  BY <1>7, <1>8
<1> QED BY <1>9 DEF StopsOf

LEMMA StopFacts ==
    ASSUME NEW n \in Nat, NEW w \in {1, 2}, NEW text \in SUBSET (0..(n - w)),
           NEW stop, StopsOf(stop, n, w, text)
    PROVE  \A q \in 0..n : EndsAt(q, stop[q], n, w, text)
<1> DEFINE Good(q) == EndsAt(q, stop[q], n, w, text)
           Bad == {m \in 0..n : ~Good(n - m)}
<1>1. ASSUME NEW q \in 0..n, q \in text => q + w \in 0..n /\ Good(q + w) PROVE Good(q)
  <2>1. stop[q] = IF q \in text THEN stop[q + w] ELSE q
    BY DEF StopsOf
  <2>2. CASE q \notin text
    <3>1. stop[q] = q
      BY <2>1, <2>2
    <3>2. q \in q..n /\ (q - q) % w = 0 /\ q..(q - 1) = {}
      OBVIOUS
    <3> QED BY <2>2, <3>1, <3>2 DEF EndsAt
  <2>3. CASE q \in text
    <3> DEFINE e == stop[q + w]
    <3>1. stop[q] = e /\ EndsAt(q + w, e, n, w, text)
      BY <1>1, <2>1, <2>3
    <3> HIDE DEF e
    <3>2. e \in Int /\ q + w <= e /\ e <= n /\ (e - (q + w)) % w = 0 /\ e \notin text
      BY <3>1 DEF EndsAt
    <3>3. (e - q) % w = 0
      BY <3>2
    <3>4. ASSUME NEW k \in q..(e - 1), (k - q) % w = 0 PROVE k \in text
      <4>1. k = q \/ (k \in (q + w)..(e - 1) /\ (k - (q + w)) % w = 0)
        BY <3>2, <3>4
      <4> QED BY <2>3, <3>1, <4>1 DEF EndsAt
    <3> QED BY <3>1, <3>2, <3>3, <3>4 DEF EndsAt
  <2> QED BY <2>2, <2>3
<1> HIDE DEF Good
<1>2. Bad \in SUBSET Nat /\ \A m : m \in Bad <=> m \in 0..n /\ ~Good(n - m)
  OBVIOUS
<1> HIDE DEF Bad
<1>3. Bad = {}
  <2> SUFFICES ASSUME Bad # {} PROVE FALSE
    OBVIOUS
  <2>1. PICK m \in Bad : \A y \in Bad : m <= y
    BY <1>2, LeastNatural
  <2>2. m \in 0..n /\ n - m \in 0..n /\ ~Good(n - m)
    BY <1>2, <2>1
  <2>3. ASSUME n - m \in text PROVE (n - m) + w \in 0..n /\ Good((n - m) + w)
    <3>1. n - m \in 0..(n - w)
      BY <2>3
    <3>2. m - w \in 0..n /\ n - (m - w) = (n - m) + w /\ m - w < m
      BY <2>2, <3>1
    <3>3. m - w \notin Bad
      BY <2>1, <2>2, <3>2
    <3> QED BY <1>2, <3>1, <3>2, <3>3
  <2> QED BY <1>1, <2>2, <2>3
<1>4. ASSUME NEW q \in 0..n PROVE Good(q)
  <2>1. n - q \in 0..n /\ n - (n - q) = q
    OBVIOUS
  <2> QED BY <1>2, <1>3, <2>1
<1> QED BY <1>4 DEF Good

\* Lists with the same elements are the same.
LEMMA SameSequence ==
    ASSUME NEW S, NEW s \in Seq(S), NEW t \in Seq(S), Len(s) = Len(t),
           \A i \in 1..Len(s) : s[i] = t[i]
    PROVE  s = t
  OBVIOUS

\* A list written down by its elements.
LEMMA ListIs ==
    ASSUME NEW n \in Nat, NEW s, s = [k \in 1..n |-> s[k]]
    PROVE  Len(s) = n /\ s \in Seq(Range(s))
  <1> DEFINE S == Range(s)
  <1>1. DOMAIN s = 1..n
    OBVIOUS
  <1>2. \A k \in 1..n : s[k] \in S
    BY <1>1 DEF Range
  <1> HIDE DEF S
  <1>3. s \in [1..n -> S]
    BY <1>2
  <1>4. s \in Seq(S)
    BY <1>3
  <1> QED BY <1>1, <1>4, LenProperties DEF S

\* What Min of the community modules returns.
LEMMA MinFacts ==
    ASSUME NEW S \in SUBSET Nat, S # {}
    PROVE  Min(S) \in S /\ \A y \in S : Min(S) <= y
  <1>1. \E m \in S : \A y \in S : m <= y
    BY LeastNatural
  <1> QED BY <1>1 DEF Min

\* A list is one over any set that its elements are in.
LEMMA SequenceOf ==
    ASSUME NEW A, NEW t \in Seq(A), NEW S, \A k \in 1..Len(t) : t[k] \in S
    PROVE  t \in Seq(S)
  OBVIOUS
=============================================================================
