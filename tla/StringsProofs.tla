---------------------------- MODULE StringsProofs ----------------------------
(***************************************************************************)
(* The scan of Strings lists every run of text in the image's data and     *)
(* nothing else, for every image: the two nested loops find exactly the    *)
(* maximal runs, the UTF-8 form of a wide run decodes to its units, and    *)
(* what the sections passed so far list is all there is in them.           *)
(***************************************************************************)
EXTENDS Strings, FiniteSetTheorems, FunctionTheorems, SequenceLemmas

-----------------------------------------------------------------------------
\* What From of RunsFound is.
FoundOf(from, stop, n, w) ==
    from = [q \in 0..n |->
               IF q + w > n THEN <<>>
               ELSE LET e == stop[q]
                    IN  (IF LongEnough((e - q) \div w) THEN <<<<q, e>>>> ELSE <<>>)
                        \o from[IF e + w <= n THEN e + w ELSE e]]

\* From on the run it finds at q and on where it goes on.
GoOn(e, n, w) == IF e + w <= n THEN e + w ELSE e
FirstOf(q, e, w) == IF LongEnough((e - q) \div w) THEN <<<<q, e>>>> ELSE <<>>
Pairs == Nat \X Nat

LEMMA FoundExists ==
    ASSUME NEW n \in Nat, NEW w \in {1, 2}, NEW text \in SUBSET (0..(n - w)),
           NEW stop, StopsOf(stop, n, w, text)
    PROVE  \E from \in [0..n -> Seq(Pairs)] : FoundOf(from, stop, n, w)
<1> DEFINE done == {q \in 0..n : q + w > n}
           base == [q \in 0..n |-> <<>>]
           nxt == [q \in 0..n |-> GoOn(stop[q], n, w)]
           V == Seq(Pairs)
           step == [p \in (0..n) \X V |-> FirstOf(p[1], stop[p[1]], w) \o p[2]]
<1>1. \A q \in 0..n : stop[q] \in q..n
  BY StopFacts DEF EndsAt
<1>2. base \in [0..n -> V]
  BY EmptySeq
<1>3. ASSUME NEW p \in (0..n) \X V PROVE FirstOf(p[1], stop[p[1]], w) \o p[2] \in V
  <2>1. <<p[1], stop[p[1]]>> \in Pairs
    BY <1>1 DEF Pairs
  <2>2. FirstOf(p[1], stop[p[1]], w) \in V /\ p[2] \in V
    BY <2>1, EmptySeq DEF FirstOf
  <2> HIDE DEF V
  <2> QED BY <2>2, ConcatProperties DEF V
<1>4. step \in [(0..n) \X V -> V]
  BY <1>3
<1>5. ASSUME NEW q \in 0..n, q \notin done PROVE nxt[q] \in (q + 1)..n
  <2>1. stop[q] \in q..n /\ q + w <= n
    BY <1>1, <1>5
  <2> QED BY <2>1 DEF GoOn
<1>6. \A q \in 0..n : base[q] = <<>> /\ nxt[q] = GoOn(stop[q], n, w) /\ (q \in done <=> q + w > n)
  OBVIOUS
<1>7. \A q \in 0..n, v \in V : step[<<q, v>>] = FirstOf(q, stop[q], w) \o v
  OBVIOUS
<1> HIDE DEF done, base, nxt, step, V
<1>8. 0 \in Nat
  OBVIOUS
<1>9. PICK f : SolvesFrom(f, 0, n, V, done, base, nxt, step)
  BY <1>2, <1>4, <1>5, <1>8, RecursionUp
<1>10. ASSUME NEW q \in 0..n
       PROVE  f[q] = IF q + w > n THEN <<>>
                     ELSE LET e == stop[q]
                          IN  (IF LongEnough((e - q) \div w) THEN <<<<q, e>>>> ELSE <<>>)
                              \o f[IF e + w <= n THEN e + w ELSE e]
  <2>1. f[q] = IF q \in done THEN base[q] ELSE step[<<q, f[nxt[q]]>>]
    BY <1>9 DEF SolvesFrom
  <2>2. CASE q + w > n
    BY <1>6, <2>1, <2>2
  <2>3. CASE ~(q + w > n)
    <3>1. q \notin done /\ nxt[q] \in 0..n
      BY <1>5, <1>6, <2>3
    <3>2. f[nxt[q]] \in V
      BY <1>9, <3>1 DEF SolvesFrom
    <3>3. f[q] = FirstOf(q, stop[q], w) \o f[nxt[q]]
      BY <1>7, <2>1, <3>1, <3>2
    <3> QED BY <1>6, <2>3, <3>3 DEF FirstOf, GoOn
  <2> QED BY <2>2, <2>3
<1>11. f \in [0..n -> V]
  BY <1>9 DEF SolvesFrom
<1>12. FoundOf(f, stop, n, w)
  BY <1>10, <1>11 DEF FoundOf
<1> QED BY <1>11, <1>12 DEF V

\* What RunsFound computes.
LEMMA RunsFoundIs ==
    ASSUME NEW n \in Nat, NEW w \in {1, 2}, NEW text \in SUBSET (0..(n - w))
    PROVE  \E stop, from : /\ StopsOf(stop, n, w, text) /\ FoundOf(from, stop, n, w)
                           /\ RunsFound(n, w, text) = from[0]
<1> DEFINE stop == CHOOSE s : StopsOf(s, n, w, text)
           from == CHOOSE f : FoundOf(f, stop, n, w)
<1>1. StopsOf(stop, n, w, text)
  BY StopExists
<1>2. RunsFound(n, w, text) = from[0]
  BY DEF RunsFound, StopsOf, FoundOf
<1> HIDE DEF stop
<1>3. \E f : FoundOf(f, stop, n, w)
  BY <1>1, FoundExists
<1>4. FoundOf(from, stop, n, w)
  BY <1>3
<1> HIDE DEF from
<1> QED BY <1>1, <1>2, <1>4

-----------------------------------------------------------------------------
\* The maximal runs from q on.
LaterRuns(q, n, w, text) == {r \in Runs(n, w, text) : r[1] >= q}
Border(q, n, w, text) ==
    q \in 0..n /\ q % w = 0 /\ (q + w <= n => q - w \notin text)

LEMMA RunFacts ==
    ASSUME NEW n \in Nat, NEW w \in {1, 2}, NEW text \in SUBSET (0..(n - w)),
           NEW r \in Runs(n, w, text)
    PROVE  /\ r = <<r[1], r[2]>> /\ r[1] \in 0..(n - w) /\ r[1] % w = 0 /\ r[2] \in (r[1] + w)..n
           /\ r[2] % w = 0 /\ r[1] \in text /\ r[1] - w \notin text /\ r[2] \notin text
           /\ \A k \in r[1]..(r[2] - 1) : k % w = 0 => k \in text
           /\ (r[2] - r[1]) \div w >= MinLen
<1>1. /\ r \in {k \in 0..(n - w) : k % w = 0} \X (0..n)
      /\ r[2] - r[1] >= w * MinLen /\ (r[2] - r[1]) % w = 0
      /\ \A k \in {k \in 0..(n - w) : k % w = 0} : r[1] <= k /\ k < r[2] => k \in text
      /\ r[1] - w \notin text /\ r[2] \notin text
  BY DEF Runs
<1>2. r = <<r[1], r[2]>> /\ r[1] \in 0..(n - w) /\ r[1] % w = 0 /\ r[2] \in 0..n
  BY <1>1
<1>3. r[2] - r[1] >= w /\ (r[2] - r[1]) \div w >= MinLen
  <2>1. CASE w = 1
    BY <1>1, <1>2, <2>1, LengthAssumption
  <2>2. CASE w = 2
    BY <1>1, <1>2, <2>2, LengthAssumption
  <2> QED BY <2>1, <2>2
<1>4. r[2] \in (r[1] + w)..n /\ r[2] % w = 0
  BY <1>1, <1>2, <1>3
<1>5. \A k \in r[1]..(r[2] - 1) : k % w = 0 => k \in text
  <2> SUFFICES ASSUME NEW k \in r[1]..(r[2] - 1), k % w = 0 PROVE k \in text
    OBVIOUS
  <2>1. k \in 0..(n - w) /\ r[1] <= k /\ k < r[2]
    BY <1>2, <1>4
  <2> QED BY <1>1, <2>1
<1>6. r[1] \in text
  BY <1>2, <1>4, <1>5
<1> QED BY <1>1, <1>2, <1>3, <1>4, <1>5, <1>6

\* The conditions of a maximal run in terms of its ends.
LEMMA IsRun ==
    ASSUME NEW n \in Nat, NEW w \in {1, 2}, NEW text \in SUBSET (0..(n - w)),
           NEW q, NEW e, Border(q, n, w, text), EndsAt(q, e, n, w, text), q + w <= n,
           LongEnough((e - q) \div w)
    PROVE  <<q, e>> \in Runs(n, w, text)
<1>1. q \in 0..n /\ q % w = 0 /\ e \in q..n /\ (e - q) % w = 0
  BY DEF Border, EndsAt
<1>2. q \in {k \in 0..(n - w) : k % w = 0}
  BY <1>1
<1>3. e - q >= w * MinLen
  <2>1. CASE w = 1
    BY <1>1, <2>1, LengthAssumption DEF LongEnough
  <2>2. CASE w = 2
    BY <1>1, <2>2, LengthAssumption DEF LongEnough
  <2> QED BY <2>1, <2>2
<1>4. ASSUME NEW k \in {k \in 0..(n - w) : k % w = 0}, q <= k, k < e PROVE k \in text
  <2>1. k \in q..(e - 1) /\ (k - q) % w = 0
    BY <1>1, <1>4
  <2> QED BY <2>1 DEF EndsAt
<1>5. q - w \notin text /\ e \notin text
  BY DEF Border, EndsAt
<1>6. <<q, e>> \in {k \in 0..(n - w) : k % w = 0} \X (0..n)
  BY <1>1, <1>2
<1> QED BY <1>1, <1>3, <1>4, <1>5, <1>6 DEF Runs

\* The runs from q on: the one that begins at q, if it is long enough, and those
\* from where the loop goes on.
LEMMA RunsFrom ==
    ASSUME NEW n \in Nat, NEW w \in {1, 2}, NEW text \in SUBSET (0..(n - w)),
           NEW q, NEW e, Border(q, n, w, text), EndsAt(q, e, n, w, text), q + w <= n
    PROVE  /\ GoOn(e, n, w) \in (q + 1)..n /\ Border(GoOn(e, n, w), n, w, text)
           /\ \A r : r \in LaterRuns(q, n, w, text) <=>
                        \/ r \in LaterRuns(GoOn(e, n, w), n, w, text)
                        \/ LongEnough((e - q) \div w) /\ r = <<q, e>>
<1>1. q \in 0..n /\ q % w = 0 /\ e \in q..n /\ (e - q) % w = 0 /\ e \notin text /\ q - w \notin text
  BY DEF Border, EndsAt
<1>2. \A k \in q..(e - 1) : (k - q) % w = 0 => k \in text
  BY DEF EndsAt
<1>3. e % w = 0
  BY <1>1
<1> DEFINE g == GoOn(e, n, w)
<1>4. g \in (q + 1)..n /\ (e + w <= n => g = e + w) /\ (~(e + w <= n) => g = e)
  BY <1>1 DEF GoOn
<1>5. Border(g, n, w, text)
  <2>1. CASE e + w <= n
    <3>1. g % w = 0 /\ g - w = e
      BY <1>1, <1>3, <1>4, <2>1
    <3> QED BY <1>1, <1>4, <3>1 DEF Border
  <2>2. CASE ~(e + w <= n)
    BY <1>3, <1>4, <2>2 DEF Border
  <2> QED BY <2>1, <2>2
<1> HIDE DEF g
<1>6. ASSUME NEW r \in Runs(n, w, text), r[1] >= q, ~(r[1] >= g)
      PROVE  LongEnough((e - q) \div w) /\ r = <<q, e>>
  <2>1. /\ r = <<r[1], r[2]>> /\ r[1] \in 0..(n - w) /\ r[1] % w = 0 /\ r[2] \in (r[1] + w)..n
        /\ r[2] % w = 0 /\ r[1] \in text /\ r[1] - w \notin text /\ r[2] \notin text
        /\ \A k \in r[1]..(r[2] - 1) : k % w = 0 => k \in text
        /\ (r[2] - r[1]) \div w >= MinLen
    BY RunFacts
  <2>2. r[1] <= e
    BY <1>1, <1>3, <1>4, <1>6, <2>1
  <2>3. r[1] # e
    BY <1>1, <2>1
  <2>4. r[1] = q
    <3> SUFFICES ASSUME r[1] # q PROVE FALSE
      OBVIOUS
    <3>1. r[1] - w \in q..(e - 1) /\ (r[1] - w - q) % w = 0
      BY <1>1, <1>6, <2>1, <2>2
    <3> QED BY <1>2, <2>1, <3>1
  <2>5. ~(r[2] < e)
    <3> SUFFICES ASSUME r[2] < e PROVE FALSE
      OBVIOUS
    <3>1. r[2] \in q..(e - 1) /\ (r[2] - q) % w = 0
      BY <1>1, <2>1, <2>4
    <3> QED BY <1>2, <2>1, <3>1
  <2>6. ~(e < r[2])
    <3> SUFFICES ASSUME e < r[2] PROVE FALSE
      OBVIOUS
    <3>1. e \in r[1]..(r[2] - 1)
      BY <1>1, <2>1, <2>2
    <3> QED BY <1>1, <1>3, <2>1, <3>1
  <2>7. r[2] = e
    BY <1>1, <2>1, <2>5, <2>6
  <2> QED BY <2>1, <2>4, <2>7 DEF LongEnough
<1>7. ASSUME NEW r \in LaterRuns(g, n, w, text) PROVE r \in LaterRuns(q, n, w, text)
  <2>1. r \in Runs(n, w, text) /\ r[1] >= g
    BY DEF LaterRuns
  <2>2. r[1] >= q
    BY <1>1, <1>4, <2>1, RunFacts
  <2> QED BY <2>1, <2>2 DEF LaterRuns
<1>8. ASSUME LongEnough((e - q) \div w) PROVE <<q, e>> \in LaterRuns(q, n, w, text)
  <2>1. <<q, e>> \in Runs(n, w, text)
    BY <1>8, IsRun
  <2>2. <<q, e>>[1] >= q
    BY <1>1
  <2> QED BY <2>1, <2>2 DEF LaterRuns
<1>9. \A r : r \in LaterRuns(q, n, w, text) =>
                 r \in LaterRuns(g, n, w, text) \/ (LongEnough((e - q) \div w) /\ r = <<q, e>>)
  BY <1>6 DEF LaterRuns
<1> QED BY <1>4, <1>5, <1>7, <1>8, <1>9 DEF g

\* A list has each run of a set once, in the order of their addresses.
Enumerates(f, S) ==
    /\ f \in Seq(S)
    /\ \A r \in S : \E k \in 1..Len(f) : f[k] = r
    /\ \A j, k \in 1..Len(f) : j < k => f[j][1] < f[k][1]

\* One more run in front of those that lie behind it.
LEMMA EnumerateOneMore ==
    ASSUME NEW S \in SUBSET Pairs, NEW f, Enumerates(f, S), NEW r \in Pairs,
           \A s \in S : r[1] < s[1]
    PROVE  Enumerates(<<r>> \o f, S \cup {r})
<1> DEFINE T == S \cup {r}
           g == <<r>> \o f
<1>1. f \in Seq(S) /\ Len(f) \in Nat /\ \A k \in 1..Len(f) : f[k] \in S
  BY LenProperties, ElementOfSeq DEF Enumerates
<1>2. f \in Seq(T)
  BY <1>1, SeqMonotonic
<1>3. <<r>> \in Seq(T) /\ Len(<<r>>) = 1 /\ <<r>>[1] = r
  OBVIOUS
<1> HIDE DEF T
<1>4. /\ g \in Seq(T) /\ Len(g) = 1 + Len(f)
      /\ \A k \in 1..(1 + Len(f)) : g[k] = IF k <= 1 THEN <<r>>[k] ELSE f[k - 1]
  BY <1>2, <1>3, ConcatProperties
<1> HIDE DEF g
<1>5. g[1] = r /\ 1 \in 1..Len(g)
  BY <1>1, <1>3, <1>4
<1>6. \A k \in 1..Len(f) : k + 1 \in 1..Len(g) /\ g[k + 1] = f[k]
  BY <1>1, <1>4
<1>7. ASSUME NEW s \in T PROVE \E k \in 1..Len(g) : g[k] = s
  <2>1. CASE s = r
    BY <1>5, <2>1
  <2>2. CASE s \in S
    <3>1. PICK k \in 1..Len(f) : f[k] = s
      BY <2>2 DEF Enumerates
    <3> QED BY <1>6, <3>1
  <2> QED BY <2>1, <2>2 DEF T
<1>8. ASSUME NEW j \in 1..Len(g), NEW k \in 1..Len(g), j < k PROVE g[j][1] < g[k][1]
  <2>1. k - 1 \in 1..Len(f) /\ g[k] = f[k - 1]
    BY <1>1, <1>4, <1>8
  <2>2. CASE j = 1
    BY <1>1, <1>5, <2>1, <2>2
  <2>3. CASE j # 1
    <3>1. j - 1 \in 1..Len(f) /\ g[j] = f[j - 1] /\ j - 1 < k - 1
      BY <1>1, <1>4, <1>8, <2>3
    <3> QED BY <2>1, <3>1 DEF Enumerates
  <2> QED BY <2>2, <2>3
<1> QED BY <1>4, <1>7, <1>8 DEF Enumerates, T, g

\* The loop finds the maximal runs, each once.
LEMMA RunsFoundAll ==
    ASSUME NEW n \in Nat, NEW w \in {1, 2}, NEW text \in SUBSET (0..(n - w))
    PROVE  Enumerates(RunsFound(n, w, text), Runs(n, w, text))
<1>1. PICK stop, from : /\ StopsOf(stop, n, w, text) /\ FoundOf(from, stop, n, w)
                        /\ RunsFound(n, w, text) = from[0]
  BY RunsFoundIs
<1> DEFINE Good(q) == Border(q, n, w, text) => Enumerates(from[q], LaterRuns(q, n, w, text))
           Bad == {m \in 0..n : ~Good(n - m)}
<1>2. LaterRuns(0, n, w, text) = Runs(n, w, text) /\ \A q \in Int : LaterRuns(q, n, w, text) \in SUBSET Pairs
  <2>1. \A r \in Runs(n, w, text) : r \in Pairs /\ r[1] >= 0
    BY RunFacts DEF Pairs
  <2> QED BY <2>1 DEF LaterRuns
<1>3. ASSUME NEW q \in 0..n, \A k \in (q + 1)..n : Good(k), Border(q, n, w, text)
      PROVE  Enumerates(from[q], LaterRuns(q, n, w, text))
  <2> DEFINE e == stop[q]
             g == GoOn(e, n, w)
  <2>1. CASE q + w > n
    <3>1. from[q] = <<>>
      BY <1>1, <2>1 DEF FoundOf
    <3>2. LaterRuns(q, n, w, text) = {}
      <4>1. \A r \in Runs(n, w, text) : ~(r[1] >= q)
        BY <2>1, RunFacts
      <4> QED BY <4>1 DEF LaterRuns
    <3>3. <<>> \in Seq({}) /\ Len(<<>>) = 0
      OBVIOUS
    <3> QED BY <3>1, <3>2, <3>3 DEF Enumerates
  <2>2. CASE ~(q + w > n)
    <3>0. \A p \in 0..n : EndsAt(p, stop[p], n, w, text)
      BY <1>1, StopFacts
    <3>1. EndsAt(q, e, n, w, text) /\ q + w <= n
      BY <2>2, <3>0
    <3>2. from[q] = FirstOf(q, e, w) \o from[g]
      BY <1>1, <2>2 DEF FoundOf, FirstOf, GoOn
    <3> HIDE DEF e, g
    <3>3. /\ g \in (q + 1)..n /\ Border(g, n, w, text)
          /\ \A r : r \in LaterRuns(q, n, w, text) <=>
                       \/ r \in LaterRuns(g, n, w, text)
                       \/ LongEnough((e - q) \div w) /\ r = <<q, e>>
      BY <1>3, <3>1, RunsFrom DEF g
    <3>4. Enumerates(from[g], LaterRuns(g, n, w, text))
      BY <1>3, <3>3
    <3>5. CASE LongEnough((e - q) \div w)
      <4> DEFINE r == <<q, e>>
                 S == LaterRuns(g, n, w, text)
      <4>1. r \in Pairs /\ r[1] = q
        BY <3>1 DEF Pairs, EndsAt
      <4>2. S \in SUBSET Pairs /\ \A s \in S : q < s[1]
        <5>1. \A s \in S : s \in Runs(n, w, text) /\ s[1] >= g
          BY DEF LaterRuns
        <5>2. \A s \in S : s[1] \in Int
          BY <5>1, RunFacts
        <5> QED BY <1>2, <3>3, <5>1, <5>2
      <4>3. LaterRuns(q, n, w, text) = S \cup {r}
        BY <3>3, <3>5
      <4>4. from[q] = <<r>> \o from[g]
        BY <3>2, <3>5 DEF FirstOf
      <4> HIDE DEF r, S
      <4>5. Enumerates(<<r>> \o from[g], S \cup {r})
        BY <3>4, <4>1, <4>2, EnumerateOneMore DEF S
      <4> QED BY <4>3, <4>4, <4>5
    <3>6. CASE ~LongEnough((e - q) \div w)
      <4>1. LaterRuns(q, n, w, text) = LaterRuns(g, n, w, text)
        BY <3>3, <3>6
      <4>2. from[g] \in Seq(LaterRuns(g, n, w, text))
        BY <3>4 DEF Enumerates
      <4>3. <<>> \o from[g] = from[g]
        BY <4>2, ConcatEmptySeq
      <4>4. from[q] = from[g]
        BY <3>2, <3>6, <4>3 DEF FirstOf
      <4> QED BY <3>4, <4>1, <4>4
    <3> QED BY <3>5, <3>6
  <2> QED BY <2>1, <2>2
<1> HIDE DEF Good
<1>4. Bad \in SUBSET Nat /\ \A m : m \in Bad <=> m \in 0..n /\ ~Good(n - m)
  OBVIOUS
<1> HIDE DEF Bad
<1>5. Bad = {}
  <2> SUFFICES ASSUME Bad # {} PROVE FALSE
    OBVIOUS
  <2>1. PICK m \in Bad : \A y \in Bad : m <= y
    BY <1>4, LeastNatural
  <2>2. m \in 0..n /\ n - m \in 0..n /\ ~Good(n - m)
    BY <1>4, <2>1
  <2>3. ASSUME NEW k \in (n - m + 1)..n PROVE Good(k)
    <3>1. n - k \in 0..n /\ n - k < m /\ n - (n - k) = k
      BY <2>2
    <3>2. n - k \notin Bad
      BY <2>1, <2>2, <3>1
    <3> QED BY <1>4, <3>1, <3>2
  <2> QED BY <1>3, <2>2, <2>3 DEF Good
<1>6. Good(0)
  <2>1. n \in 0..n /\ n - n = 0
    OBVIOUS
  <2> QED BY <1>4, <1>5, <2>1
<1>7. Border(0, n, w, text)
  <2>1. 0 - w \notin text /\ 0 % w = 0
    OBVIOUS
  <2> QED BY <2>1 DEF Border
<1> QED BY <1>1, <1>2, <1>6, <1>7 DEF Good

-----------------------------------------------------------------------------
\* The units that are no surrogates, and what their encoding begins with.
Plain == {cp \in Nat : cp < 65536 /\ (cp < 55296 \/ 57343 < cp)}

LEMMA EncodedBytes ==
    ASSUME NEW cp \in Plain
    PROVE  LET b == Encoded(cp)
           IN  /\ b \in Seq(0..255)
               /\ \/ Len(b) = 1 /\ b[1] < 128 /\ b[1] = cp
                  \/ Len(b) = 2 /\ ~(b[1] < 128) /\ b[1] < 224 /\ (b[1] % 32) * 64 + (b[2] % 64) = cp
                  \/ Len(b) = 3 /\ ~(b[1] < 128) /\ ~(b[1] < 224)
                     /\ (b[1] % 16) * 4096 + (b[2] % 64) * 64 + (b[3] % 64) = cp
<1> DEFINE b == Encoded(cp)
           h == cp \div 64
<1>0. cp \in Nat /\ cp < 65536
  BY SMT DEF Plain
<1>1. CASE cp < 128
  <2>1. b = <<cp>>
    BY <1>1 DEF Encoded
  <2>2. cp \in 0..255
    BY <1>0, <1>1
  <2> HIDE DEF b, h
  <2>3. b \in Seq(0..255) /\ Len(b) = 1 /\ b[1] = cp
    BY <2>1, <2>2
  <2> QED BY <1>1, <2>3 DEF b
<1>2. CASE ~(cp < 128) /\ cp < 2048
  <2>1. b = <<192 + h, 128 + (cp % 64)>>
    BY <1>2 DEF Encoded
  <2>2. h \in 0..31 /\ (192 + h) % 32 = h /\ (128 + (cp % 64)) % 64 = cp % 64 /\ h * 64 + (cp % 64) = cp
        /\ cp % 64 \in 0..63
    BY <1>0, <1>2
  <2> HIDE DEF h
  <2>3. 192 + h \in 128..223 /\ 128 + (cp % 64) \in 0..255 /\ 192 + h \in 0..255
    BY <2>2
  <2>4. b \in Seq(0..255) /\ Len(b) = 2 /\ b[1] = 192 + h /\ b[2] = 128 + (cp % 64)
    BY <2>1, <2>3
  <2> HIDE DEF b
  <2>5. (b[1] % 32) * 64 + (b[2] % 64) = cp
    BY <2>2, <2>4
  <2>6. ~(192 + h < 128) /\ 192 + h < 224
    BY <2>2
  <2>7. ~(b[1] < 128) /\ b[1] < 224
    <3>1. b[1] = 192 + h
      BY <2>4
    <3>2. \A x : x = 192 + h => ~(x < 128) /\ x < 224
      BY <2>6
    <3> QED BY <3>1, <3>2
  <2> QED BY <2>4, <2>5, <2>7, SMT DEF b
<1>3. CASE ~(cp < 2048)
  <2> DEFINE i == cp \div 4096
  <2>1. b = <<224 + i, 128 + (h % 64), 128 + (cp % 64)>>
    <3>1. ~(cp < 128) /\ cp < 65536
      BY <1>0, <1>3
    <3>2. Encoded(cp) = <<224 + (cp \div 4096), 128 + ((cp \div 64) % 64), 128 + (cp % 64)>>
      BY <1>3, <3>1 DEF Encoded
    <3> QED BY <3>2
  <2>2. h * 64 + (cp % 64) = cp /\ cp % 64 \in 0..63 /\ h \in 0..1023
    BY <1>0
  <2>3. i = h \div 64
    BY <1>0
  <2>4. i * 64 + (h % 64) = h /\ h % 64 \in 0..63 /\ i \in 0..15
    BY <2>2, <2>3
  <2> HIDE DEF h, i
  <2>5. /\ 224 + i \in 224..255 /\ 224 + i \in 0..255 /\ 128 + (h % 64) \in 0..255
        /\ 128 + (cp % 64) \in 0..255
    BY <2>2, <2>4
  <2>6. b \in Seq(0..255) /\ Len(b) = 3 /\ b[1] = 224 + i /\ b[2] = 128 + (h % 64)
        /\ b[3] = 128 + (cp % 64)
    BY <2>1, <2>5
  <2> HIDE DEF b
  <2>7. b[1] % 16 = i /\ b[2] % 64 = h % 64 /\ b[3] % 64 = cp % 64
    <3>1. \A x \in 0..15 : (224 + x) % 16 = x
      OBVIOUS
    <3>2. \A x \in 0..63 : (128 + x) % 64 = x
      OBVIOUS
    <3>3. (224 + i) % 16 = i
      BY <2>4, <3>1
    <3>4. (128 + (h % 64)) % 64 = h % 64
      BY <2>4, <3>2
    <3>5. (128 + (cp % 64)) % 64 = cp % 64
      BY <2>2, <3>2
    <3> QED BY <2>6, <3>3, <3>4, <3>5
  <2>8. i * 4096 + (h % 64) * 64 + (cp % 64) = cp
    BY <2>2, <2>4
  <2>9. ~(224 + i < 128) /\ ~(224 + i < 224)
    BY <2>4
  <2>10. ~(b[1] < 128) /\ ~(b[1] < 224)
    <3>1. b[1] = 224 + i
      BY <2>6
    <3>2. \A x : x = 224 + i => ~(x < 128) /\ ~(x < 224)
      BY <2>9
    <3> QED BY <3>1, <3>2
  <2>11. (b[1] % 16) * 4096 + (b[2] % 64) * 64 + (b[3] % 64) = cp
    BY <2>7, <2>8, SMT
  <2> QED BY <2>6, <2>10, <2>11, SMT DEF b
<1> QED BY <1>1, <1>2, <1>3

\* The recursion of Utf8.
IsPair(units, i) == i < Len(units) /\ units[i] \in 55296..56319 /\ units[i + 1] \in 56320..57343
Utf8Of(u, units) ==
    u = [i \in 1..(Len(units) + 1) |->
            IF i > Len(units) THEN <<>>
            ELSE IF IsPair(units, i)
            THEN Encoded(65536 + (units[i] - 55296) * 1024 + (units[i + 1] - 56320)) \o u[i + 2]
            ELSE Encoded(units[i]) \o u[i + 1]]

\* Units that are no surrogates are encoded one by one.
OneByOne(u, units) ==
    u = [i \in 1..(Len(units) + 1) |->
            IF i > Len(units) THEN <<>> ELSE Encoded(units[i]) \o u[i + 1]]

LEMMA PlainValues ==
    ASSUME NEW x \in Plain
    PROVE  x \in Nat /\ x < 65536 /\ ~(x \in 55296..56319)
<1>1. x \in Nat /\ x < 65536 /\ (x < 55296 \/ 57343 < x)
  BY SMT DEF Plain
<1> QED BY <1>1, SMT

LEMMA NoPairs ==
    ASSUME NEW units \in Seq(Plain)
    PROVE  \A u : Utf8Of(u, units) <=> OneByOne(u, units)
<1> DEFINE n == Len(units)
<1>1. n \in Nat /\ \A i \in 1..n : units[i] \in Plain
  BY LenProperties, ElementOfSeq
<1>3. ASSUME NEW i \in 1..(n + 1), ~(i > n) PROVE ~IsPair(units, i)
  <2>1. i \in 1..n
    BY <1>1, <1>3
  <2> HIDE DEF n
  <2>2. ~(units[i] \in 55296..56319)
    BY <1>1, <2>1, PlainValues
  <2> HIDE <1>1, <1>3, <2>1
  <2> QED BY <2>2, SMT DEF IsPair
<1> SUFFICES ASSUME NEW u PROVE Utf8Of(u, units) <=> OneByOne(u, units)
  OBVIOUS
<1> DEFINE F(i) == IF i > n THEN <<>>
            ELSE IF IsPair(units, i)
            THEN Encoded(65536 + (units[i] - 55296) * 1024 + (units[i + 1] - 56320)) \o u[i + 2]
            ELSE Encoded(units[i]) \o u[i + 1]
           G(i) == IF i > n THEN <<>> ELSE Encoded(units[i]) \o u[i + 1]
<1>4. \A i \in 1..(n + 1) : F(i) = G(i)
  BY <1>3
<1>5. (Utf8Of(u, units) <=> u = [i \in 1..(n + 1) |-> F(i)])
      /\ (OneByOne(u, units) <=> u = [i \in 1..(n + 1) |-> G(i)])
  BY DEF Utf8Of, OneByOne
<1> HIDE DEF F, G, n
<1> QED BY <1>4, <1>5

LEMMA OneByOneExists ==
    ASSUME NEW units \in Seq(Plain)
    PROVE  \E u \in [1..(Len(units) + 1) -> Seq(0..255)] : OneByOne(u, units)
<1> DEFINE n == Len(units)
           m == n + 1
           V == Seq(0..255)
           done == {m}
           base == [i \in 1..m |-> <<>>]
           nxt == [i \in 1..m |-> i + 1]
           step == [p \in (1..m) \X V |-> IF p[1] \in 1..n THEN Encoded(units[p[1]]) \o p[2] ELSE <<>>]
<1>1. n \in Nat /\ m \in Nat /\ 1 \in Nat /\ \A i \in 1..n : units[i] \in Plain
  BY LenProperties, ElementOfSeq
<1>2. base \in [1..m -> V]
  BY EmptySeq
<1>3. ASSUME NEW p \in (1..m) \X V
      PROVE  (IF p[1] \in 1..n THEN Encoded(units[p[1]]) \o p[2] ELSE <<>>) \in V
  <2>1. CASE p[1] \in 1..n
    <3>1. Encoded(units[p[1]]) \in V /\ p[2] \in V
      BY <1>1, <2>1, EncodedBytes
    <3> HIDE DEF n
    <3> QED BY <2>1, <3>1, ConcatProperties
  <2>2. CASE p[1] \notin 1..n
    BY <2>2, EmptySeq
  <2> QED BY <2>1, <2>2
<1>4. step \in [(1..m) \X V -> V]
  BY <1>3
<1>5. \A i \in 1..m : i \notin done => nxt[i] \in (i + 1)..m
  BY <1>1
<1>6. \A i \in 1..m : base[i] = <<>> /\ nxt[i] = i + 1 /\ (i \in done <=> i = m)
  OBVIOUS
<1>7. \A i \in 1..m, v \in V : i \in 1..n => step[<<i, v>>] = Encoded(units[i]) \o v
  OBVIOUS
<1>8. /\ \A i \in 1..m : i = m \/ (i \in 1..n /\ i + 1 \in 1..m)
      /\ \A i \in 1..m : i > n <=> i = m
  BY <1>1
<1> HIDE DEF done, base, nxt, step, V, m, n
<1>9. PICK f : SolvesFrom(f, 1, m, V, done, base, nxt, step)
  BY <1>1, <1>2, <1>4, <1>5, RecursionUp
<1>10. f \in [1..m -> V] /\ \A i \in 1..m : f[i] = IF i \in done THEN base[i] ELSE step[<<i, f[nxt[i]]>>]
  BY <1>9 DEF SolvesFrom
<1>11. ASSUME NEW i \in 1..m
       PROVE  f[i] = IF i > n THEN <<>> ELSE Encoded(units[i]) \o f[i + 1]
  <2>1. CASE i = m
    BY <1>6, <1>8, <1>10, <2>1
  <2>2. CASE i # m
    <3>1. i \in 1..n /\ i + 1 \in 1..m /\ ~(i > n)
      BY <1>8, <2>2
    <3>2. f[i + 1] \in V
      BY <1>10, <3>1
    <3>3. f[i] = step[<<i, f[i + 1]>>]
      BY <1>6, <1>10, <2>2
    <3>4. f[i] = Encoded(units[i]) \o f[i + 1]
      BY <1>7, <3>1, <3>2, <3>3
    <3> QED BY <3>1, <3>4
  <2> QED BY <2>1, <2>2
<1>12. f = [i \in 1..m |-> IF i > n THEN <<>> ELSE Encoded(units[i]) \o f[i + 1]]
  BY <1>10, <1>11
<1>13. OneByOne(f, units)
  BY <1>12 DEF OneByOne, m, n
<1> QED BY <1>10, <1>13 DEF V, m, n

\* Two solutions of the recursion are the same.
LEMMA OneByOneSame ==
    ASSUME NEW units \in Seq(Plain), NEW f, NEW g, OneByOne(f, units), OneByOne(g, units)
    PROVE  f = g
<1> DEFINE n == Len(units)
           m == n + 1
           Bad == {k \in 0..n : f[m - k] # g[m - k]}
<1>1. n \in Nat
  BY LenProperties
<1>2. \A h : OneByOne(h, units) =>
          /\ h = [i \in 1..m |-> h[i]] /\ h[m] = <<>>
          /\ \A i \in 1..n : h[i] = Encoded(units[i]) \o h[i + 1]
  <2> SUFFICES ASSUME NEW h, OneByOne(h, units)
               PROVE  /\ h = [i \in 1..m |-> h[i]] /\ h[m] = <<>>
                      /\ \A i \in 1..n : h[i] = Encoded(units[i]) \o h[i + 1]
    OBVIOUS
  <2>1. m \in 1..m /\ m > n /\ \A i \in 1..n : i \in 1..m /\ ~(i > n)
    BY <1>1
  <2>2. h = [i \in 1..m |-> IF i > n THEN <<>> ELSE Encoded(units[i]) \o h[i + 1]]
    BY DEF OneByOne
  <2> HIDE DEF m, n
  <2>3. h = [i \in 1..m |-> h[i]]
    BY <2>2
  <2>4. \A i \in 1..m : h[i] = IF i > n THEN <<>> ELSE Encoded(units[i]) \o h[i + 1]
    BY <2>2
  <2> QED BY <2>1, <2>3, <2>4
<1>3. /\ f = [i \in 1..m |-> f[i]] /\ f[m] = <<>>
      /\ \A i \in 1..n : f[i] = Encoded(units[i]) \o f[i + 1]
  BY <1>2
<1>4. /\ g = [i \in 1..m |-> g[i]] /\ g[m] = <<>>
      /\ \A i \in 1..n : g[i] = Encoded(units[i]) \o g[i + 1]
  BY <1>2
<1>5. Bad \in SUBSET Nat /\ \A k : k \in Bad <=> k \in 0..n /\ f[m - k] # g[m - k]
  OBVIOUS
<1> HIDE DEF Bad
<1>6. Bad = {}
  <2> SUFFICES ASSUME Bad # {} PROVE FALSE
    OBVIOUS
  <2>1. PICK k \in Bad : \A y \in Bad : k <= y
    BY <1>5, LeastNatural
  <2>2. k \in 0..n /\ f[m - k] # g[m - k]
    BY <1>5, <2>1
  <2>3. k # 0
    <3>1. m - 0 = m
      BY <1>1
    <3> QED BY <1>3, <1>4, <2>2, <3>1
  <2>4. m - k \in 1..n /\ (m - k) + 1 = m - (k - 1) /\ k - 1 \in 0..n /\ ~(k <= k - 1)
    BY <1>1, <2>2, <2>3
  <2>5. f[m - (k - 1)] = g[m - (k - 1)]
    BY <1>5, <2>1, <2>4
  <2> HIDE DEF m, n
  <2>6. f[m - k] = Encoded(units[m - k]) \o f[m - (k - 1)] /\ g[m - k] = Encoded(units[m - k]) \o g[m - (k - 1)]
    BY <1>3, <1>4, <2>4
  <2> QED BY <2>2, <2>5, <2>6
<1>7. \A i \in 1..m : f[i] = g[i]
  <2> SUFFICES ASSUME NEW i \in 1..m PROVE f[i] = g[i]
    OBVIOUS
  <2>1. m - i \in 0..n /\ m - (m - i) = i
    BY <1>1
  <2> QED BY <1>5, <1>6, <2>1
<1> HIDE DEF m
<1> QED BY <1>3, <1>4, <1>7

LEMMA Utf8Is ==
    ASSUME NEW units \in Seq(Plain)
    PROVE  \E u \in [1..(Len(units) + 1) -> Seq(0..255)] :
               OneByOne(u, units) /\ Utf8(units) = u[1]
<1> DEFINE u == CHOOSE v : Utf8Of(v, units)
<1>1. PICK f \in [1..(Len(units) + 1) -> Seq(0..255)] : OneByOne(f, units)
  BY OneByOneExists
<1>2. Utf8Of(f, units)
  BY <1>1, NoPairs
<1>3. Utf8Of(u, units)
  BY <1>2
<1>4. Utf8(units) = u[1]
  BY SMT DEF Utf8, Utf8Of, IsPair
<1> HIDE DEF u
<1>5. OneByOne(u, units)
  BY <1>3, NoPairs
<1>6. u = f
  BY <1>1, <1>5, OneByOneSame
<1> QED BY <1>1, <1>4, <1>6

-----------------------------------------------------------------------------
\* The recursion of Characters: the character a lead byte at k announces, and
\* where the next one begins.
LowAt(text, k) == IF k <= Len(text) THEN text[k] % 64 ELSE 0
CodeAt(text, k) ==
    IF text[k] < 128 THEN text[k]
    ELSE IF text[k] < 224 THEN (text[k] % 32) * 64 + LowAt(text, k + 1)
    ELSE (text[k] % 16) * 4096 + LowAt(text, k + 1) * 64 + LowAt(text, k + 2)
NextLead(text, k) == k + (IF text[k] < 128 THEN 1 ELSE IF text[k] < 224 THEN 2 ELSE 3)
CharsOf(c, text) ==
    c = [k \in 1..(Len(text) + 3) |->
            IF k > Len(text) THEN <<>> ELSE <<CodeAt(text, k)>> \o c[NextLead(text, k)]]

LEMMA CharsExists ==
    ASSUME NEW text \in Seq(0..255)
    PROVE  \E c : CharsOf(c, text)
<1> DEFINE n == Len(text)
           m == n + 3
           V == Seq(Nat)
           done == {k \in 1..m : k > n}
           base == [k \in 1..m |-> <<>>]
           nxt == [k \in 1..m |-> NextLead(text, k)]
           step == [p \in (1..m) \X V |-> IF p[1] \in 1..n THEN <<CodeAt(text, p[1])>> \o p[2] ELSE <<>>]
<1>1. n \in Nat /\ m \in Nat /\ 1 \in Nat /\ \A k \in 1..n : text[k] \in 0..255
  BY LenProperties, ElementOfSeq
<1>2. base \in [1..m -> V]
  BY EmptySeq
<1>0. \A x \in 0..255 : x % 64 \in Nat /\ x % 32 \in Nat /\ x % 16 \in Nat /\ x \in Nat
  OBVIOUS
<1>3. ASSUME NEW k \in 1..n PROVE CodeAt(text, k) \in Nat /\ NextLead(text, k) \in (k + 1)..m
  <2>1. text[k] \in 0..255
    BY <1>1
  <2>2. ASSUME NEW j \in Nat \ {0} PROVE LowAt(text, j) \in Nat
    <3>1. j <= Len(text) => text[j] \in 0..255
      BY <1>1
    <3> QED BY <1>0, <3>1 DEF LowAt
  <2>3. LowAt(text, k + 1) \in Nat /\ LowAt(text, k + 2) \in Nat
    <3>1. k + 1 \in Nat \ {0} /\ k + 2 \in Nat \ {0}
      OBVIOUS
    <3> QED BY <2>2, <3>1
  <2>4. text[k] % 32 \in Nat /\ text[k] % 16 \in Nat /\ text[k] \in Nat
    BY <1>0, <2>1
  <2>5. CodeAt(text, k) \in Nat
    <3> DEFINE x == text[k] % 32
               y == text[k] % 16
               a == LowAt(text, k + 1)
               b == LowAt(text, k + 2)
    <3>1. x \in Nat /\ y \in Nat /\ a \in Nat /\ b \in Nat
      BY <2>3, <2>4
    <3>2. \/ CodeAt(text, k) = text[k]
          \/ CodeAt(text, k) = x * 64 + a
          \/ CodeAt(text, k) = y * 4096 + a * 64 + b
      BY DEF CodeAt
    <3> HIDE DEF x, y, a, b
    <3>3. x * 64 + a \in Nat /\ y * 4096 + a * 64 + b \in Nat
      BY <3>1
    <3> QED BY <2>4, <3>2, <3>3
  <2>6. NextLead(text, k) \in {k + 1, k + 2, k + 3}
    BY DEF NextLead
  <2> QED BY <1>1, <2>5, <2>6
<1>4. ASSUME NEW p \in (1..m) \X V
      PROVE  (IF p[1] \in 1..n THEN <<CodeAt(text, p[1])>> \o p[2] ELSE <<>>) \in V
  <2>1. CASE p[1] \in 1..n
    <3>1. <<CodeAt(text, p[1])>> \in V /\ p[2] \in V
      BY <1>3, <2>1
    <3> HIDE DEF n
    <3> QED BY <2>1, <3>1, ConcatProperties
  <2>2. CASE p[1] \notin 1..n
    BY <2>2, EmptySeq
  <2> QED BY <2>1, <2>2
<1>5. step \in [(1..m) \X V -> V]
  BY <1>4
<1>6. \A k \in 1..m : k \notin done => nxt[k] \in (k + 1)..m
  BY <1>1, <1>3
<1>7. \A k \in 1..m : base[k] = <<>> /\ nxt[k] = NextLead(text, k) /\ (k \in done <=> k > n)
  OBVIOUS
<1>8. \A k \in 1..m, v \in V : k \in 1..n => step[<<k, v>>] = <<CodeAt(text, k)>> \o v
  OBVIOUS
<1>9. \A k \in 1..m : k > n \/ k \in 1..n
  BY <1>1
<1>10. \A k \in 1..n : (k + 1)..m \subseteq 1..m
  BY <1>1
<1> HIDE DEF done, base, nxt, step, V, m, n
<1>11. PICK f : SolvesFrom(f, 1, m, V, done, base, nxt, step)
  BY <1>1, <1>2, <1>5, <1>6, RecursionUp
<1>12. f \in [1..m -> V] /\ \A k \in 1..m : f[k] = IF k \in done THEN base[k] ELSE step[<<k, f[nxt[k]]>>]
  BY <1>11 DEF SolvesFrom
<1>13. ASSUME NEW k \in 1..m
       PROVE  f[k] = IF k > n THEN <<>> ELSE <<CodeAt(text, k)>> \o f[NextLead(text, k)]
  <2>1. CASE k > n
    BY <1>7, <1>12, <2>1
  <2>2. CASE ~(k > n)
    <3>1. k \in 1..n /\ NextLead(text, k) \in 1..m /\ k \notin done
      BY <1>3, <1>7, <1>9, <1>10, <2>2
    <3>2. f[NextLead(text, k)] \in V
      BY <1>12, <3>1
    <3>3. f[k] = step[<<k, f[NextLead(text, k)]>>]
      BY <1>7, <1>12, <3>1
    <3>4. f[k] = <<CodeAt(text, k)>> \o f[NextLead(text, k)]
      BY <1>8, <3>1, <3>2, <3>3
    <3> QED BY <2>2, <3>4
  <2> QED BY <2>1, <2>2
<1>14. f = [k \in 1..m |-> IF k > n THEN <<>> ELSE <<CodeAt(text, k)>> \o f[NextLead(text, k)]]
  BY <1>12, <1>13
<1> QED BY <1>14 DEF CharsOf, m, n

LEMMA CharactersIs ==
    ASSUME NEW text \in Seq(0..255)
    PROVE  \E c : CharsOf(c, text) /\ Characters(text) = c[1]
<1> DEFINE n == Len(text)
           Low(k) == IF k <= n THEN text[k] % 64 ELSE 0
           G(f, k) == IF k > n THEN <<>>
                      ELSE IF text[k] < 128 THEN <<text[k]>> \o f[k + 1]
                      ELSE IF text[k] < 224 THEN <<(text[k] % 32) * 64 + Low(k + 1)>> \o f[k + 2]
                      ELSE <<(text[k] % 16) * 4096 + Low(k + 1) * 64 + Low(k + 2)>> \o f[k + 3]
           H(f, k) == IF k > n THEN <<>> ELSE <<CodeAt(text, k)>> \o f[NextLead(text, k)]
           c == CHOOSE f : f = [k \in 1..(n + 3) |-> G(f, k)]
<1>1. Characters(text) = c[1]
  BY DEF Characters
<1>2. ASSUME NEW f PROVE (f = [k \in 1..(n + 3) |-> G(f, k)]) <=> CharsOf(f, text)
  <2>1. \A k \in 1..(n + 3) : G(f, k) = H(f, k)
    <3> SUFFICES ASSUME NEW k \in 1..(n + 3) PROVE G(f, k) = H(f, k)
      OBVIOUS
    <3> DEFINE t == text[k]
    <3>1. /\ CodeAt(text, k) = IF t < 128 THEN t ELSE IF t < 224 THEN (t % 32) * 64 + Low(k + 1)
                               ELSE (t % 16) * 4096 + Low(k + 1) * 64 + Low(k + 2)
          /\ NextLead(text, k) = k + (IF t < 128 THEN 1 ELSE IF t < 224 THEN 2 ELSE 3)
      BY Zenon DEF CodeAt, NextLead, LowAt
    <3>2. CASE t < 128
      BY <3>1, <3>2
    <3>3. CASE ~(t < 128) /\ t < 224
      BY <3>1, <3>3
    <3>4. CASE ~(t < 128) /\ ~(t < 224)
      BY <3>1, <3>4
    <3> QED BY <3>2, <3>3, <3>4
  <2>2. CharsOf(f, text) <=> f = [k \in 1..(n + 3) |-> H(f, k)]
    BY DEF CharsOf
  <2> HIDE DEF G, H
  <2> QED BY <2>1, <2>2
<1>3. PICK f : CharsOf(f, text)
  BY CharsExists
<1> HIDE DEF G
<1>4. c = [k \in 1..(n + 3) |-> G(c, k)]
  BY <1>2, <1>3
<1> HIDE DEF c
<1> QED BY <1>1, <1>2, <1>4

-----------------------------------------------------------------------------
\* The units from i on, and that text holds s from p on.
Rest(units, i) == [k \in 1..(Len(units) + 1 - i) |-> units[k + i - 1]]
Holds(text, p, s) == Len(text) = p - 1 + Len(s) /\ \A k \in 1..Len(s) : text[k + p - 1] = s[k]

LEMMA RestNext ==
    ASSUME NEW units \in Seq(Plain), NEW i \in 1..Len(units)
    PROVE  Rest(units, i) = <<units[i]>> \o Rest(units, i + 1)
<1> DEFINE n == Len(units)
           r == Rest(units, i + 1)
           a == <<units[i]>>
<1>1. n \in Nat /\ \A k \in 1..n : units[k] \in Plain
  BY LenProperties, ElementOfSeq
<1>2. /\ Len(units) + 1 - (i + 1) \in Nat /\ Len(units) + 1 - i = 1 + (Len(units) + 1 - (i + 1))
      /\ \A k \in 1..(n - i) : k + (i + 1) - 1 \in 1..n /\ k + (i + 1) - 1 = k + i
  BY <1>1
<1>3. r \in Seq(Plain) /\ Len(r) = n - i /\ \A k \in 1..(n - i) : r[k] = units[k + i]
  <2>1. r = [k \in 1..(n - i) |-> units[k + i]]
    BY <1>1, <1>2 DEF Rest
  <2>2. \A k \in 1..(n - i) : units[k + i] \in Plain
    BY <1>1, <1>2
  <2>3. n - i \in Nat
    BY <1>1
  <2> HIDE DEF n, r
  <2> QED BY <2>1, <2>2, <2>3
<1>4. a \in Seq(Plain) /\ Len(a) = 1 /\ a[1] = units[i]
  BY <1>1
<1> HIDE DEF a, r, n
<1>5. /\ a \o r \in Seq(Plain) /\ Len(a \o r) = 1 + (n - i)
      /\ \A k \in 1..(1 + (n - i)) : (a \o r)[k] = IF k <= 1 THEN a[k] ELSE r[k - 1]
  <2>1. /\ a \o r \in Seq(Plain) /\ Len(a \o r) = Len(a) + Len(r)
        /\ \A k \in 1..(Len(a) + Len(r)) : (a \o r)[k] = IF k <= Len(a) THEN a[k] ELSE r[k - Len(a)]
    BY <1>3, <1>4, ConcatProperties
  <2> QED BY <1>3, <1>4, <2>1
<1> USE DEF n
<1>6. ASSUME NEW k \in 1..(1 + (n - i)) PROVE (a \o r)[k] = units[k + i - 1]
  <2>1. CASE k = 1
    BY <1>1, <1>4, <1>5, <2>1
  <2>2. CASE k # 1
    <3>1. k - 1 \in 1..(n - i) /\ (k - 1) + i = k + i - 1 /\ ~(k <= 1)
      BY <1>1, <2>2
    <3> QED BY <1>3, <1>5, <3>1
  <2> QED BY <2>1, <2>2
<1>7. a \o r = [k \in 1..(1 + (n - i)) |-> units[k + i - 1]]
  <2> HIDE DEF n
  <2>1. a \o r = [k \in 1..Len(a \o r) |-> (a \o r)[k]]
    BY <1>5, LenProperties
  <2> QED BY <1>5, <1>6, <2>1
<1>8. Rest(units, i) = [k \in 1..(1 + (n - i)) |-> units[k + i - 1]]
  <2>1. Len(units) + 1 - i = 1 + (n - i)
    BY <1>1
  <2> QED BY <2>1 DEF Rest
<1> QED BY <1>7, <1>8 DEF a, r

LEMMA RestEnds ==
    ASSUME NEW units \in Seq(Plain)
    PROVE  Rest(units, 1) = units /\ Rest(units, Len(units) + 1) = <<>>
<1>1. Len(units) \in Nat /\ units = [k \in 1..Len(units) |-> units[k]]
  BY LenProperties
<1>2. Len(units) + 1 - 1 = Len(units) /\ \A k \in 1..Len(units) : k + 1 - 1 = k
  BY <1>1
<1>3. Len(units) + 1 - (Len(units) + 1) = 0
  BY <1>1
<1>4. Rest(units, 1) = units
  BY <1>1, <1>2 DEF Rest
<1>5. Rest(units, Len(units) + 1) = <<>>
  BY <1>3 DEF Rest
<1> QED BY <1>4, <1>5

\* What a text holds from p on, in front of the rest of it.
LEMMA HoldsTwo ==
    ASSUME NEW text \in Seq(0..255), NEW p \in Nat \ {0}, NEW b \in Seq(0..255), NEW s \in Seq(0..255),
           Holds(text, p, b \o s)
    PROVE  /\ \A k \in 1..Len(b) : p + k - 1 \in 1..Len(text) /\ text[p + k - 1] = b[k]
           /\ Holds(text, p + Len(b), s)
<1>1. Len(b) \in Nat /\ Len(s) \in Nat
  BY LenProperties
<1>2. /\ Len(b \o s) = Len(b) + Len(s)
      /\ \A k \in 1..(Len(b) + Len(s)) : (b \o s)[k] = IF k <= Len(b) THEN b[k] ELSE s[k - Len(b)]
  BY ConcatProperties
<1>3. /\ Len(text) = p - 1 + (Len(b) + Len(s))
      /\ \A k \in 1..(Len(b) + Len(s)) : text[k + p - 1] = IF k <= Len(b) THEN b[k] ELSE s[k - Len(b)]
  BY <1>2 DEF Holds
<1>4. ASSUME NEW k \in 1..Len(b) PROVE p + k - 1 \in 1..Len(text) /\ text[p + k - 1] = b[k]
  <2>1. k \in 1..(Len(b) + Len(s)) /\ k <= Len(b) /\ p + k - 1 = k + p - 1
    BY <1>1
  <2>2. p + k - 1 \in 1..Len(text)
    BY <1>1, <1>3
  <2> QED BY <1>3, <2>1, <2>2
<1>5. ASSUME NEW k \in 1..Len(s) PROVE text[k + (p + Len(b)) - 1] = s[k]
  <2>1. k + Len(b) \in 1..(Len(b) + Len(s)) /\ ~(k + Len(b) <= Len(b)) /\ (k + Len(b)) - Len(b) = k
        /\ (k + Len(b)) + p - 1 = k + (p + Len(b)) - 1
    BY <1>1
  <2>2. text[(k + Len(b)) + p - 1] = s[(k + Len(b)) - Len(b)]
    BY <1>3, <2>1
  <2> QED BY <2>1, <2>2
<1>6. Len(text) = (p + Len(b)) - 1 + Len(s)
  BY <1>1, <1>3
<1> QED BY <1>4, <1>5, <1>6 DEF Holds

\* A text made of encoded units, one after the other, decodes to these units.
LEMMA Decodes ==
    ASSUME NEW units \in Seq(Plain), NEW u \in [1..(Len(units) + 1) -> Seq(0..255)],
           OneByOne(u, units)
    PROVE  Characters(u[1]) = units
<1> DEFINE n == Len(units)
           text == u[1]
<1>1. n \in Nat /\ (\A i \in 1..n : units[i] \in Plain) /\ \A i \in 1..(n + 1) : u[i] \in Seq(0..255)
  BY LenProperties, ElementOfSeq
<1>2. text \in Seq(0..255) /\ Len(text) \in Nat
  <2>1. 1 \in 1..(n + 1)
    BY <1>1
  <2>2. text \in Seq(0..255)
    BY <1>1, <2>1
  <2> QED BY <2>2, LenProperties
<1>3. u[n + 1] = <<>> /\ \A i \in 1..n : u[i] = Encoded(units[i]) \o u[i + 1]
  <2>1. n + 1 \in 1..(n + 1) /\ n + 1 > n /\ \A i \in 1..n : i \in 1..(n + 1) /\ ~(i > n)
    BY <1>1
  <2>2. u = [i \in 1..(n + 1) |-> IF i > n THEN <<>> ELSE Encoded(units[i]) \o u[i + 1]]
    BY DEF OneByOne
  <2> HIDE DEF n
  <2>3. \A i \in 1..(n + 1) : u[i] = IF i > n THEN <<>> ELSE Encoded(units[i]) \o u[i + 1]
    BY <2>2
  <2> QED BY <2>1, <2>3
<1> HIDE DEF text
<1>4. PICK c : CharsOf(c, text) /\ Characters(text) = c[1]
  BY <1>2, CharactersIs
<1>5. \A k \in 1..(Len(text) + 3) :
          c[k] = IF k > Len(text) THEN <<>> ELSE <<CodeAt(text, k)>> \o c[NextLead(text, k)]
  <2>1. c = [k \in 1..(Len(text) + 3) |->
                 IF k > Len(text) THEN <<>> ELSE <<CodeAt(text, k)>> \o c[NextLead(text, k)]]
    BY <1>4 DEF CharsOf
  <2> QED BY <2>1
<1> DEFINE Good(i) == \A p \in Nat \ {0} : Holds(text, p, u[i]) => c[p] = Rest(units, i)
           Bad == {m \in 0..n : ~Good(n + 1 - m)}
<1>6. Good(n + 1)
  <2> SUFFICES ASSUME NEW p \in Nat \ {0}, Holds(text, p, u[n + 1]) PROVE c[p] = Rest(units, n + 1)
    OBVIOUS
  <2>1. Len(text) = p - 1 + Len(<<>>)
    BY <1>3 DEF Holds
  <2>2. p \in 1..(Len(text) + 3) /\ p > Len(text)
    BY <1>2, <2>1
  <2> QED BY <1>5, <2>2, RestEnds
<1>7. ASSUME NEW i \in 1..n, Good(i + 1) PROVE Good(i)
  <2> SUFFICES ASSUME NEW p \in Nat \ {0}, Holds(text, p, u[i]) PROVE c[p] = Rest(units, i)
    OBVIOUS
  <2> DEFINE b == Encoded(units[i])
  <2>1. units[i] \in Plain /\ i + 1 \in 1..(n + 1)
    BY <1>1
  <2>2. b \in Seq(0..255) /\ u[i + 1] \in Seq(0..255) /\ u[i] = b \o u[i + 1]
    <3>1. b \in Seq(0..255)
      BY <2>1, EncodedBytes
    <3> QED BY <1>1, <1>3, <2>1, <3>1
  <2>3. \/ Len(b) = 1 /\ b[1] < 128 /\ b[1] = units[i]
        \/ Len(b) = 2 /\ ~(b[1] < 128) /\ b[1] < 224 /\ (b[1] % 32) * 64 + (b[2] % 64) = units[i]
        \/ Len(b) = 3 /\ ~(b[1] < 128) /\ ~(b[1] < 224)
           /\ (b[1] % 16) * 4096 + (b[2] % 64) * 64 + (b[3] % 64) = units[i]
    BY <2>1, EncodedBytes
  <2> HIDE DEF b, n
  <2>4. /\ \A k \in 1..Len(b) : p + k - 1 \in 1..Len(text) /\ text[p + k - 1] = b[k]
        /\ Holds(text, p + Len(b), u[i + 1])
    BY <1>2, <2>2, HoldsTwo
  <2>5. Len(b) \in Nat \ {0}
    BY <2>3
  <2>6. p \in 1..Len(text) /\ text[p] = b[1]
    <3>1. 1 \in 1..Len(b) /\ p + 1 - 1 = p
      BY <2>5
    <3> QED BY <2>4, <3>1
  <2>7. Len(b) >= 2 => p + 1 \in 1..Len(text) /\ text[p + 1] = b[2]
    <3>1. Len(b) >= 2 => 2 \in 1..Len(b) /\ p + 2 - 1 = p + 1
      BY <2>5
    <3> QED BY <2>4, <3>1
  <2>8. Len(b) >= 3 => p + 2 \in 1..Len(text) /\ text[p + 2] = b[3]
    <3>1. Len(b) >= 3 => 3 \in 1..Len(b) /\ p + 3 - 1 = p + 2
      BY <2>5
    <3> QED BY <2>4, <3>1
  <2>9. NextLead(text, p) = p + Len(b) /\ CodeAt(text, p) = units[i]
    <3>1. CASE Len(b) = 1 /\ b[1] < 128 /\ b[1] = units[i]
      BY <2>6, <3>1 DEF NextLead, CodeAt
    <3>2. CASE Len(b) = 2 /\ ~(b[1] < 128) /\ b[1] < 224 /\ (b[1] % 32) * 64 + (b[2] % 64) = units[i]
      <4>1. ~(text[p] < 128) /\ text[p] < 224
        BY <2>6, <3>2, SMT
      <4>2. LowAt(text, p + 1) = b[2] % 64
        <5>1. p + 1 <= Len(text) /\ text[p + 1] = b[2]
          BY <1>2, <2>7, <3>2
        <5> QED BY <5>1 DEF LowAt
      <4>3. CodeAt(text, p) = (b[1] % 32) * 64 + (b[2] % 64)
        BY <2>6, <4>1, <4>2 DEF CodeAt
      <4>4. NextLead(text, p) = p + 2
        BY <4>1 DEF NextLead
      <4> QED BY <3>2, <4>3, <4>4
    <3>3. CASE Len(b) = 3 /\ ~(b[1] < 128) /\ ~(b[1] < 224)
               /\ (b[1] % 16) * 4096 + (b[2] % 64) * 64 + (b[3] % 64) = units[i]
      <4>1. ~(text[p] < 128) /\ ~(text[p] < 224)
        BY <2>6, <3>3, SMT
      <4>2. LowAt(text, p + 1) = b[2] % 64 /\ LowAt(text, p + 2) = b[3] % 64
        <5>1. p + 1 <= Len(text) /\ text[p + 1] = b[2] /\ p + 2 <= Len(text) /\ text[p + 2] = b[3]
          BY <1>2, <2>7, <2>8, <3>3
        <5> QED BY <5>1 DEF LowAt
      <4>3. CodeAt(text, p) = (b[1] % 16) * 4096 + (b[2] % 64) * 64 + (b[3] % 64)
        BY <2>6, <4>1, <4>2 DEF CodeAt
      <4>4. NextLead(text, p) = p + 3
        BY <4>1 DEF NextLead
      <4> QED BY <3>3, <4>3, <4>4
    <3> QED BY <2>3, <3>1, <3>2, <3>3
  <2>10. p + Len(b) \in Nat \ {0}
    BY <2>5
  <2>11. c[p + Len(b)] = Rest(units, i + 1)
    BY <1>7, <2>4, <2>10
  <2>12. p \in 1..(Len(text) + 3) /\ ~(p > Len(text))
    BY <1>2, <2>6
  <2>13. c[p] = <<units[i]>> \o Rest(units, i + 1)
    BY <1>5, <2>9, <2>11, <2>12
  <2> QED BY <2>13, RestNext DEF n
<1> HIDE DEF Good, n
<1>8. Bad \in SUBSET Nat /\ \A m : m \in Bad <=> m \in 0..n /\ ~Good(n + 1 - m)
  BY SMT
<1> HIDE DEF Bad
<1> USE DEF n
<1>9. Bad = {}
  <2> SUFFICES ASSUME Bad # {} PROVE FALSE
    OBVIOUS
  <2>1. PICK m \in Bad : \A y \in Bad : m <= y
    BY <1>8, LeastNatural
  <2>2. m \in 0..n /\ ~Good(n + 1 - m)
    BY <1>8, <2>1
  <2>3. m # 0
    <3>1. n + 1 - 0 = n + 1
      BY <1>1
    <3> QED BY <1>6, <2>2, <3>1
  <2>4. n + 1 - m \in 1..n /\ (n + 1 - m) + 1 = n + 1 - (m - 1) /\ m - 1 \in 0..n /\ ~(m <= m - 1)
    BY <1>1, <2>2, <2>3
  <2>5. Good(n + 1 - (m - 1))
    BY <1>8, <2>1, <2>4
  <2> QED BY <1>7, <2>2, <2>4, <2>5
<1>10. Good(1)
  <2>1. n \in 0..n /\ n + 1 - n = 1
    BY <1>1
  <2> QED BY <1>8, <1>9, <2>1
<1>11. Holds(text, 1, u[1])
  <2>1. Len(text) = 1 - 1 + Len(text) /\ \A k \in 1..Len(text) : k + 1 - 1 = k
    BY <1>2
  <2> QED BY <2>1 DEF Holds, text
<1>12. c[1] = Rest(units, 1)
  BY <1>10, <1>11 DEF Good
<1> QED BY <1>4, <1>12, RestEnds DEF text

\* The text of a wide string decodes to its units, and a byte below 128 is a
\* character.
LEMMA Utf8Decodes ==
    ASSUME NEW units \in Seq(Plain)
    PROVE  Characters(Utf8(units)) = units
BY Utf8Is, Decodes

LEMMA BytesDecode ==
    ASSUME NEW bytes \in Seq(0..127)
    PROVE  Characters(bytes) = bytes
<1>1. \A x \in 0..127 : x \in Plain /\ x \in 0..255 /\ Encoded(x) = <<x>>
  BY SMT DEF Plain, Encoded
<1>2. bytes \in Seq(Plain) /\ bytes \in Seq(0..255)
  <2> DEFINE B == 0..127
             C == 0..255
  <2>1. B \subseteq Plain /\ B \subseteq C
    BY <1>1
  <2>2. bytes \in Seq(B)
    OBVIOUS
  <2> HIDE DEF B, C
  <2>3. Seq(B) \subseteq Seq(Plain) /\ Seq(B) \subseteq Seq(C)
    BY <2>1, SeqMonotonic
  <2>4. bytes \in Seq(Plain) /\ bytes \in Seq(C)
    BY <2>2, <2>3
  <2> QED BY <2>4 DEF C
<1> DEFINE n == Len(bytes)
           u == [i \in 1..(n + 1) |-> Rest(bytes, i)]
<1>3. n \in Nat /\ \A i \in 1..n : bytes[i] \in 0..127
  BY LenProperties, ElementOfSeq
<1>4. u \in [1..(n + 1) -> Seq(0..255)]
  <2> SUFFICES ASSUME NEW i \in 1..(n + 1) PROVE Rest(bytes, i) \in Seq(0..255)
    OBVIOUS
  <2>1. Len(bytes) + 1 - i \in Nat
    BY <1>3
  <2>2. ASSUME NEW k \in 1..(Len(bytes) + 1 - i) PROVE bytes[k + i - 1] \in 0..255
    <3>1. k + i - 1 \in 1..n
      BY <1>3
    <3>2. bytes[k + i - 1] \in 0..127
      BY <1>3, <3>1
    <3> QED BY <3>2
  <2> QED BY <2>1, <2>2 DEF Rest
<1>5. OneByOne(u, bytes)
  <2> SUFFICES ASSUME NEW i \in 1..(n + 1)
               PROVE  Rest(bytes, i) = IF i > n THEN <<>> ELSE Encoded(bytes[i]) \o u[i + 1]
    BY DEF OneByOne
  <2>1. CASE i > n
    <3>1. i = n + 1
      BY <1>3, <2>1
    <3> QED BY <1>2, <2>1, <3>1, RestEnds
  <2>2. CASE ~(i > n)
    <3>1. i \in 1..n /\ i + 1 \in 1..(n + 1)
      BY <1>3, <2>2
    <3>2. Encoded(bytes[i]) = <<bytes[i]>> /\ u[i + 1] = Rest(bytes, i + 1)
      BY <1>1, <1>3, <3>1
    <3> HIDE DEF u
    <3> QED BY <1>2, <2>2, <3>1, <3>2, RestNext
  <2> QED BY <2>1, <2>2
<1>6. u[1] = bytes
  <2>1. 1 \in 1..(n + 1)
    BY <1>3
  <2> QED BY <1>2, <2>1, RestEnds
<1> HIDE DEF u
<1> QED BY <1>2, <1>4, <1>5, <1>6, Decodes

-----------------------------------------------------------------------------
\* A list that enumerates a set has as many elements as the set.
LEMMA EnumeratesCount ==
    ASSUME NEW S \in SUBSET Pairs, NEW f, Enumerates(f, S)
    PROVE  IsFiniteSet(S) /\ Cardinality(S) = Len(f) /\ Len(f) \in Nat
<1> DEFINE n == Len(f)
<1>1. n \in Nat /\ f \in [1..n -> S]
  BY LenProperties DEF Enumerates
<1>2. ASSUME NEW a \in 1..n, NEW b \in 1..n, f[a] = f[b] PROVE a = b
  <2>1. f[a][1] \in Int /\ f[b][1] \in Int
    BY <1>1 DEF Pairs
  <2>2. \A j, k \in 1..n : j < k => f[j][1] < f[k][1]
    BY DEF Enumerates
  <2>3. ~(a < b) /\ ~(b < a)
    BY <1>2, <2>1, <2>2
  <2> QED BY <1>1, <2>3
<1>3. \A t \in S : \E k \in 1..n : f[k] = t
  BY DEF Enumerates
<1>4. f \in Bijection(1..n, S)
  BY <1>1, <1>2, <1>3, Fun_IsBij
<1>5. ExistsBijection(1..n, S)
  BY <1>4, Fun_ExistsBij
<1>6. IsFiniteSet(1..n) /\ Cardinality(1..n) = n
  <2>1. (IF 1 > n THEN 0 ELSE n - 1 + 1) = n
    BY <1>1
  <2> QED BY <1>1, <2>1, FS_Interval
<1> QED BY <1>1, <1>5, <1>6, FS_Bijection

Texts == [va : Nat, length : Nat, wide : BOOLEAN, text : Seq(0..255)]
Bytes == Seq(0..255)

LEMMA UnitsInSection ==
    ASSUME NEW bytes \in Bytes
    PROVE  /\ Len(bytes) \in Nat
           /\ AsciiUnits(bytes) \in SUBSET (0..(Len(bytes) - 1))
           /\ WideUnits(bytes) \in SUBSET (0..(Len(bytes) - 2))
BY LenProperties DEF AsciiUnits, WideUnits, Bytes

LEMMA ByteAt ==
    ASSUME NEW bytes \in Bytes, NEW k \in 0..(Len(bytes) - 1)
    PROVE  At(bytes, k) \in 0..255
<1>1. k + 1 \in 1..Len(bytes) /\ Len(bytes) \in Nat
  BY LenProperties DEF Bytes
<1>2. bytes[k + 1] \in 0..255
  BY <1>1, ElementOfSeq DEF Bytes
<1> QED BY <1>2 DEF At

\* What AsciiRuns makes of one run.
AsciiString(va0, bytes, r) ==
    [va |-> va0 + r[1], length |-> r[2] - r[1], wide |-> FALSE, text |-> SubSeq(bytes, r[1] + 1, r[2])]
LEMMA AsciiStringLists ==
    ASSUME NEW s \in Sections, NEW r \in Runs(Len(s.bytes), 1, AsciiUnits(s.bytes))
    PROVE  LET t == AsciiString(s.va, s.bytes, r) IN t \in Texts /\ Lists(t, s, FALSE, r)
<1> DEFINE bytes == s.bytes
           text == SubSeq(bytes, r[1] + 1, r[2])
           n == r[2] - r[1]
<1>1. bytes \in Bytes /\ s.va \in Nat
  BY DEF Sections, Bytes
<1>2. Len(bytes) \in Nat /\ AsciiUnits(bytes) \in SUBSET (0..(Len(bytes) - 1))
  BY <1>1, UnitsInSection
<1>3. /\ r[1] \in 0..(Len(bytes) - 1) /\ r[2] \in (r[1] + 1)..Len(bytes)
      /\ \A k \in r[1]..(r[2] - 1) : k % 1 = 0 => k \in AsciiUnits(bytes)
  <2>1. 1 \in {1, 2}
    OBVIOUS
  <2> HIDE DEF bytes
  <2> QED BY <1>2, <2>1, RunFacts DEF bytes
<1> HIDE DEF bytes
<1>4. n \in Nat /\ r[2] - (r[1] + 1) + 1 = n /\ n \div 1 = n /\ r[1] \in Nat /\ r[2] \in Nat
  BY <1>2, <1>3
<1>5. ASSUME NEW k \in (r[1] + 1)..r[2] PROVE bytes[k] \in 0..127
  <2>1. k - 1 \in r[1]..(r[2] - 1) /\ (k - 1) + 1 = k /\ (k - 1) % 1 = 0
    BY <1>4
  <2>2. k - 1 \in AsciiUnits(bytes)
    BY <1>3, <2>1
  <2>3. IsPrintableAscii(At(bytes, k - 1))
    BY <2>2 DEF AsciiUnits
  <2>4. IsPrintableAscii(bytes[k])
    BY <2>1, <2>3 DEF At
  <2> QED BY <2>4 DEF IsPrintableAscii
<1>6. /\ text \in Seq(0..127) /\ Len(text) = n
      /\ \A k \in 1..n : text[k] = bytes[(r[1] + 1) + k - 1]
  <2> DEFINE B == 0..127
             a == r[1] + 1
  <2>1. a \in Int /\ r[2] \in Int /\ \A k \in a..r[2] : bytes[k] \in B
    BY <1>4, <1>5
  <2>2. (IF a <= r[2] THEN r[2] - a + 1 ELSE 0) = n /\ r[2] - a + 1 = n
    BY <1>3, <1>4
  <2> HIDE DEF B, a, n
  <2>3. /\ SubSeq(bytes, a, r[2]) \in Seq(B)
        /\ Len(SubSeq(bytes, a, r[2])) = IF a <= r[2] THEN r[2] - a + 1 ELSE 0
        /\ \A i \in 1..(r[2] - a + 1) : SubSeq(bytes, a, r[2])[i] = bytes[a + i - 1]
    BY <2>1, SubSeqProperties
  <2> QED BY <2>2, <2>3 DEF B, a
<1> HIDE DEF text
<1>7. Characters(text) = text
  BY <1>6, BytesDecode
<1>8. text = [k \in 1..n |-> At(bytes, r[1] + k - 1)]
  <2>1. \A k \in 1..n : (r[1] + 1) + k - 1 = (r[1] + k - 1) + 1
    BY <1>4
  <2>2. \A k \in 1..n : text[k] = At(bytes, r[1] + k - 1)
    BY <1>6, <2>1 DEF At
  <2>3. text = [k \in 1..Len(text) |-> text[k]]
    BY <1>6, LenProperties
  <2> QED BY <1>6, <2>2, <2>3
<1>9. text \in Seq(0..255)
  <2> DEFINE B == 0..127
             C == 0..255
  <2>1. B \subseteq C
    OBVIOUS
  <2>2. text \in Seq(B)
    BY <1>6
  <2> HIDE DEF B, C
  <2>3. text \in Seq(C)
    BY <2>1, <2>2, SeqMonotonic
  <2> QED BY <2>3 DEF C
<1> DEFINE t == AsciiString(s.va, s.bytes, r)
<1>10. t = [va |-> s.va + r[1], length |-> n, wide |-> FALSE, text |-> text]
  BY DEF AsciiString, bytes, text
<1>11. s.va + r[1] \in Nat
  BY <1>1, <1>4
<1> HIDE DEF n
<1>12. t \in Texts
  BY <1>4, <1>9, <1>10, <1>11 DEF Texts
<1>13. Lists(t, s, FALSE, r)
  <2>1. t.va = s.va + r[1] /\ t.wide = FALSE /\ t.length = n /\ t.text = text
    BY <1>10
  <2>2. (r[2] - r[1]) \div 1 = n
    BY <1>4 DEF n
  <2>3. Characters(t.text) = [k \in 1..n |-> At(s.bytes, r[1] + k - 1)]
    BY <1>7, <1>8, <2>1 DEF bytes
  <2> HIDE DEF t
  <2> QED BY <2>1, <2>2, <2>3 DEF Lists
<1> QED BY <1>12, <1>13

-----------------------------------------------------------------------------
\* What WideRuns makes of one run.
WideText(bytes, r) == [k \in 1..((r[2] - r[1]) \div 2) |-> Unit(bytes, r[1] + 2 * (k - 1))]
WideString(va0, bytes, r) ==
    [va |-> va0 + r[1], length |-> (r[2] - r[1]) \div 2, wide |-> TRUE, text |-> Utf8(WideText(bytes, r))]

LEMMA PrintableIsPlain ==
    ASSUME NEW c \in Nat, IsPrintableWc(c)
    PROVE  c \in Plain
<1>1. CASE c < 32
  BY <1>1, SMT DEF Plain
<1>2. CASE ~(c < 32)
  <2>1. ~(c \in 55296..57343) /\ c < 65534
    BY <1>2, SMT DEF IsPrintableWc
  <2> QED BY <2>1, SMT DEF Plain
<1> QED BY <1>1, <1>2

LEMMA WideStringLists ==
    ASSUME NEW s \in Sections, NEW r \in Runs(Len(s.bytes), 2, WideUnits(s.bytes))
    PROVE  LET t == WideString(s.va, s.bytes, r) IN t \in Texts /\ Lists(t, s, TRUE, r)
<1> DEFINE bytes == s.bytes
           units == WideText(bytes, r)
           n == (r[2] - r[1]) \div 2
<1>1. bytes \in Bytes /\ s.va \in Nat
  BY DEF Sections, Bytes
<1>2. Len(bytes) \in Nat /\ WideUnits(bytes) \in SUBSET (0..(Len(bytes) - 2))
  BY <1>1, UnitsInSection
<1>3. /\ r[1] \in 0..(Len(bytes) - 2) /\ r[1] % 2 = 0 /\ r[2] \in (r[1] + 2)..Len(bytes)
      /\ r[2] % 2 = 0
      /\ \A k \in r[1]..(r[2] - 1) : k % 2 = 0 => k \in WideUnits(bytes)
  <2>1. 2 \in {1, 2}
    OBVIOUS
  <2> HIDE DEF bytes
  <2> QED BY <1>2, <2>1, RunFacts DEF bytes
<1> HIDE DEF bytes
<1>4. n \in Nat /\ 2 * n = r[2] - r[1] /\ r[1] \in Nat /\ r[2] \in Nat
  <2> DEFINE a == r[1]
             b == r[2]
  <2>1. a \in Nat /\ b \in Nat /\ a % 2 = 0 /\ b % 2 = 0 /\ a <= b
    BY <1>2, <1>3
  <2> HIDE DEF a, b
  <2>2. (b - a) \div 2 \in Nat /\ 2 * ((b - a) \div 2) = b - a
    BY <2>1
  <2> QED BY <2>1, <2>2 DEF a, b
<1> HIDE DEF n
<1>5. ASSUME NEW k \in 1..n PROVE Unit(bytes, r[1] + 2 * (k - 1)) \in Plain
  <2> DEFINE p == r[1] + 2 * (k - 1)
  <2>1. p \in r[1]..(r[2] - 1) /\ p % 2 = 0
    BY <1>3, <1>4
  <2> HIDE DEF p
  <2>2. p \in WideUnits(bytes) /\ p \in 0..(Len(bytes) - 2)
    BY <1>2, <1>3, <2>1
  <2>3. IsPrintableWc(Unit(bytes, p))
    BY <2>2 DEF WideUnits
  <2>4. At(bytes, p) \in 0..255 /\ At(bytes, p + 1) \in 0..255
    <3>1. p \in 0..(Len(bytes) - 1) /\ p + 1 \in 0..(Len(bytes) - 1)
      BY <1>2, <2>2
    <3> QED BY <1>1, <3>1, ByteAt
  <2>5. Unit(bytes, p) \in Nat
    <3>1. \A a, b \in 0..255 : a + 256 * b \in Nat
      OBVIOUS
    <3> QED BY <2>4, <3>1 DEF Unit
  <2>6. Unit(bytes, p) \in Plain
    BY <2>3, <2>5, PrintableIsPlain
  <2> QED BY <2>6 DEF p
<1>6. units = [k \in 1..n |-> Unit(bytes, r[1] + 2 * (k - 1))]
  BY DEF WideText, n
<1>7. units \in Seq(Plain)
  BY <1>4, <1>5, <1>6
<1>8. Characters(Utf8(units)) = units
  BY <1>7, Utf8Decodes
<1>9. Utf8(units) \in Seq(0..255)
  <2>1. PICK u \in [1..(Len(units) + 1) -> Seq(0..255)] : OneByOne(u, units) /\ Utf8(units) = u[1]
    BY <1>7, Utf8Is
  <2>2. 1 \in 1..(Len(units) + 1)
    BY <1>7, LenProperties
  <2> HIDE DEF units
  <2> QED BY <2>1, <2>2
<1> DEFINE t == WideString(s.va, s.bytes, r)
<1>10. t = [va |-> s.va + r[1], length |-> n, wide |-> TRUE, text |-> Utf8(units)]
  BY DEF WideString, bytes, n
<1>11. s.va + r[1] \in Nat
  BY <1>1, <1>4
<1> HIDE DEF units
<1>12. t \in Texts
  BY <1>4, <1>9, <1>10, <1>11 DEF Texts
<1>13. Lists(t, s, TRUE, r)
  <2>1. t.va = s.va + r[1] /\ t.wide = TRUE /\ t.length = n /\ t.text = Utf8(units)
    BY <1>10
  <2>2. Characters(t.text) = [k \in 1..n |-> Unit(s.bytes, r[1] + 2 * (k - 1))]
    BY <1>6, <1>8, <2>1 DEF bytes
  <2> HIDE DEF t
  <2> QED BY <2>1, <2>2, ZenonT(20) DEF Lists, n
<1> QED BY <1>12, <1>13

\* What ScanSection appends: one string for each run, and only in data.
Ascii(s) == Runs(Len(s.bytes), 1, AsciiUnits(s.bytes))
Wide(s) == Runs(Len(s.bytes), 2, WideUnits(s.bytes))

LEMMA RunsOfAscii ==
    ASSUME NEW s \in Sections
    PROVE  /\ AsciiRuns(s.va, s.bytes) \in Seq(Texts)
           /\ IsFiniteSet(Ascii(s)) /\ Len(AsciiRuns(s.va, s.bytes)) = Cardinality(Ascii(s))
           /\ \A r \in Ascii(s) : \E k \in 1..Len(AsciiRuns(s.va, s.bytes)) :
                  Lists(AsciiRuns(s.va, s.bytes)[k], s, FALSE, r)
<1> DEFINE n == Len(s.bytes)
           text == AsciiUnits(s.bytes)
           runs == RunsFound(n, 1, text)
<1>1. s.bytes \in Bytes
  BY DEF Sections, Bytes
<1>2. n \in Nat /\ text \in SUBSET (0..(n - 1)) /\ 1 \in {1, 2}
  BY <1>1, UnitsInSection
<1>3. AsciiRuns(s.va, s.bytes) = [i \in 1..Len(runs) |-> AsciiString(s.va, s.bytes, runs[i])]
  BY DEF AsciiRuns, AsciiString
<1>4. Ascii(s) = Runs(n, 1, text)
  BY DEF Ascii
<1> HIDE DEF n, text, runs
<1>5. Enumerates(runs, Ascii(s))
  BY <1>2, <1>4, RunsFoundAll DEF runs
<1>6. Ascii(s) \in SUBSET Pairs
  <2>1. \A r \in Ascii(s) : r \in Pairs
    BY <1>2, <1>4, RunFacts DEF Pairs
  <2> QED BY <2>1
<1>7. IsFiniteSet(Ascii(s)) /\ Cardinality(Ascii(s)) = Len(runs) /\ Len(runs) \in Nat
  BY <1>5, <1>6, EnumeratesCount
<1>8. \A i \in 1..Len(runs) : runs[i] \in Ascii(s)
  BY <1>5, ElementOfSeq DEF Enumerates
<1>9. \A r \in Ascii(s) : AsciiString(s.va, s.bytes, r) \in Texts /\ Lists(AsciiString(s.va, s.bytes, r), s, FALSE, r)
  BY AsciiStringLists DEF Ascii
<1> DEFINE f == AsciiRuns(s.va, s.bytes)
<1>10. /\ f = [i \in 1..Len(runs) |-> AsciiString(s.va, s.bytes, runs[i])]
       /\ \A i \in 1..Len(runs) : AsciiString(s.va, s.bytes, runs[i]) \in Texts
  BY <1>3, <1>8, <1>9
<1> HIDE DEF f
<1>11. f \in Seq(Texts) /\ Len(f) = Len(runs) /\ \A i \in 1..Len(runs) : f[i] = AsciiString(s.va, s.bytes, runs[i])
  BY <1>7, <1>10
<1>12. ASSUME NEW r \in Ascii(s) PROVE \E k \in 1..Len(f) : Lists(f[k], s, FALSE, r)
  <2>1. PICK k \in 1..Len(runs) : runs[k] = r
    BY <1>5 DEF Enumerates
  <2> QED BY <1>9, <1>11, <2>1
<1> QED BY <1>7, <1>11, <1>12 DEF f

LEMMA RunsOfWide ==
    ASSUME NEW s \in Sections
    PROVE  /\ WideRuns(s.va, s.bytes) \in Seq(Texts)
           /\ IsFiniteSet(Wide(s)) /\ Len(WideRuns(s.va, s.bytes)) = Cardinality(Wide(s))
           /\ \A r \in Wide(s) : \E k \in 1..Len(WideRuns(s.va, s.bytes)) :
                  Lists(WideRuns(s.va, s.bytes)[k], s, TRUE, r)
<1> DEFINE n == Len(s.bytes)
           text == WideUnits(s.bytes)
           runs == RunsFound(n, 2, text)
<1>1. s.bytes \in Bytes
  BY DEF Sections, Bytes
<1>2. n \in Nat /\ text \in SUBSET (0..(n - 2)) /\ 2 \in {1, 2}
  BY <1>1, UnitsInSection
<1>3. WideRuns(s.va, s.bytes) = [i \in 1..Len(runs) |-> WideString(s.va, s.bytes, runs[i])]
  BY DEF WideRuns, WideString, WideText
<1>4. Wide(s) = Runs(n, 2, text)
  BY DEF Wide
<1> HIDE DEF n, text, runs
<1>5. Enumerates(runs, Wide(s))
  BY <1>2, <1>4, RunsFoundAll DEF runs
<1>6. Wide(s) \in SUBSET Pairs
  <2>1. \A r \in Wide(s) : r \in Pairs
    BY <1>2, <1>4, RunFacts DEF Pairs
  <2> QED BY <2>1
<1>7. IsFiniteSet(Wide(s)) /\ Cardinality(Wide(s)) = Len(runs) /\ Len(runs) \in Nat
  BY <1>5, <1>6, EnumeratesCount
<1>8. \A i \in 1..Len(runs) : runs[i] \in Wide(s)
  BY <1>5, ElementOfSeq DEF Enumerates
<1>9. \A r \in Wide(s) : WideString(s.va, s.bytes, r) \in Texts /\ Lists(WideString(s.va, s.bytes, r), s, TRUE, r)
  BY WideStringLists DEF Wide
<1> DEFINE f == WideRuns(s.va, s.bytes)
<1>10. /\ f = [i \in 1..Len(runs) |-> WideString(s.va, s.bytes, runs[i])]
       /\ \A i \in 1..Len(runs) : WideString(s.va, s.bytes, runs[i]) \in Texts
  BY <1>3, <1>8, <1>9
<1> HIDE DEF f
<1>11. f \in Seq(Texts) /\ Len(f) = Len(runs) /\ \A i \in 1..Len(runs) : f[i] = WideString(s.va, s.bytes, runs[i])
  BY <1>7, <1>10
<1>12. ASSUME NEW r \in Wide(s) PROVE \E k \in 1..Len(f) : Lists(f[k], s, TRUE, r)
  <2>1. PICK k \in 1..Len(runs) : runs[k] = r
    BY <1>5 DEF Enumerates
  <2> QED BY <1>9, <1>11, <2>1
<1> QED BY <1>7, <1>11, <1>12 DEF f

LEMMA NoBytesNoRuns ==
    ASSUME NEW s \in Sections, s.bytes = <<>>
    PROVE  Ascii(s) = {} /\ Wide(s) = {}
<1>1. s.bytes \in Bytes /\ Len(s.bytes) = 0
  BY DEF Sections, Bytes
<1>2. AsciiUnits(s.bytes) \in SUBSET (0..(0 - 1)) /\ WideUnits(s.bytes) \in SUBSET (0..(0 - 2))
  BY <1>1, UnitsInSection
<1>3. ASSUME NEW w \in {1, 2}, NEW text \in SUBSET (0..(0 - w)) PROVE Runs(0, w, text) = {}
  <2>1. 0 \in Nat /\ 0..(0 - w) = {}
    OBVIOUS
  <2>2. \A r \in Runs(0, w, text) : r[1] \in 0..(0 - w)
    BY <2>1, RunFacts
  <2> QED BY <2>1, <2>2
<1>4. 1 \in {1, 2} /\ 2 \in {1, 2}
  OBVIOUS
<1> QED BY <1>1, <1>2, <1>3, <1>4 DEF Ascii, Wide

\* A section gives one string for each of its runs if it is data, none else.
LEMMA SectionScanned ==
    ASSUME NEW s \in Sections
    PROVE  /\ ScanSection(s) \in Seq(Texts) /\ IsFiniteSet(Ascii(s)) /\ IsFiniteSet(Wide(s))
           /\ s.readable /\ ~s.executable =>
                 /\ Len(ScanSection(s)) = Cardinality(Ascii(s)) + Cardinality(Wide(s))
                 /\ \A r \in Ascii(s) : \E k \in 1..Len(ScanSection(s)) : Lists(ScanSection(s)[k], s, FALSE, r)
                 /\ \A r \in Wide(s) : \E k \in 1..Len(ScanSection(s)) : Lists(ScanSection(s)[k], s, TRUE, r)
           /\ ~(s.readable /\ ~s.executable) => ScanSection(s) = <<>>
<1> DEFINE a == AsciiRuns(s.va, s.bytes)
           w == WideRuns(s.va, s.bytes)
<1>1. /\ a \in Seq(Texts) /\ IsFiniteSet(Ascii(s)) /\ Len(a) = Cardinality(Ascii(s))
      /\ \A r \in Ascii(s) : \E k \in 1..Len(a) : Lists(a[k], s, FALSE, r)
  BY RunsOfAscii
<1>2. /\ w \in Seq(Texts) /\ IsFiniteSet(Wide(s)) /\ Len(w) = Cardinality(Wide(s))
      /\ \A r \in Wide(s) : \E k \in 1..Len(w) : Lists(w[k], s, TRUE, r)
  BY RunsOfWide
<1>3. CASE ~(s.readable /\ ~s.executable)
  <2>1. ScanSection(s) = <<>>
    BY <1>3, Zenon DEF ScanSection
  <2> HIDE DEF a, w
  <2> QED BY <1>1, <1>2, <1>3, <2>1, EmptySeq, Zenon
<1>4. CASE s.readable /\ ~s.executable /\ s.bytes = <<>>
  <2>1. ScanSection(s) = <<>> /\ <<>> \in Seq(Texts) /\ Len(<<>>) = 0
    BY <1>4 DEF ScanSection
  <2>2. Ascii(s) = {} /\ Wide(s) = {} /\ Cardinality({}) = 0
    BY <1>4, NoBytesNoRuns, FS_EmptySet
  <2> QED BY <1>1, <1>2, <1>4, <2>1, <2>2
<1>5. CASE s.readable /\ ~s.executable /\ s.bytes # <<>>
  <2>1. ScanSection(s) = a \o w
    BY <1>5 DEF ScanSection
  <2> HIDE DEF a, w
  <2>2. Len(a) \in Nat /\ Len(w) \in Nat
    BY <1>1, <1>2, LenProperties
  <2>3. /\ a \o w \in Seq(Texts) /\ Len(a \o w) = Len(a) + Len(w)
        /\ \A k \in 1..(Len(a) + Len(w)) : (a \o w)[k] = IF k <= Len(a) THEN a[k] ELSE w[k - Len(a)]
    BY <1>1, <1>2, ConcatProperties
  <2>4. \A k \in 1..Len(a) : k \in 1..Len(a \o w) /\ (a \o w)[k] = a[k]
    BY <2>2, <2>3
  <2>5. ASSUME NEW k \in 1..Len(w)
        PROVE  k + Len(a) \in 1..Len(a \o w) /\ (a \o w)[k + Len(a)] = w[k]
    <3>1. k + Len(a) \in 1..(Len(a) + Len(w)) /\ ~(k + Len(a) <= Len(a)) /\ (k + Len(a)) - Len(a) = k
      BY <2>2
    <3> QED BY <2>3, <3>1
  <2>6. \A r \in Ascii(s) : \E k \in 1..Len(a \o w) : Lists((a \o w)[k], s, FALSE, r)
    BY <1>1, <2>4
  <2>7. ASSUME NEW r \in Wide(s) PROVE \E k \in 1..Len(a \o w) : Lists((a \o w)[k], s, TRUE, r)
    <3>1. PICK k \in 1..Len(w) : Lists(w[k], s, TRUE, r)
      BY <1>2
    <3> QED BY <2>5, <3>1
  <2> QED BY <1>1, <1>2, <1>5, <2>1, <2>3, <2>6, <2>7
<1> QED BY <1>3, <1>4, <1>5

-----------------------------------------------------------------------------
\* The invariant: what is listed so far is all there is in the sections passed.
StringsInv ==
    /\ image \in Images /\ sec \in 1..(Len(image) + 1) /\ strings \in Seq(Texts)
    /\ IsFiniteSet(Listable) /\ AlignedListed /\ NoneInvented

\* The text of one section, and how the text of those passed grows.
LEMMA TextOfSection ==
    ASSUME NEW i, image[i] \in Sections
    PROVE  /\ IsFiniteSet(TextOf(i))
           /\ Cardinality(TextOf(i)) = Cardinality(Ascii(image[i])) + Cardinality(Wide(image[i]))
<1> DEFINE A == Ascii(image[i])
           W == Wide(image[i])
           a == {<<i, FALSE>>}
           w == {<<i, TRUE>>}
<1>1. TextOf(i) = (a \X A) \cup (w \X W)
  BY DEF TextOf, Ascii, Wide
<1>2. IsFiniteSet(A) /\ IsFiniteSet(W)
  BY SectionScanned
<1>3. IsFiniteSet(a) /\ IsFiniteSet(w) /\ Cardinality(a) = 1 /\ Cardinality(w) = 1
  BY FS_Singleton
<1>4. (a \X A) \cap (w \X W) = {}
  <2>1. a \cap w = {}
    OBVIOUS
  <2> HIDE DEF a, w, A, W
  <2> QED BY <2>1
<1> HIDE DEF a, w, A, W
<1>5. IsFiniteSet(a \X A) /\ Cardinality(a \X A) = Cardinality(A)
  <2>1. Cardinality(A) \in Nat /\ 1 * Cardinality(A) = Cardinality(A)
    BY <1>2, FS_CardinalityType
  <2> QED BY <1>2, <1>3, <2>1, FS_Product
<1>6. IsFiniteSet(w \X W) /\ Cardinality(w \X W) = Cardinality(W)
  <2>1. Cardinality(W) \in Nat /\ 1 * Cardinality(W) = Cardinality(W)
    BY <1>2, FS_CardinalityType
  <2> QED BY <1>2, <1>3, <2>1, FS_Product
<1>7. /\ IsFiniteSet(TextOf(i))
      /\ Cardinality(TextOf(i)) = Cardinality(A) + Cardinality(W) - Cardinality({})
  BY <1>1, <1>4, <1>5, <1>6, FS_Union
<1>8. Cardinality({}) = 0 /\ Cardinality(A) \in Nat /\ Cardinality(W) \in Nat
  BY <1>2, FS_EmptySet, FS_CardinalityType
<1> QED BY <1>7, <1>8 DEF A, W

LEMMA TextShape ==
    ASSUME NEW i, NEW x \in TextOf(i)
    PROVE  \/ x[1] = <<i, FALSE>> /\ x[1][1] = i /\ x[1][2] = FALSE /\ x[2] \in Ascii(image[i])
           \/ x[1] = <<i, TRUE>> /\ x[1][1] = i /\ x[1][2] = TRUE /\ x[2] \in Wide(image[i])
<1> DEFINE A == Ascii(image[i])
           W == Wide(image[i])
           a == <<i, FALSE>>
           w == <<i, TRUE>>
<1>1. TextOf(i) = ({a} \X A) \cup ({w} \X W)
  BY DEF TextOf, Ascii, Wide
<1>2. a[1] = i /\ a[2] = FALSE /\ w[1] = i /\ w[2] = TRUE
  OBVIOUS
<1> HIDE DEF A, W, a, w
<1>3. (x[1] = a /\ x[2] \in A) \/ (x[1] = w /\ x[2] \in W)
  BY <1>1
<1>4. CASE x[1] = a /\ x[2] \in A
  BY <1>2, <1>4, Zenon DEF a, A
<1>5. CASE x[1] = w /\ x[2] \in W
  BY <1>2, <1>5, Zenon DEF w, W
<1> QED BY <1>3, <1>4, <1>5

LEMMA TextGrows ==
    ASSUME image' = image, sec \in Nat \ {0}, sec' = sec + 1
    PROVE  /\ image[sec].readable /\ ~image[sec].executable => Listable' = Listable \cup TextOf(sec)
           /\ ~(image[sec].readable /\ ~image[sec].executable) => Listable' = Listable
           /\ Listable \cap TextOf(sec) = {}
<1>1. \A i : TextOf(i)' = TextOf(i)
  BY DEF TextOf
<1>2. 1..(sec' - 1) = 1..(sec - 1) \cup {sec}
  BY SMT
<1>3. Data' = Data \cup {i \in {sec} : image[i].readable /\ ~image[i].executable}
  BY <1>2 DEF Data
<1>4. sec \notin Data
  BY DEF Data
<1>5. Listable' = UNION {TextOf(i) : i \in Data'}
  BY <1>1 DEF Listable
<1>6. \A i : \A x \in TextOf(i) : x[1][1] = i
  BY TextShape
<1>7. Listable = UNION {TextOf(i) : i \in Data}
  BY DEF Listable
<1>8. Listable \cap TextOf(sec) = {}
  BY <1>4, <1>6, <1>7
<1>9. CASE image[sec].readable /\ ~image[sec].executable
  <2>1. Data' = Data \cup {sec}
    BY <1>3, <1>9
  <2>2. Listable' = Listable \cup TextOf(sec)
    BY <1>5, <1>7, <2>1
  <2> QED BY <1>8, <1>9, <2>2
<1>10. CASE ~(image[sec].readable /\ ~image[sec].executable)
  <2>1. Data' = Data
    BY <1>3, <1>10
  <2> QED BY <1>5, <1>7, <1>8, <1>10, <2>1
<1> QED BY <1>9, <1>10

LEMMA ScanKeeps ==
    ASSUME StringsInv, Scan
    PROVE  StringsInv'
<1> DEFINE s == image[sec]
           more == ScanSection(s)
           data == s.readable /\ ~s.executable
<1>1. /\ image' = image /\ sec' = sec + 1 /\ strings' = strings \o more
      /\ image \in Seq(Sections) /\ sec \in 1..Len(image) /\ Len(image) \in Nat
  <2>1. image \in Seq(Sections)
    BY ImagesAssumption DEF StringsInv
  <2>2. Len(image) \in Nat
    BY <2>1, LenProperties
  <2> QED BY <2>1, <2>2 DEF StringsInv, Scan, Done
<1>2. s \in Sections
  BY <1>1, ElementOfSeq
<1>3. /\ more \in Seq(Texts) /\ IsFiniteSet(Ascii(s)) /\ IsFiniteSet(Wide(s))
      /\ data =>
             /\ Len(more) = Cardinality(Ascii(s)) + Cardinality(Wide(s))
             /\ \A r \in Ascii(s) : \E k \in 1..Len(more) : Lists(more[k], s, FALSE, r)
             /\ \A r \in Wide(s) : \E k \in 1..Len(more) : Lists(more[k], s, TRUE, r)
      /\ ~data => more = <<>>
  BY <1>2, SectionScanned
<1>4. IsFiniteSet(TextOf(sec)) /\ Cardinality(TextOf(sec)) = Cardinality(Ascii(s)) + Cardinality(Wide(s))
  BY <1>2, TextOfSection
<1>5. /\ data => Listable' = Listable \cup TextOf(sec)
      /\ ~data => Listable' = Listable
      /\ Listable \cap TextOf(sec) = {}
  BY <1>1, TextGrows
<1>6. \A x \in TextOf(sec) :
          \/ x[1][1] = sec /\ x[1][2] = FALSE /\ x[2] \in Ascii(s)
          \/ x[1][1] = sec /\ x[1][2] = TRUE /\ x[2] \in Wide(s)
  BY TextShape
<1>7. strings \in Seq(Texts) /\ IsFiniteSet(Listable) /\ Len(strings) = Cardinality(Listable)
      /\ \A x \in Listable : \E t \in Range(strings) : Lists(t, image[x[1][1]], x[1][2], x[2])
  BY DEF StringsInv, AlignedListed, NoneInvented
<1>8. /\ strings' \in Seq(Texts) /\ Len(strings') = Len(strings) + Len(more)
      /\ \A k \in 1..(Len(strings) + Len(more)) :
             strings'[k] = IF k <= Len(strings) THEN strings[k] ELSE more[k - Len(strings)]
  <2> HIDE DEF more
  <2> QED BY <1>1, <1>3, <1>7, ConcatProperties
<1>9. Len(strings) \in Nat /\ Len(more) \in Nat
  BY <1>3, <1>7, LenProperties
<1> HIDE DEF more, s
<1>10. Range(strings) \subseteq Range(strings') /\ \A k \in 1..Len(more) : more[k] \in Range(strings')
  <2>1. DOMAIN strings = 1..Len(strings) /\ DOMAIN strings' = 1..Len(strings')
    BY <1>7, <1>8, LenProperties
  <2>2. \A k \in 1..Len(strings) : k \in 1..Len(strings') /\ strings'[k] = strings[k]
    BY <1>8, <1>9
  <2>3. ASSUME NEW k \in 1..Len(more)
        PROVE  k + Len(strings) \in 1..Len(strings') /\ strings'[k + Len(strings)] = more[k]
    <3>1. k + Len(strings) \in 1..(Len(strings) + Len(more)) /\ ~(k + Len(strings) <= Len(strings))
          /\ (k + Len(strings)) - Len(strings) = k
      BY <1>9
    <3> QED BY <1>8, <3>1
  <2> QED BY <2>1, <2>2, <2>3 DEF Range
<1>11. CASE data
  <2>1. AlignedListed'
    <3> SUFFICES ASSUME NEW x \in Listable'
                 PROVE  \E t \in Range(strings') : Lists(t, image[x[1][1]], x[1][2], x[2])
      BY <1>1 DEF AlignedListed
    <3>1. CASE x \in Listable
      BY <1>7, <1>10, <3>1
    <3>2. CASE x \in TextOf(sec)
      <4>1. \E k \in 1..Len(more) : Lists(more[k], s, x[1][2], x[2])
        <5>1. CASE x[1][2] = FALSE /\ x[2] \in Ascii(s)
          BY <1>3, <1>11, <5>1
        <5>2. CASE x[1][2] = TRUE /\ x[2] \in Wide(s)
          BY <1>3, <1>11, <5>2
        <5> QED BY <1>6, <3>2, <5>1, <5>2
      <4> QED BY <1>6, <1>10, <3>2, <4>1 DEF s
    <3> QED BY <1>5, <1>11, <3>1, <3>2
  <2>2. /\ IsFiniteSet(Listable')
        /\ Cardinality(Listable') = Cardinality(Listable) + Cardinality(TextOf(sec)) - Cardinality({})
    BY <1>4, <1>5, <1>7, <1>11, FS_Union
  <2>3. Cardinality({}) = 0 /\ Cardinality(Listable) \in Nat /\ Cardinality(TextOf(sec)) \in Nat
    BY <1>4, <1>7, FS_EmptySet, FS_CardinalityType
  <2>4. Len(strings') = Cardinality(Listable')
    <3>1. Len(more) = Cardinality(TextOf(sec))
      BY <1>3, <1>4, <1>11
    <3> QED BY <1>7, <1>8, <2>2, <2>3, <3>1
  <2> QED BY <1>1, <1>8, <2>1, <2>2, <2>4 DEF StringsInv, NoneInvented
<1>12. CASE ~data
  <2>1. more = <<>> /\ Len(more) = 0 /\ Listable' = Listable
    BY <1>3, <1>5, <1>12
  <2>2. Len(strings') = Len(strings)
    BY <1>8, <1>9, <2>1
  <2>3. AlignedListed'
    BY <1>1, <1>7, <1>10, <2>1 DEF AlignedListed
  <2> QED BY <1>1, <1>7, <1>8, <2>1, <2>2, <2>3 DEF StringsInv, NoneInvented
<1> QED BY <1>11, <1>12

\* The scan lists every string of the sections it has passed, with its address,
\* length and text (AlignedListed), and nothing else (NoneInvented).
THEOREM StringsInvariant == ScanSpec => []StringsInv
<1>1. ScanInit => StringsInv
  <2> SUFFICES ASSUME ScanInit PROVE StringsInv
    OBVIOUS
  <2>1. image \in Images /\ sec = 1 /\ strings = <<>> /\ Len(image) \in Nat
    BY ImagesAssumption, LenProperties DEF ScanInit
  <2>2. Listable = {}
    BY <2>1 DEF Listable, Data
  <2>3. IsFiniteSet(Listable) /\ Cardinality(Listable) = 0
    BY <2>2, FS_EmptySet
  <2> QED BY <2>1, <2>2, <2>3 DEF StringsInv, AlignedListed, NoneInvented
<1>2. StringsInv /\ [ScanNext]_scanVars => StringsInv'
  <2> SUFFICES ASSUME StringsInv, [ScanNext]_scanVars PROVE StringsInv'
    OBVIOUS
  <2>1. CASE Scan
    BY <2>1, ScanKeeps
  <2>2. CASE UNCHANGED scanVars
    BY <2>2 DEF scanVars, StringsInv, AlignedListed, NoneInvented, Listable, TextOf, Data
  <2> QED BY <2>1, <2>2 DEF ScanNext, Scanned
<1> QED BY <1>1, <1>2, PTL DEF ScanSpec

\* For every image: the two loops list all maximal runs of the data sections passed.
THEOREM AlignedListedCorrect == ScanSpec => []AlignedListed
<1>1. StringsInv => AlignedListed
  BY DEF StringsInv
<1> QED BY <1>1, StringsInvariant, PTL

\* For every image: each string listed is a maximal run, with the text that is there.
THEOREM NoneInventedCorrect == ScanSpec => []NoneInvented
<1>1. StringsInv => NoneInvented
  BY DEF StringsInv
<1> QED BY <1>1, StringsInvariant, PTL
=============================================================================
