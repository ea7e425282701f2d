--------------------------- MODULE DocTabsProofs ---------------------------
(***************************************************************************)
(* Theorems about the document list and its tab bar, for any set of        *)
(* documents: the current index is always in range, and a pending tab      *)
(* switch is always a switch to the current document.                      *)
(***************************************************************************)
EXTENDS ListViews, SequenceLemmas

CtxType == [docs : Seq(Doc), current : Int, pending : Int]

\* What every operation on the document list keeps.
CtxOK(c) ==
    /\ c \in CtxType
    /\ IF c.docs = <<>> THEN c.current = -1 ELSE c.current \in Indices(c)
    /\ c.docs # <<>> /\ c.pending # -1 => c.pending = c.current

\* Removing an element leaves a sequence one shorter.
LEMMA RemoveAtFacts ==
    ASSUME NEW S, NEW s \in Seq(S), NEW i \in 1..Len(s)
    PROVE  RemoveAt(s, i) \in Seq(S) /\ Len(RemoveAt(s, i)) = Len(s) - 1
<1> DEFINE u == SubSeq(s, 1, i-1)
           v == SubSeq(s, i+1, Len(s))
           n == Len(s)
<1>1. n \in Nat /\ i \in Int /\ 1 <= i /\ i <= n
  BY LenProperties
<1>2. \A j \in 1..n : s[j] \in S
  BY ElementOfSeq
<1>3. u \in Seq(S) /\ Len(u) = i - 1
  <2>1. /\ 1 \in Int /\ i - 1 \in Int /\ \A j \in 1..(i - 1) : s[j] \in S
    BY <1>1, <1>2
  <2>2. u \in Seq(S) /\ Len(u) = IF 1 <= i - 1 THEN i - 1 - 1 + 1 ELSE 0
    BY <2>1, SubSeqProperties
  <2>3. QED  BY <1>1, <2>2
<1>4. v \in Seq(S) /\ Len(v) = n - i
  <2>1. i + 1 \in Int /\ n \in Int /\ \A j \in (i + 1)..n : s[j] \in S
    BY <1>1, <1>2
  <2>2. v \in Seq(S) /\ Len(v) = IF i + 1 <= n THEN n - (i + 1) + 1 ELSE 0
    BY <2>1, SubSeqProperties
  <2>3. QED  BY <1>1, <2>2
<1>5. RemoveAt(s, i) = u \o v
  BY DEF RemoveAt
<1> HIDE DEF u, v, n
<1>6. u \o v \in Seq(S) /\ Len(u \o v) = Len(u) + Len(v)
  BY <1>3, <1>4, ConcatProperties
<1>7. QED  BY <1>1, <1>3, <1>4, <1>5, <1>6 DEF n

\* The indices of a list are those below its length.
LEMMA IndexFacts ==
    ASSUME NEW c \in CtxType
    PROVE  /\ Len(c.docs) \in Nat
           /\ c.docs # <<>> <=> Len(c.docs) > 0
           /\ \A i \in Int : i \in Indices(c) <=> 0 <= i /\ i < Len(c.docs)
           /\ \A i \in Indices(c) : DocAt(c, i) \in Doc
<1>1. c.docs \in Seq(Doc) /\ Len(c.docs) \in Nat
  BY LenProperties DEF CtxType
<1>2. c.docs # <<>> <=> Len(c.docs) > 0
  BY <1>1, EmptySeq
<1>3. \A i \in Int : i \in Indices(c) <=> 0 <= i /\ i < Len(c.docs)
  BY <1>1 DEF Indices
<1>4. ASSUME NEW i \in Indices(c) PROVE DocAt(c, i) \in Doc
  <2>1. i + 1 \in 1..Len(c.docs)
    BY <1>1 DEF Indices
  <2>2. QED  BY <1>1, <2>1, ElementOfSeq DEF DocAt
<1>5. QED  BY <1>1, <1>2, <1>3, <1>4

\* open_document
LEMMA OpenOK ==
    ASSUME NEW c, CtxOK(c), NEW d \in Doc
    PROVE  CtxOK(OpenDoc(c, d))
<1> DEFINE n == OpenDoc(c, d)
<1>1. c.docs \in Seq(Doc) /\ Len(c.docs) \in Nat
  BY IndexFacts DEF CtxOK, CtxType
<1>2. /\ n.docs = Append(c.docs, d) /\ n.current = Len(c.docs) /\ n.pending = Len(c.docs)
      /\ n = [docs |-> n.docs, current |-> n.current, pending |-> n.pending]
  BY DEF OpenDoc, SelectIn
<1>3. n.docs \in Seq(Doc) /\ Len(n.docs) = Len(c.docs) + 1 /\ n.docs # <<>>
  BY <1>1, <1>2, AppendProperties
<1>4. n \in CtxType
  <2>1. Append(c.docs, d) \in Seq(Doc) /\ Len(c.docs) \in Int
    BY <1>1, AppendProperties
  <2>2. QED  BY <2>1 DEF CtxType, OpenDoc, SelectIn
<1>5. n.current \in Indices(n)
  BY <1>1, <1>2, <1>3 DEF Indices
<1>6. QED  BY <1>2, <1>3, <1>4, <1>5 DEF CtxOK

\* close_document, called with the current index or from the tab loop, where
\* no switch is pending any more.
LEMMA CloseOK ==
    ASSUME NEW c, CtxOK(c), NEW i \in Int, c.pending = -1 \/ i = c.current
    PROVE  CtxOK(CloseDoc(c, i))
<1> DEFINE rest == RemoveAt(c.docs, i + 1)
           k == CloseDoc(c, i)
<1>1. /\ c \in CtxType /\ Len(c.docs) \in Nat /\ c.docs \in Seq(Doc)
      /\ c.current \in Int /\ c.pending \in Int
      /\ i \in Indices(c) <=> 0 <= i /\ i < Len(c.docs)
  BY IndexFacts DEF CtxOK, CtxType
<1>2. CASE i \notin Indices(c)
  BY <1>2 DEF CloseDoc
<1>3. CASE i \in Indices(c)
  <2>1. i + 1 \in 1..Len(c.docs)
    BY <1>1, <1>3
  <2>2. rest \in Seq(Doc) /\ Len(rest) = Len(c.docs) - 1
    BY <1>1, <2>1, RemoveAtFacts
  <2>3. \A j, p \in Int : [docs |-> rest, current |-> j, pending |-> p] \in CtxType
    BY <1>1, <2>2 DEF CtxType
  <2>4. c.docs # <<>> /\ c.current \in Indices(c) /\ 0 <= c.current /\ c.current < Len(c.docs)
    BY <1>1, <1>3, IndexFacts DEF CtxOK
  <2>5. Len(rest) \in Nat /\ (rest # <<>> <=> Len(rest) > 0)
    BY <2>2, LenProperties, EmptySeq
  <2> HIDE DEF rest
  <2>6. ASSUME NEW j \in Int, 0 <= j, j < Len(rest) PROVE CtxOK(SelectIn(rest, j))
    <3> DEFINE s == SelectIn(rest, j)
    <3>1. s \in CtxType /\ s.docs = rest /\ s.current = j /\ s.pending = j
      BY <2>3 DEF SelectIn
    <3>2. s.current \in Indices(s)
      BY <2>5, <2>6, <3>1 DEF Indices
    <3>3. rest # <<>>
      BY <2>5, <2>6
    <3>4. QED  BY <3>1, <3>2, <3>3 DEF CtxOK
  <2>7. CASE rest = <<>>
    <3>1. k = [docs |-> rest, current |-> -1, pending |-> c.pending]
      BY <1>3, <2>7 DEF CloseDoc, rest
    <3>2. k \in CtxType /\ k.docs = <<>> /\ k.current = -1
      BY <1>1, <2>3, <2>7, <3>1, SMTT(30)
    <3>3. QED  BY <3>2 DEF CtxOK
  <2>8. CASE rest # <<>> /\ c.current >= Len(rest)
    <3>1. k = SelectIn(rest, Len(rest) - 1)
      BY <1>3, <2>8 DEF CloseDoc, rest
    <3>2. QED  BY <2>5, <2>6, <2>8, <3>1
  <2>9. CASE rest # <<>> /\ ~(c.current >= Len(rest)) /\ i <= c.current
    <3>1. k = SelectIn(rest, IF c.current > 0 THEN c.current - 1 ELSE 0)
      BY <1>3, <2>9 DEF CloseDoc, rest
    <3>2. QED  BY <1>1, <2>4, <2>5, <2>6, <2>9, <3>1
  <2>10. CASE rest # <<>> /\ ~(c.current >= Len(rest)) /\ ~(i <= c.current)
    <3>1. k = [docs |-> rest, current |-> c.current, pending |-> c.pending]
      BY <1>3, <2>10 DEF CloseDoc, rest
    <3>2. c.pending = -1
      BY <1>1, <2>10
    <3>3. k.current \in Indices(k) /\ k \in CtxType
      BY <1>1, <2>3, <2>4, <2>5, <2>10, <3>1 DEF Indices
    <3>4. QED  BY <3>1, <3>2, <3>3, <2>10 DEF CtxOK
  <2>11. QED  BY <2>7, <2>8, <2>9, <2>10
<1>4. QED  BY <1>2, <1>3

LEMMA CloseCurrentOK ==
    ASSUME NEW c, CtxOK(c)
    PROVE  CtxOK(CloseCurrent(c))
BY CloseOK DEF CloseCurrent, CtxOK, CtxType

\* A remainder lies below its divisor.
LEMMA ModRange ==
    ASSUME NEW x \in Int, NEW n \in Nat, n > 0
    PROVE  x % n \in 0..(n - 1)
OBVIOUS

\* Ctrl+Tab and Ctrl+Shift+Tab stay among the open documents.
LEMMA CycleOK ==
    ASSUME NEW c, CtxOK(c), NEW delta \in Int
    PROVE  CtxOK(CycleDoc(c, delta))
<1>1. CASE c.docs = <<>>
  BY <1>1 DEF CycleDoc
<1>2. CASE c.docs # <<>>
  <2> DEFINE n == Len(c.docs)
             j == (c.current + delta + n) % n
             s == SelectIn(c.docs, j)
  <2>1. c \in CtxType /\ n \in Nat /\ n > 0 /\ c.current \in Int
    BY <1>2, IndexFacts DEF CtxOK, CtxType
  <2>2. j \in 0..(n - 1)
    <3>1. c.current + delta + n \in Int
      BY <2>1
    <3> HIDE DEF n
    <3>2. QED  BY <2>1, <3>1, ModRange
  <2> HIDE DEF j
  <2>3. s \in CtxType /\ s.docs = c.docs /\ s.current = j /\ s.pending = j
    BY <2>1, <2>2 DEF SelectIn, CtxType
  <2>4. CycleDoc(c, delta) = s
    BY <1>2 DEF CycleDoc, j
  <2>5. s.current \in Indices(s)
    BY <2>2, <2>3 DEF Indices
  <2>6. QED  BY <1>2, <2>3, <2>4, <2>5 DEF CtxOK
<1>3. QED  BY <1>1, <1>2

\* The tab loop leaves an index in range and nothing pending.
LEMMA TabLoopOK ==
    ASSUME CtxOK(ctx), ctx.docs # <<>>, NEW visible
    PROVE  CtxOK(TabLoop(visible)) /\ TabLoop(visible).pending = -1
<1> DEFINE t == TabLoop(visible)
           i == VisibleItem(bar, Len(ctx.docs), visible)
<1>1. ctx \in CtxType /\ Len(ctx.docs) \in Nat /\ Len(ctx.docs) > 0
      /\ ctx.current \in Indices(ctx)
  BY IndexFacts DEF CtxOK
<1>2. i = None \/ i \in 0..(Len(ctx.docs) - 1)
  BY <1>1 DEF VisibleItem, None
<1> HIDE DEF i
<1>3. t = [docs |-> ctx.docs, current |-> IF i = None THEN ctx.current ELSE i,
           pending |-> -1]
  BY DEF TabLoop, i
<1>4. /\ t.docs = ctx.docs /\ t.pending = -1
      /\ t.current \in 0..(Len(ctx.docs) - 1)
      /\ t \in CtxType
  BY <1>1, <1>2, <1>3 DEF CtxType, Indices
<1>5. QED  BY <1>4 DEF CtxOK, Indices

-----------------------------------------------------------------------------
\* A current document is a document.
LEMMA CurrentDocType ==
    ASSUME NEW c, CtxOK(c)
    PROVE  CurrentDoc(c) \in Doc \cup {NoDoc}
BY IndexFacts DEF CurrentDoc, HasDoc, CtxOK

\* The tab a press finally queues is one of the submitted ones.
LEMMA QueuedInRange ==
    ASSUME NEW n \in Nat, NEW visible, NEW p, NEW press \in 0..(n - 1)
    PROVE  QueuedTab(n, visible, p, press, None) \in 0..(n - 1)
<1> DEFINE asked == IF p \in 0..(n - 1) /\ p # visible THEN p ELSE None
<1>1. asked \in 0..(n - 1) \/ asked = -1
  BY DEF None
<1>2. press \in Int /\ 0 <= press /\ press # -1
  OBVIOUS
<1>3. QueuedTab(n, visible, p, press, None) = IF asked <= press THEN press ELSE asked
  BY <1>2 DEF QueuedTab, None
<1> HIDE DEF asked
<1>4. asked <= press \/ asked \in 0..(n - 1)
  BY <1>1, <1>2
<1>5. QED  BY <1>3, <1>4, Zenon

IInv == TypeOK /\ PendingIsCurrent

LEMMA IInvCtx == IInv <=> /\ CtxOK(ctx)
                          /\ stage \in Stage
                          /\ wanted \in Doc \cup {NoDoc}
                          /\ quiet \in 0..Calm
BY DEF IInv, TypeOK, PendingIsCurrent, CtxOK, CtxType, HasDoc

LEMMA IInvCtxNext == IInv' <=> /\ CtxOK(ctx')
                               /\ stage' \in Stage
                               /\ wanted' \in Doc \cup {NoDoc}
                               /\ quiet' \in 0..Calm
BY DEF IInv, TypeOK, PendingIsCurrent, CtxOK, CtxType, HasDoc, Indices

LEMMA InitOK == Init => IInv
<1> SUFFICES ASSUME Init PROVE IInv
  OBVIOUS
<1>0. 0 \in 0..Calm
  BY CalmAssumption
<1>1. CtxOK(NoDocs)
  BY EmptySeq DEF CtxOK, CtxType, NoDocs
<1>2. CtxOK(ctx)
  BY <1>1, OpenOK DEF Init
<1>3. QED  BY <1>0, <1>2, CurrentDocType, IInvCtx DEF Init, Stage

LEMMA StepOK == IInv /\ [Next]_vars => IInv'
<1> SUFFICES ASSUME IInv, [Next]_vars PROVE IInv'
  OBVIOUS
<1>0. 0 \in 0..Calm
  BY CalmAssumption
<1>2. IInv'
  <2>0. CtxOK(ctx) /\ stage \in Stage /\ wanted \in Doc \cup {NoDoc} /\ quiet \in 0..Calm
    BY IInvCtx
  <2>r. ASSUME CtxOK(ctx'), stage' \in Stage, Request(ctx') PROVE IInv'
    BY <1>0, <2>r, CurrentDocType, IInvCtxNext DEF Request
  <2>n. ASSUME CtxOK(ctx'), stage' \in Stage, NoRequest PROVE IInv'
    BY <2>0, <2>n, IInvCtxNext DEF NoRequest
  <2>1. ASSUME NEW d \in Closed, DropFile(d) PROVE IInv'
    BY <2>0, <2>1, <2>r, OpenOK DEF DropFile, Closed, Stage
  <2>2. ASSUME NEW d \in Closed, MenuOpen(d) PROVE IInv'
    BY <2>0, <2>2, <2>r, OpenOK DEF MenuOpen, Closed, Stage
  <2>3. CASE DropsDone
    BY <2>0, <2>3, <2>n DEF DropsDone, Stage
  <2>4. CASE MenuClose
    BY <2>0, <2>4, <2>r, CloseCurrentOK DEF MenuClose, Stage
  <2>5. CASE MenuIdle
    BY <2>0, <2>5, <2>n DEF MenuIdle, Stage
  <2>6. CASE HostEmpty
    BY <2>0, <2>6, <2>n DEF HostEmpty, Stage
  <2>7. ASSUME NEW visible, NEW press, NEW close, Host(visible, press, close)
        PROVE  IInv'
    <3>1. CtxOK(TabLoop(visible)) /\ TabLoop(visible).pending = -1
      BY <2>0, <2>7, TabLoopOK DEF Host
    <3>2. ctx \in CtxType /\ Len(ctx.docs) \in Nat /\ close \in Int
      BY <2>0, <2>7, IndexFacts DEF CtxOK, Host, Indices, None
    <3>3. CtxOK(ctx') /\ stage' \in Stage
      BY <2>7, <3>1, <3>2, CloseOK DEF Host, Stage
    <3>4. wanted' \in Doc \cup {NoDoc} /\ quiet' \in 0..Calm
      <4>1. CASE press # None
        <5>1. press \in 0..(Len(ctx.docs) - 1) /\ wanted' = DocAt(ctx, bar'.next) /\ quiet' = 0
              /\ close = None
          BY <2>7, <4>1 DEF Host, Indices
        <5>2. bar'.next \in Indices(ctx)
          BY <2>7, <3>2, <5>1, QueuedInRange DEF Host, SubmitTabs, Indices
        <5>3. QED  BY <1>0, <3>2, <5>1, <5>2, IndexFacts
      <4>2. CASE press = None
        BY <1>0, <2>0, <2>7, <3>3, <4>2, CurrentDocType DEF Host, NoRequest
      <4>3. QED  BY <4>1, <4>2
    <3>5. QED  BY <3>3, <3>4, IInvCtxNext
  <2>8. CASE KeysIdle
    BY <2>0, <2>8, <2>n DEF KeysIdle, Stage
  <2>9. ASSUME NEW opened \in Closed \cup {NoDoc}, NEW close \in BOOLEAN,
               NEW delta \in {-1, 0, 1}, Keys(opened, close, delta)
        PROVE  IInv'
    <3> DEFINE c1 == IF opened = NoDoc THEN ctx ELSE OpenDoc(ctx, opened)
               c2 == IF close THEN CloseCurrent(c1) ELSE c1
               c3 == IF delta = 0 THEN c2 ELSE CycleDoc(c2, delta)
    <3>1. CtxOK(c1)
      BY <2>0, OpenOK DEF Closed
    <3> HIDE DEF c1
    <3>2. CtxOK(c2)
      BY <3>1, CloseCurrentOK
    <3> HIDE DEF c2
    <3>3. CtxOK(c3)
      BY <3>2, CycleOK
    <3>4. ctx' = c3 /\ stage' = "views" /\ Request(ctx')
      BY <2>9 DEF Keys, c1, c2
    <3>5. QED  BY <2>r, <3>3, <3>4 DEF Stage
  <2>10. CASE EndFrame
    <3>1. quiet' \in 0..Calm
      BY <2>0, <2>10, CalmAssumption DEF EndFrame
    <3>2. QED  BY <2>0, <2>10, <3>1, IInvCtxNext DEF EndFrame, Stage
  <2>11. CASE UNCHANGED vars
    BY <2>0, <2>11, IInvCtxNext DEF vars
  <2>12. QED
    BY <2>1, <2>2, <2>3, <2>4, <2>5, <2>6, <2>7, <2>8, <2>9, <2>10, <2>11 DEF Next
<1>3. QED  BY <1>2

LEMMA Inductive == Spec => []IInv
BY InitOK, StepOK, PTL DEF Spec

\* Types, with current_doc in range at every point of every frame: current()
\* never indexes past the list, and with documents open it is never null.
THEOREM TypeCorrect == Spec => []TypeOK
<1>1. IInv => TypeOK
  BY DEF IInv
<1>2. QED  BY <1>1, Inductive, PTL

\* The one-shot trigger never names another tab than the current one.
THEOREM PendingCorrect == Spec => []PendingIsCurrent
<1>1. IInv => PendingIsCurrent
  BY DEF IInv
<1>2. QED  BY <1>1, Inductive, PTL

-----------------------------------------------------------------------------
\* What is left of a list without its element i.
LEMMA RemoveAtElements ==
    ASSUME NEW S, NEW s \in Seq(S), NEW i \in 1..Len(s)
    PROVE  \A k \in 1..(Len(s) - 1) : RemoveAt(s, i)[k] = IF k < i THEN s[k] ELSE s[k + 1]
<1> DEFINE u == SubSeq(s, 1, i-1)
           v == SubSeq(s, i+1, Len(s))
           n == Len(s)
<1>1. n \in Nat /\ i \in Int /\ 1 <= i /\ i <= n /\ \A j \in 1..n : s[j] \in S
  BY LenProperties, ElementOfSeq
<1>2. u \in Seq(S) /\ Len(u) = i - 1 /\ \A k \in 1..(i - 1) : u[k] = s[k]
  <2>1. 1 \in Int /\ i - 1 \in Int /\ \A j \in 1..(i - 1) : s[j] \in S
    BY <1>1
  <2>2. /\ u \in Seq(S) /\ Len(u) = IF 1 <= i - 1 THEN i - 1 - 1 + 1 ELSE 0
        /\ \A k \in 1..(i - 1 - 1 + 1) : u[k] = s[1 + k - 1]
    BY <2>1, SubSeqProperties
  <2>3. \A k \in 1..(i - 1) : k \in 1..(i - 1 - 1 + 1) /\ 1 + k - 1 = k
    BY <1>1
  <2>4. Len(u) = i - 1
    BY <1>1, <2>2
  <2>5. QED  BY <2>2, <2>3, <2>4
<1>3. v \in Seq(S) /\ Len(v) = n - i /\ \A k \in 1..(n - i) : v[k] = s[i + k]
  <2>1. i + 1 \in Int /\ n \in Int /\ \A j \in (i + 1)..n : s[j] \in S
    BY <1>1
  <2>2. /\ v \in Seq(S) /\ Len(v) = IF i + 1 <= n THEN n - (i + 1) + 1 ELSE 0
        /\ \A k \in 1..(n - (i + 1) + 1) : v[k] = s[i + 1 + k - 1]
    BY <2>1, SubSeqProperties
  <2>3. \A k \in 1..(n - i) : k \in 1..(n - (i + 1) + 1) /\ i + 1 + k - 1 = i + k
    BY <1>1
  <2>4. Len(v) = n - i
    BY <1>1, <2>2
  <2>5. QED  BY <2>2, <2>3, <2>4
<1>4. RemoveAt(s, i) = u \o v
  BY DEF RemoveAt
<1> HIDE DEF u, v, n
<1>5. \A k \in 1..(Len(u) + Len(v)) : (u \o v)[k] = IF k <= Len(u) THEN u[k] ELSE v[k - Len(u)]
  BY <1>2, <1>3, ConcatProperties
<1>6. ASSUME NEW k \in 1..(n - 1)
      PROVE  RemoveAt(s, i)[k] = IF k < i THEN s[k] ELSE s[k + 1]
  <2>1. k \in 1..(Len(u) + Len(v))
    BY <1>1, <1>2, <1>3
  <2>2. CASE k < i
    <3>1. k <= Len(u) /\ k \in 1..(i - 1)
      BY <1>1, <1>2, <2>2
    <3>2. QED  BY <1>2, <1>4, <1>5, <2>1, <2>2, <3>1
  <2>3. CASE ~(k < i)
    <3>1. ~(k <= Len(u)) /\ k - Len(u) = k - i + 1 /\ k - i + 1 \in 1..(n - i) /\ i + (k - i + 1) = k + 1
      BY <1>1, <1>2, <2>3
    <3>2. QED  BY <1>3, <1>4, <1>5, <2>1, <2>3, <3>1
  <2>4. QED  BY <2>2, <2>3
<1>7. QED  BY <1>6 DEF n

\* Closing another tab than the current one keeps the current document.
LEMMA CloseOther ==
    ASSUME NEW c, CtxOK(c), NEW i \in Indices(c), i # c.current, c.pending = -1
    PROVE  CurrentDoc(CloseDoc(c, i)) = DocAt(c, c.current)
<1> DEFINE n == Len(c.docs)
           cur == c.current
           rest == RemoveAt(c.docs, i + 1)
           k == CloseDoc(c, i)
<1>1. c \in CtxType /\ n \in Nat /\ c.docs \in Seq(Doc) /\ i \in Int /\ 0 <= i /\ i < n
  BY IndexFacts DEF CtxOK, CtxType, Indices
<1>2. cur \in Int /\ 0 <= cur /\ cur < n
  BY <1>1, IndexFacts DEF CtxOK, CtxType
<1>3. i + 1 \in 1..n
  BY <1>1
<1>4. /\ rest \in Seq(Doc) /\ Len(rest) = n - 1
      /\ \A j \in 1..(n - 1) : rest[j] = IF j < i + 1 THEN c.docs[j] ELSE c.docs[j + 1]
  BY <1>1, <1>3, RemoveAtFacts, RemoveAtElements
<1> HIDE DEF rest
<1>5. n - 1 > 0 /\ rest # <<>>
  <2>1. n - 1 > 0
    BY <1>1, <1>2
  <2>2. QED  BY <1>4, <2>1, EmptySeq
<1>6. ASSUME NEW j \in 0..(n - 2), k.docs = rest, k.current = j, rest[j + 1] = c.docs[cur + 1]
      PROVE  CurrentDoc(k) = DocAt(c, cur)
  <2>1. j \in Indices(k)
    BY <1>1, <1>4, <1>6 DEF Indices
  <2> HIDE DEF k
  <2>2. QED  BY <1>6, <2>1 DEF CurrentDoc, HasDoc, DocAt
<1>7. CASE cur > i
  <2>1. k.docs = rest /\ k.current = cur - 1
    <3>1. CASE cur >= Len(rest)
      <4>1. k = SelectIn(rest, Len(rest) - 1)
        BY <1>5, <3>1 DEF CloseDoc, rest
      <4>2. Len(rest) - 1 = cur - 1
        BY <1>1, <1>2, <1>4, <3>1
      <4>3. QED  BY <4>1, <4>2 DEF SelectIn
    <3>2. CASE ~(cur >= Len(rest))
      <4>1. i <= cur /\ cur > 0
        BY <1>1, <1>2, <1>7
      <4>2. k = SelectIn(rest, cur - 1)
        BY <1>5, <3>2, <4>1 DEF CloseDoc, rest
      <4>3. QED  BY <4>2 DEF SelectIn
    <3>3. QED  BY <3>1, <3>2
  <2>2. cur - 1 \in 0..(n - 2) /\ cur \in 1..(n - 1) /\ ~(cur < i + 1) /\ (cur - 1) + 1 = cur
    BY <1>1, <1>2, <1>7
  <2>3. rest[cur] = c.docs[cur + 1]
    BY <1>4, <2>2
  <2> HIDE DEF k
  <2>4. QED  BY <1>6, <2>1, <2>2, <2>3 DEF k
<1>8. CASE cur < i
  <2>1. ~(cur >= Len(rest)) /\ ~(i <= cur)
    BY <1>1, <1>2, <1>4, <1>8
  <2>2. k = [docs |-> rest, current |-> cur, pending |-> c.pending]
    BY <1>5, <2>1 DEF CloseDoc, rest
  <2>3. cur \in 0..(n - 2) /\ cur + 1 \in 1..(n - 1) /\ cur + 1 < i + 1
    BY <1>1, <1>2, <1>8
  <2>4. rest[cur + 1] = c.docs[cur + 1]
    BY <1>4, <2>3
  <2>5. k.docs = rest /\ k.current = cur
    BY <2>2
  <2> HIDE DEF k
  <2>6. QED  BY <1>6, <2>3, <2>4, <2>5 DEF k
<1>9. QED  BY <1>1, <1>2, <1>7, <1>8

\* The cross of a tab never takes the user away from another document, whatever
\* tabs are open and whichever is closed.
THEOREM CloseKeepsCurrentCorrect == Spec => CloseKeepsCurrent
<1>1. IInv /\ [Next]_vars =>
        [\A visible, close \in bar.tabs :
           /\ Host(visible, None, close)
           /\ visible \in Indices(ctx) /\ visible # close
           => CurrentDoc(ctx') = DocAt(ctx, visible)]_vars
  <2> SUFFICES ASSUME IInv, NEW visible, NEW close, Host(visible, None, close),
                      visible \in Indices(ctx), visible # close
               PROVE  CurrentDoc(ctx') = DocAt(ctx, visible)
    OBVIOUS
  <2> DEFINE t == TabLoop(visible)
  <2>1. CtxOK(ctx) /\ ctx.docs # <<>> /\ ctx' = CloseDoc(t, close)
    BY IInvCtx DEF Host
  <2>2. CtxOK(t) /\ t.pending = -1
    BY <2>1, TabLoopOK
  <2>3. t.docs = ctx.docs /\ t.current = visible
    <3>1. visible # None
      BY DEF Indices, None
    <3>2. VisibleItem(bar, Len(ctx.docs), visible) = visible
      BY DEF VisibleItem, Indices
    <3>3. QED  BY <3>1, <3>2 DEF TabLoop
  <2>4. Indices(t) = Indices(ctx) /\ DocAt(t, visible) = DocAt(ctx, visible)
    BY <2>3 DEF Indices, DocAt
  <2> HIDE DEF t
  <2>5. close = None \/ close \in Indices(t)
    BY <2>4 DEF Host
  <2>6. CASE close \in Indices(t)
    BY <2>1, <2>2, <2>3, <2>4, <2>6, CloseOther
  <2>7. CASE close \notin Indices(t)
    <3>1. ctx' = t
      BY <2>1, <2>7 DEF CloseDoc
    <3>2. QED  BY <2>3, <2>4, <3>1 DEF CurrentDoc, HasDoc
  <2>8. QED  BY <2>6, <2>7
<1>2. QED  BY <1>1, Inductive, PTL DEF Spec, CloseKeepsCurrent

-----------------------------------------------------------------------------
\* The list windows draw in the frames of the tabs.
LEMMA ListStepIsTabs == ListNext => [Next]_vars
BY DEF ListNext, Handlers, MenuView, NotDrawn, Reached, ListWindow, StringsWindow, FilterWindow,
       ViewsDone, Next

\* Whatever windows are shown, what is proved of the tabs holds.
THEOREM ListsAreTabs == ListSpec => Spec
<1>1. ListInit => Init
  BY DEF ListInit
<1>2. [ListNext]_<<vars, listVars>> => [Next]_vars
  BY ListStepIsTabs DEF vars
<1>3. QED  BY <1>1, <1>2, PTL DEF ListSpec, Spec

\* The strings of a document that pass the filter are rows of that document.
LEMMA PassingRows ==
    ASSUME NEW d \in Doc, NEW f
    PROVE  \A r \in Range(Passing(d, f)) : r[1] = d
<1> DEFINE T == {<<d, i>> : i \in 1..Len(Strings[d])}
           K == {r \in Range(StringRows(d)) : f \in Strings[d][r[2]]}
<1>1. Len(Strings[d]) \in Nat
  BY RowsAssumption, LenProperties
<1>2. StringRows(d) \in Seq(T)
  BY <1>1 DEF StringRows
<1>3. Kept(StringRows(d), K) \in Seq(T \cap K)
  BY <1>2, KeptElements
<1>4. Range(Passing(d, f)) \subseteq T
  <2> HIDE DEF T, K
  <2>1. \A k \in DOMAIN Kept(StringRows(d), K) : Kept(StringRows(d), K)[k] \in T
    BY <1>3
  <2>2. QED  BY <2>1 DEF Passing, K, Range
<1>5. QED  BY <1>4

\* A row is clicked in the frame that draws it, and the frame's document is the
\* one that goes there.
JumpNow ==
    jump # NoJump => /\ stage = "views" /\ HasDoc(ctx)
                     /\ jump[1] = CurrentDoc(ctx) /\ jump[2][1] = jump[1]

LEMMA JumpKept == JumpNow /\ IInv /\ [ListNext]_<<vars, listVars>> => JumpNow'
<1> SUFFICES ASSUME JumpNow, IInv, [ListNext]_<<vars, listVars>> PROVE JumpNow'
  OBVIOUS
<1>c. ASSUME NEW rows, ClickedIn(rows), HasDoc(ctx), stage = "views", UNCHANGED vars,
             \A r \in rows : r[1] = CurrentDoc(ctx)
      PROVE  JumpNow'
  <2>1. ctx' = ctx /\ stage' = stage
    BY <1>c DEF vars
  <2>2. HasDoc(ctx') = HasDoc(ctx) /\ CurrentDoc(ctx') = CurrentDoc(ctx)
    BY <2>1
  <2>3. CASE jump' = jump
    BY <2>1, <2>2, <2>3 DEF JumpNow, NoJump
  <2>4. CASE \E r \in rows : jump' = <<CurrentDoc(ctx), r>>
    BY <1>c, <2>1, <2>2, <2>4 DEF JumpNow
  <2>5. QED  BY <1>c, <2>3, <2>4 DEF ClickedIn
<1>d. HasDoc(ctx) => CurrentDoc(ctx) \in Doc
  BY IInvCtx, IndexFacts DEF HasDoc, CurrentDoc, CtxOK
<1>1. CASE Handlers
  BY <1>1 DEF Handlers, JumpNow, listVars, NoJump
<1>2. ASSUME NEW w \in Window, MenuView(w) PROVE JumpNow'
  BY <1>2 DEF MenuView, MenuIdle, JumpNow, NoJump
<1>3. CASE NotDrawn
  BY <1>3 DEF NotDrawn, Reached, vars, JumpNow, NoJump, HasDoc, CurrentDoc
<1>4. CASE StringsWindow
  <2>1. \A r \in Range(filtered') : r[1] = CurrentDoc(ctx)
    BY <1>4, <1>d, PassingRows DEF StringsWindow, Refill
  <2>2. QED  BY <1>4, <1>c, <2>1 DEF StringsWindow, Reached
<1>5. CASE FilterWindow
  BY <1>5 DEF FilterWindow, Reached, vars, JumpNow, NoJump, HasDoc, CurrentDoc
<1>6. ASSUME NEW w \in Window, ListWindow(w) PROVE JumpNow'
  <2> DEFINE rows == {<<CurrentDoc(ctx), i>> : i \in 1..Rows[CurrentDoc(ctx)]}
  <2>1. \A r \in rows : r[1] = CurrentDoc(ctx)
    OBVIOUS
  <2>2. QED  BY <1>6, <1>c, <2>1 DEF ListWindow, Reached
<1>7. CASE ViewsDone
  BY <1>7 DEF ViewsDone, JumpNow, NoJump
<1>8. CASE UNCHANGED <<vars, listVars>>
  BY <1>8 DEF vars, listVars, JumpNow, NoJump, HasDoc, CurrentDoc
<1>9. QED
  BY <1>1, <1>2, <1>3, <1>4, <1>5, <1>6, <1>7, <1>8 DEF ListNext

\* No document is ever sent to a row of another, and it is open when it goes: the
\* static rows of the strings window are filled again before they are clicked.
THEOREM OwnRowsCorrect == ListSpec => []OwnRows
<1>1. ListInit => JumpNow
  BY DEF ListInit, JumpNow
<1>2. JumpNow /\ IInv => OwnRows
  <2> SUFFICES ASSUME JumpNow, IInv, jump # NoJump PROVE jump[2][1] = jump[1] /\ IsOpen(jump[1])
    BY DEF OwnRows
  <2>1. HasDoc(ctx) /\ jump[1] = DocAt(ctx, ctx.current)
    BY DEF JumpNow, CurrentDoc
  <2>2. ctx.current + 1 \in 1..Len(ctx.docs)
    BY <2>1, IInvCtx, IndexFacts DEF HasDoc, CtxOK, CtxType, Indices
  <2>3. QED  BY <2>1, <2>2 DEF IsOpen, DocAt, JumpNow
<1>3. QED  BY <1>1, <1>2, JumpKept, ListsAreTabs, Inductive, PTL DEF ListSpec

-----------------------------------------------------------------------------
(* The tab bar catches up.  What the user last asked for is where the next    *)
(* layout will land, however many tabs were opened, closed or cycled through  *)
(* before it; and a frame without a request leaves a bar of exactly the open  *)
(* documents, so that the frame after it shows the right one.                 *)

BarType == [tabs : SUBSET Nat, selected : Int, next : Int, recent : Seq(Int), up : BOOLEAN]

\* No document is open in two tabs.
Distinct(c) == \A i, j \in Indices(c) : DocAt(c, i) = DocAt(c, j) => i = j

\* The tab v is the one wished for; NoDoc stands for any.
Wished(c, w, v) == w = NoDoc \/ (v \in Indices(c) /\ w = DocAt(c, v))

\* The next layout lands on the document wished for.
AimOK(c, b, w) ==
    /\ c.docs = <<>> => w = NoDoc
    /\ c.docs # <<>> /\ c.pending # -1 => w \in {NoDoc, CurrentDoc(c)}
    /\ c.docs # <<>> /\ c.pending = -1 => \A v \in Layout(b) : Wished(c, w, v)

Fits(c, b) == c.pending = -1 /\ b.tabs = Indices(c)
Shown(c, b, w) == w \in {NoDoc, CurrentDoc(c)} /\ b.selected = c.current
QuietOK ==
    ctx.docs # <<>> =>
        /\ quiet >= 2 \/ (quiet >= 1 /\ stage \in {"keys", "views"}) => Fits(ctx, bar)
        /\ quiet >= 2 /\ stage \in {"keys", "views"} => Shown(ctx, bar, wanted)

TabsInv == Distinct(ctx) /\ bar \in BarType /\ AimOK(ctx, bar, wanted) /\ QuietOK

\* Where a layout lands.
LEMMA LayoutFacts ==
    ASSUME NEW b \in BarType
    PROVE  /\ Layout(b) \subseteq Int
           /\ b.tabs # {} => Layout(b) \subseteq b.tabs
           /\ b.next \in b.tabs => Layout(b) = {b.next}
           /\ b.next \notin b.tabs /\ b.selected \in b.tabs => Layout(b) = {b.selected}
<1> DEFINE known == Kept(b.recent, b.tabs)
<1>1. b.tabs \in SUBSET Nat /\ b.recent \in Seq(Int)
  BY DEF BarType
<1>2. known \in Seq(Int \cap b.tabs)
  BY <1>1, KeptElements
<1>3. Layout(b) = IF b.next \in b.tabs THEN {b.next}
                  ELSE IF b.selected \in b.tabs THEN {b.selected}
                  ELSE IF known # <<>> THEN {known[1]}
                  ELSE IF b.tabs # {} THEN b.tabs
                  ELSE {None}
  BY DEF Layout
<1> HIDE DEF known
<1>4. known # <<>> => known[1] \in b.tabs
  <2>1. known # <<>> => 1 \in 1..Len(known)
    BY <1>2, EmptySeq, LenProperties
  <2>2. QED  BY <1>2, <2>1, ElementOfSeq
<1>5. None \in Int
  BY DEF None
<1>6. QED  BY <1>1, <1>3, <1>4, <1>5

\* What a submission leaves behind.
LEMMA SubmitFacts ==
    ASSUME NEW b \in BarType, NEW n \in Nat, NEW visible \in Int, NEW p \in Int,
           NEW press \in Int, NEW close \in Int
    PROVE  /\ SubmitTabs(b, n, visible, p, press, close) \in BarType
           /\ SubmitTabs(b, n, visible, p, press, close).tabs = (0..(n - 1)) \ {close}
           /\ SubmitTabs(b, n, visible, p, press, close).selected =
                  IF close = visible THEN None ELSE visible
           /\ SubmitTabs(b, n, visible, p, press, close).next = QueuedTab(n, visible, p, press, close)
<1> DEFINE left == (0..(n - 1)) \ {close}
           r == Kept(<<visible>>, left) \o Kept(b.recent, left \ {visible})
           q == QueuedTab(n, visible, p, press, close)
           s == IF close = visible THEN None ELSE visible
<1>1. SubmitTabs(b, n, visible, p, press, close) =
          [tabs |-> left, selected |-> s, next |-> q, recent |-> r, up |-> TRUE]
  BY DEF SubmitTabs
<1>2. left \in SUBSET Nat
  OBVIOUS
<1>3. r \in Seq(Int)
  <2>1. <<visible>> \in Seq(Int) /\ b.recent \in Seq(Int)
    BY DEF BarType
  <2>2. Kept(<<visible>>, left) \in Seq(Int) /\ Kept(b.recent, left \ {visible}) \in Seq(Int)
    BY <2>1, KeptElements
  <2>3. QED  BY <2>2, ConcatProperties
<1>4. q \in Int /\ s \in Int
  BY DEF QueuedTab, None
<1> HIDE DEF left, r, q, s
<1>5. [tabs |-> left, selected |-> s, next |-> q, recent |-> r, up |-> TRUE] \in BarType
  BY <1>2, <1>3, <1>4 DEF BarType
<1>6. QED  BY <1>1, <1>5 DEF left, q, s

-----------------------------------------------------------------------------
Asked(c) == c.docs = <<>> \/ c.pending # -1

\* Opening, closing and cycling keep the documents apart and ask for a switch.
LEMMA OpenDistinct ==
    ASSUME NEW c, CtxOK(c), Distinct(c), NEW d \in Doc, \A i \in Indices(c) : DocAt(c, i) # d
    PROVE  Distinct(OpenDoc(c, d)) /\ Asked(OpenDoc(c, d))
<1> DEFINE k == OpenDoc(c, d)
           n == Len(c.docs)
<1>1. c.docs \in Seq(Doc) /\ n \in Nat
  BY IndexFacts DEF CtxOK, CtxType
<1>2. k.docs = Append(c.docs, d) /\ k.pending = n
  BY DEF OpenDoc, SelectIn
<1>3. Len(k.docs) = n + 1 /\ k.docs[n + 1] = d /\ \A i \in 1..n : k.docs[i] = c.docs[i]
  BY <1>1, <1>2, AppendProperties
<1>4. Asked(k)
  BY <1>1, <1>2 DEF Asked
<1> HIDE DEF k, n
<1>5. \A i \in 0..n : /\ i < n => i \in 0..(n - 1) /\ i + 1 \in 1..n
                      /\ ~(i < n) => i = n
  BY <1>1
<1>6. \A i \in Indices(k) : IF i < n THEN i \in Indices(c) /\ DocAt(k, i) = DocAt(c, i)
                            ELSE i = n /\ DocAt(k, i) = d
  <2>1. Indices(k) = 0..n /\ Indices(c) = 0..(n - 1)
    BY <1>1, <1>3 DEF Indices, n
  <2>2. QED  BY <1>3, <1>5, <2>1 DEF DocAt
<1>7. QED  BY <1>4, <1>6 DEF Distinct, k

LEMMA CloseDistinct ==
    ASSUME NEW c, CtxOK(c), Distinct(c), NEW i \in Int
    PROVE  Distinct(CloseDoc(c, i))
<1> DEFINE rest == RemoveAt(c.docs, i + 1)
           k == CloseDoc(c, i)
           n == Len(c.docs)
<1>1. CASE i \notin Indices(c)
  BY <1>1 DEF CloseDoc
<1>2. CASE i \in Indices(c)
  <2>1. c.docs \in Seq(Doc) /\ n \in Nat /\ 0 <= i /\ i < n
    BY <1>2, IndexFacts DEF CtxOK, CtxType
  <2>2. i + 1 \in 1..n
    BY <2>1
  <2>3. /\ Len(rest) = n - 1
        /\ \A j \in 1..(n - 1) : rest[j] = IF j < i + 1 THEN c.docs[j] ELSE c.docs[j + 1]
    BY <2>1, <2>2, RemoveAtFacts, RemoveAtElements
  <2>4. k.docs = rest
    BY <1>2 DEF CloseDoc, SelectIn
  <2> HIDE DEF rest, k, n
  <2>5. \A j \in 0..(n - 2) : /\ j + 1 \in 1..(n - 1) /\ j \in 0..(n - 1) /\ j + 1 \in 0..(n - 1)
                              /\ j \in Int /\ (j + 1 < i + 1 <=> j < i)
    BY <2>1
  <2>6. Indices(k) = 0..(n - 2) /\ Indices(c) = 0..(n - 1)
    BY <2>1, <2>3, <2>4 DEF Indices, n
  <2> DEFINE old(j) == IF j < i THEN j ELSE j + 1
  <2>7. \A j \in Indices(k) : old(j) \in Indices(c) /\ DocAt(k, j) = DocAt(c, old(j))
    BY <2>3, <2>4, <2>5, <2>6 DEF DocAt
  <2>8. \A j, l \in Indices(k) : old(j) = old(l) => j = l
    BY <2>1, <2>5, <2>6
  <2> HIDE DEF old
  <2>9. Distinct(k)
    BY <2>7, <2>8 DEF Distinct
  <2>10. QED  BY <2>9 DEF k
<1>3. QED  BY <1>1, <1>2

LEMMA CloseAsked ==
    ASSUME NEW c, CtxOK(c)
    PROVE  Asked(CloseCurrent(c))
<1> DEFINE rest == RemoveAt(c.docs, c.current + 1)
           n == Len(c.docs)
<1>1. c.current \in Int /\ n \in Nat /\ c.docs \in Seq(Doc)
  BY IndexFacts DEF CtxOK, CtxType
<1>2. CASE c.docs = <<>>
  BY <1>2 DEF CloseCurrent, Asked, CtxOK
<1>3. CASE c.docs # <<>>
  <2>1. c.current \in Indices(c) /\ 0 <= c.current /\ c.current < n
    BY <1>1, <1>3, IndexFacts DEF CtxOK
  <2>2. c.current + 1 \in 1..n
    BY <1>1, <2>1
  <2>3. rest \in Seq(Doc)
    BY <1>1, <2>2, RemoveAtFacts
  <2>4. Len(rest) \in Nat /\ (rest # <<>> => Len(rest) > 0)
    BY <2>3, EmptySeq, LenProperties
  <2>5. CloseCurrent(c) = IF rest = <<>> THEN [docs |-> rest, current |-> -1, pending |-> c.pending]
                          ELSE IF c.current >= Len(rest) THEN SelectIn(rest, Len(rest) - 1)
                          ELSE SelectIn(rest, IF c.current > 0 THEN c.current - 1 ELSE 0)
    BY <1>1, <2>1 DEF CloseCurrent, CloseDoc
  <2> HIDE DEF rest
  <2>6. QED  BY <1>1, <2>4, <2>5 DEF Asked, SelectIn
<1>4. QED  BY <1>2, <1>3

LEMMA CycleDistinct ==
    ASSUME NEW c, CtxOK(c), Distinct(c), NEW delta \in Int
    PROVE  Distinct(CycleDoc(c, delta)) /\ Asked(CycleDoc(c, delta))
<1> DEFINE n == Len(c.docs)
           j == (c.current + delta + n) % n
<1>1. CASE c.docs = <<>>
  BY <1>1 DEF CycleDoc, Asked
<1>2. CASE c.docs # <<>>
  <2>1. n \in Nat /\ n > 0 /\ c.current + delta + n \in Int
    BY <1>2, IndexFacts DEF CtxOK, CtxType
  <2>2. j \in 0..(n - 1)
    <3> HIDE DEF n
    <3>1. QED  BY <2>1, ModRange
  <2>3. CycleDoc(c, delta) = SelectIn(c.docs, j)
    BY <1>2 DEF CycleDoc
  <2>4. j # -1
    BY <2>1, <2>2
  <2> HIDE DEF j
  <2>5. QED  BY <2>3, <2>4 DEF SelectIn, Asked, Distinct, Indices, DocAt
<1>3. QED  BY <1>1, <1>2

\* A request leaves the current document wished for and a switch to it pending.
LEMMA AfterRequest ==
    ASSUME bar \in BarType, CtxOK(ctx'), Distinct(ctx'), Asked(ctx'), Request(ctx'), UNCHANGED bar
    PROVE  TabsInv'
<1>1. AimOK(ctx', bar', wanted')
  <2>1. ctx'.docs = <<>> => ctx'.current = -1 /\ Indices(ctx') = {}
    <3>1. Len(<<>>) = 0 /\ 0..(0 - 1) = {}
      OBVIOUS
    <3>2. QED  BY <3>1 DEF CtxOK, Indices
  <2>2. ctx'.docs = <<>> => CurrentDoc(ctx') = NoDoc
    BY <2>1 DEF CurrentDoc, HasDoc
  <2>3. QED  BY <2>2 DEF AimOK, Request, Asked
<1>2. quiet' = 0
  BY DEF Request
<1>3. QED  BY <1>1, <1>2 DEF TabsInv, QuietOK, AimOK, Distinct, Indices, DocAt

-----------------------------------------------------------------------------
\* The tab a frame without clicks shows, and what it queues for the next one.
LEMMA TabLoopFacts ==
    ASSUME CtxOK(ctx), ctx.docs # <<>>, NEW visible
    PROVE  /\ TabLoop(visible).docs = ctx.docs /\ TabLoop(visible).pending = -1
           /\ visible \in Indices(ctx) => TabLoop(visible).current = visible
           /\ visible \notin Indices(ctx) /\ visible # None => TabLoop(visible).current = ctx.current
BY DEF TabLoop, VisibleItem, Indices, None

\* A frame without clicks lands on what was wished for and fits the bar to the
\* documents; one that started with a fitting bar shows it.
LEMMA IdleFrame ==
    ASSUME CtxOK(ctx), ctx.docs # <<>>, bar \in BarType, AimOK(ctx, bar, wanted),
           NEW visible \in Layout(bar),
           bar' = SubmitTabs(bar, Len(ctx.docs), visible, ctx.pending, None, None),
           ctx' = TabLoop(visible)
    PROVE  /\ AimOK(ctx', bar', wanted)
           /\ Fits(ctx', bar')
           /\ Fits(ctx, bar) => Shown(ctx', bar', wanted)
<1> DEFINE n == Len(ctx.docs)
           p == ctx.pending
<1>0. /\ n \in Nat /\ n > 0 /\ ctx.current \in Indices(ctx) /\ p \in Int
      /\ p # -1 => p \in Indices(ctx) /\ CurrentDoc(ctx) = DocAt(ctx, p)
  BY IndexFacts DEF CtxOK, CtxType, CurrentDoc, HasDoc
<1>1. visible \in Int /\ None \in Int /\ None = -1 /\ None \notin Indices(ctx)
  BY LayoutFacts DEF None, Indices
<1>2. /\ ctx'.docs = ctx.docs /\ ctx'.pending = -1
      /\ visible \in Indices(ctx) => ctx'.current = visible
      /\ Indices(ctx') = Indices(ctx) /\ \A i : DocAt(ctx', i) = DocAt(ctx, i)
  BY TabLoopFacts DEF Indices, DocAt
<1>3. QueuedTab(n, visible, p, None, None) = IF p \in Indices(ctx) /\ p # visible THEN p ELSE None
  BY DEF QueuedTab, Indices
<1>4. /\ bar' \in BarType /\ bar'.tabs = Indices(ctx)
      /\ bar'.selected = IF None = visible THEN None ELSE visible
      /\ bar'.next = IF p \in Indices(ctx) /\ p # visible THEN p ELSE None
  <2>1. /\ bar' \in BarType /\ bar'.tabs = (0..(n - 1)) \ {None}
        /\ bar'.selected = IF None = visible THEN None ELSE visible
        /\ bar'.next = QueuedTab(n, visible, p, None, None)
    <3> HIDE DEF n, p
    <3>1. QED  BY <1>0, <1>1, SubmitFacts DEF n, p
  <2>2. (0..(n - 1)) \ {None} = Indices(ctx)
    BY <1>1 DEF Indices
  <2>3. QED  BY <1>3, <2>1, <2>2
<1>5. bar'.selected = visible
  BY <1>4
<1>6. ASSUME wanted # NoDoc, NEW v \in Layout(bar') PROVE Wished(ctx', wanted, v)
  <2>1. CASE p # -1
    <3>1. p \in Indices(ctx) /\ wanted = DocAt(ctx, p)
      BY <1>0, <1>6, <2>1 DEF AimOK
    <3>2. Layout(bar') = {p}
      <4>1. CASE p # visible
        BY <1>4, <3>1, <4>1, LayoutFacts
      <4>2. CASE p = visible
        BY <1>1, <1>4, <1>5, <3>1, <4>2, LayoutFacts
      <4>3. QED  BY <4>1, <4>2
    <3>3. QED  BY <1>2, <1>6, <3>1, <3>2 DEF Wished
  <2>2. CASE p = -1
    <3>1. visible \in Indices(ctx) /\ wanted = DocAt(ctx, visible)
      BY <1>6, <2>2 DEF AimOK, Wished
    <3>2. bar'.next = None
      BY <1>1, <1>4, <2>2
    <3>3. Layout(bar') = {visible}
      BY <1>1, <1>4, <1>5, <3>1, <3>2, LayoutFacts
    <3>4. QED  BY <1>2, <1>6, <3>1, <3>3 DEF Wished
  <2>3. QED  BY <2>1, <2>2
<1>7. AimOK(ctx', bar', wanted)
  BY <1>2, <1>6 DEF AimOK, Wished
<1>8. Fits(ctx', bar')
  BY <1>2, <1>4 DEF Fits
<1>9. ASSUME Fits(ctx, bar) PROVE Shown(ctx', bar', wanted)
  <2>1. bar.tabs = Indices(ctx) /\ bar.tabs # {} /\ p = -1
    BY <1>0, <1>9 DEF Fits
  <2>2. visible \in Indices(ctx)
    BY <2>1, LayoutFacts
  <2>3. ctx'.current = visible /\ CurrentDoc(ctx') = DocAt(ctx, visible)
    BY <1>2, <2>2 DEF CurrentDoc, HasDoc
  <2>4. wanted \in {NoDoc, DocAt(ctx, visible)}
    BY <2>1 DEF AimOK, Wished
  <2>5. QED  BY <1>5, <2>3, <2>4 DEF Shown
<1>10. QED  BY <1>7, <1>8, <1>9

\* A press is what the next layout lands on.
LEMMA PressFrame ==
    ASSUME CtxOK(ctx), ctx.docs # <<>>, bar \in BarType, NEW visible \in Layout(bar),
           NEW press \in Indices(ctx),
           bar' = SubmitTabs(bar, Len(ctx.docs), visible, ctx.pending, press, None),
           ctx' = TabLoop(visible), wanted' = DocAt(ctx, bar'.next)
    PROVE  AimOK(ctx', bar', wanted')
<1> DEFINE n == Len(ctx.docs)
<1>0. n \in Nat /\ ctx.pending \in Int /\ press \in Int
  BY IndexFacts DEF CtxOK, CtxType, Indices
<1>1. visible \in Int /\ None \in Int /\ None = -1
  BY LayoutFacts DEF None
<1>2. /\ ctx'.docs = ctx.docs /\ ctx'.pending = -1
      /\ Indices(ctx') = Indices(ctx) /\ \A i : DocAt(ctx', i) = DocAt(ctx, i)
  BY TabLoopFacts DEF Indices, DocAt
<1>3. /\ bar' \in BarType /\ bar'.tabs = (0..(n - 1)) \ {None}
      /\ bar'.next = QueuedTab(n, visible, ctx.pending, press, None)
  <2> HIDE DEF n
  <2>1. QED  BY <1>0, <1>1, SubmitFacts DEF n
<1>4. bar'.next \in 0..(n - 1)
  <2>1. press \in 0..(n - 1)
    BY DEF Indices
  <2> HIDE DEF n
  <2>2. QED  BY <1>0, <1>3, <2>1, QueuedInRange
<1>5. bar'.next \in bar'.tabs /\ bar'.next \in Indices(ctx)
  BY <1>1, <1>3, <1>4 DEF Indices
<1>6. Layout(bar') = {bar'.next}
  BY <1>3, <1>5, LayoutFacts
<1>7. QED  BY <1>2, <1>5, <1>6 DEF AimOK, Wished

\* What the user sees after a tab is closed with its cross: any other document
\* they had asked for, or the one that takes the closed one's place.
LEMMA CloseFrame ==
    ASSUME CtxOK(ctx), ctx.docs # <<>>, Distinct(ctx), bar \in BarType,
           AimOK(ctx, bar, wanted), wanted \in Doc \cup {NoDoc},
           NEW visible \in Layout(bar), NEW close \in Indices(ctx),
           bar' = SubmitTabs(bar, Len(ctx.docs), visible, ctx.pending, None, close),
           ctx' = CloseDoc(TabLoop(visible), close),
           wanted' = IF ctx.pending \notin {-1, visible} THEN NoDoc
                     ELSE IF wanted = DocAt(ctx, close) THEN CurrentDoc(ctx')
                     ELSE wanted
    PROVE  AimOK(ctx', bar', wanted')
<1> DEFINE n == Len(ctx.docs)
           t == TabLoop(visible)
<1>0. /\ n \in Nat /\ ctx.pending \in Int /\ close \in Int /\ close # -1
      /\ DocAt(ctx, close) \in Doc /\ ctx.current \in Indices(ctx)
  BY IndexFacts DEF CtxOK, CtxType, Indices
<1>1. visible \in Int /\ None \in Int /\ None = -1
  BY LayoutFacts DEF None
<1>2. /\ t.docs = ctx.docs /\ t.pending = -1 /\ CtxOK(t)
      /\ visible \in Indices(ctx) => t.current = visible
      /\ Indices(t) = Indices(ctx) /\ \A i : DocAt(t, i) = DocAt(ctx, i)
  BY TabLoopFacts, TabLoopOK DEF Indices, DocAt
<1> HIDE DEF t
<1>3. CtxOK(ctx')
  BY <1>0, <1>2, CloseOK DEF t
<1>4. ctx'.docs = <<>> => CurrentDoc(ctx') = NoDoc
  <2>1. ASSUME ctx'.docs = <<>> PROVE Indices(ctx') = {}
    <3>1. Len(<<>>) = 0 /\ 0..(0 - 1) = {}
      OBVIOUS
    <3>2. QED  BY <2>1, <3>1 DEF Indices
  <2>2. QED  BY <2>1 DEF CurrentDoc, HasDoc
\* The user still wants something: it is the visible document.
<1>5. ASSUME ctx.pending \in {-1, visible}, wanted # NoDoc
      PROVE  visible \in Indices(ctx) /\ wanted = DocAt(ctx, visible)
  <2>1. CASE ctx.pending = -1
    BY <1>5, <2>1 DEF AimOK, Wished
  <2>2. CASE ctx.pending # -1
    <3>1. wanted = CurrentDoc(ctx) /\ ctx.pending = visible /\ ctx.pending = ctx.current
      BY <1>5, <2>2 DEF AimOK, CtxOK
    <3>2. QED  BY <1>0, <3>1 DEF CurrentDoc, HasDoc
  <2>3. QED  BY <2>1, <2>2
<1>6. \/ ctx'.docs = <<>> \/ ctx'.pending # -1
      \/ close > t.current /\ ctx'.current = t.current
  <2> DEFINE rest == RemoveAt(t.docs, close + 1)
  <2>1. t.current \in Int /\ Indices(t) = 0..(n - 1) /\ 0 <= t.current
    BY <1>0, <1>2 DEF CtxOK, CtxType, Indices
  <2>2. ctx' = CloseDoc(t, close)
    BY DEF t
  <2>3. close + 1 \in 1..n /\ t.docs \in Seq(Doc) /\ n = Len(t.docs)
    BY <1>0, <1>2 DEF Indices, CtxOK, CtxType
  <2>4. rest \in Seq(Doc)
    BY <2>3, RemoveAtFacts
  <2>5. Len(rest) \in Nat /\ (rest # <<>> => Len(rest) > 0)
    BY <2>4, EmptySeq, LenProperties
  <2>6. ctx' = IF rest = <<>> THEN [docs |-> rest, current |-> -1, pending |-> t.pending]
               ELSE IF t.current >= Len(rest) THEN SelectIn(rest, Len(rest) - 1)
               ELSE IF close <= t.current
               THEN SelectIn(rest, IF t.current > 0 THEN t.current - 1 ELSE 0)
               ELSE [docs |-> rest, current |-> t.current, pending |-> t.pending]
    BY <1>2, <2>2 DEF CloseDoc
  <2> HIDE DEF rest
  <2>7. CASE rest = <<>>
    BY <2>6, <2>7
  <2>8. CASE rest # <<>> /\ t.current >= Len(rest)
    BY <2>5, <2>6, <2>8 DEF SelectIn
  <2>9. CASE rest # <<>> /\ ~(t.current >= Len(rest)) /\ close <= t.current
    BY <2>1, <2>6, <2>9 DEF SelectIn
  <2>10. CASE rest # <<>> /\ ~(t.current >= Len(rest)) /\ ~(close <= t.current)
    BY <1>0, <2>1, <2>6, <2>10
  <2>11. QED  BY <2>7, <2>8, <2>9, <2>10
<1>7. CASE wanted' = NoDoc
  BY <1>7 DEF AimOK, Wished
<1>8. ASSUME wanted' # NoDoc
      PROVE  ctx.pending \in {-1, visible} /\ wanted # NoDoc /\ wanted' = CurrentDoc(ctx')
  <2>1. ctx.pending \in {-1, visible}
    BY <1>8
  <2>2. CASE wanted = DocAt(ctx, close)
    <3>1. wanted # NoDoc
      BY <1>0, <2>2, DocAssumption
    <3>2. visible = close
      BY <1>5, <2>1, <2>2, <3>1 DEF Distinct
    <3>3. QED  BY <2>1, <2>2, <3>1, <3>2
  <2>3. CASE wanted # DocAt(ctx, close)
    <3>1. wanted' = wanted
      BY <2>1, <2>3
    <3>2. visible \in Indices(ctx) /\ wanted = DocAt(ctx, visible)
      BY <1>5, <1>8, <2>1, <3>1
    <3>3. close # visible /\ t.current = visible
      BY <1>2, <2>3, <3>2
    <3>4. CurrentDoc(ctx') = DocAt(t, t.current)
      BY <1>2, <3>3, CloseOther DEF t
    <3>5. QED  BY <1>2, <1>8, <2>1, <3>1, <3>2, <3>3, <3>4
  <2>4. QED  BY <2>2, <2>3
\* Nothing pending: the visible tab was left of the closed one and stays.
<1>9. ASSUME wanted' # NoDoc, ctx'.docs # <<>>, ctx'.pending = -1, NEW v \in Layout(bar')
      PROVE  Wished(ctx', wanted', v)
  <2>1. visible \in Indices(ctx) /\ t.current = visible
    BY <1>2, <1>5, <1>8, <1>9
  <2>2. close > t.current /\ ctx'.current = t.current
    BY <1>6, <1>9
  <2>3. close > visible /\ close # visible
    BY <1>0, <1>1, <2>1, <2>2
  <2>4. /\ bar' \in BarType /\ bar'.tabs = (0..(n - 1)) \ {close} /\ bar'.selected = visible
        /\ bar'.next = QueuedTab(n, visible, ctx.pending, None, close)
    <3> HIDE DEF n
    <3>1. QED  BY <1>0, <1>1, <2>3, SubmitFacts DEF n
  <2>5. QueuedTab(n, visible, ctx.pending, None, close) = None
    <3>1. ctx.pending \in {-1, visible}
      BY <1>8, <1>9
    <3>2. ~(ctx.pending \in 0..(n - 1) /\ ctx.pending # visible)
      BY <3>1
    <3>3. QED  BY <2>3, <3>2 DEF QueuedTab
  <2>6. visible \in bar'.tabs /\ None \notin bar'.tabs
    BY <1>1, <2>1, <2>3, <2>4 DEF Indices
  <2>7. v = visible
    BY <1>9, <2>4, <2>5, <2>6, LayoutFacts
  <2>8. ctx'.current = visible
    BY <2>1, <2>2
  <2>9. visible \in Indices(ctx')
    BY <1>3, <1>9, <2>8 DEF CtxOK
  <2>10. wanted' = DocAt(ctx', visible)
    BY <1>8, <1>9, <2>8, <2>9 DEF CurrentDoc, HasDoc
  <2>11. QED  BY <2>7, <2>9, <2>10 DEF Wished
<1>10. CASE wanted' # NoDoc
  BY <1>4, <1>8, <1>9, <1>10 DEF AimOK
<1>11. QED  BY <1>7, <1>10

LEMMA TabsInit == Init => TabsInv
<1> SUFFICES ASSUME Init PROVE TabsInv
  OBVIOUS
<1>0. Len(<<>>) = 0 /\ 0..(0 - 1) = {}
  OBVIOUS
<1>1. CtxOK(NoDocs) /\ Distinct(NoDocs) /\ Indices(NoDocs) = {} /\ Asked(NoDocs)
  BY <1>0, EmptySeq DEF CtxOK, CtxType, NoDocs, Distinct, Indices, Asked
<1>2. CtxOK(ctx) /\ Distinct(ctx) /\ Asked(ctx)
  BY <1>1, OpenOK, OpenDistinct DEF Init
<1>3. bar \in BarType
  BY EmptySeq DEF Init, NoTabs, None, BarType
<1>4. ctx.docs = <<>> => CurrentDoc(ctx) = NoDoc
  <2>1. ctx.docs = <<>> => Indices(ctx) = {}
    BY <1>0 DEF Indices
  <2>2. QED  BY <2>1 DEF CurrentDoc, HasDoc
<1>5. AimOK(ctx, bar, wanted)
  BY <1>2, <1>4 DEF Init, AimOK, Asked
<1>6. QED  BY <1>2, <1>3, <1>5 DEF TabsInv, QuietOK, Init

\* What is closed has no tab.
LEMMA ClosedFacts ==
    ASSUME CtxOK(ctx), NEW d \in Closed
    PROVE  d \in Doc /\ \A i \in Indices(ctx) : DocAt(ctx, i) # d
<1>1. Len(ctx.docs) \in Nat
  BY IndexFacts DEF CtxOK
<1>2. \A i \in Indices(ctx) : i + 1 \in 1..Len(ctx.docs)
  BY <1>1 DEF Indices
<1>3. QED  BY <1>2 DEF Closed, IsOpen, DocAt

LEMMA TabsStepOK == IInv /\ TabsInv /\ [Next]_vars => TabsInv'
<1> SUFFICES ASSUME IInv, TabsInv, [Next]_vars PROVE TabsInv'
  OBVIOUS
<1>0. /\ CtxOK(ctx) /\ stage \in Stage /\ wanted \in Doc \cup {NoDoc} /\ quiet \in 0..Calm
      /\ Distinct(ctx) /\ bar \in BarType /\ AimOK(ctx, bar, wanted) /\ quiet \in Nat
  <2>1. CtxOK(ctx) /\ stage \in Stage /\ wanted \in Doc \cup {NoDoc} /\ quiet \in 0..Calm
    BY IInvCtx
  <2>2. QED  BY <2>1, CalmAssumption DEF TabsInv
<1>1. CtxOK(ctx')
  BY StepOK, IInvCtxNext
<1>r. ASSUME Distinct(ctx'), Asked(ctx'), Request(ctx'), UNCHANGED bar PROVE TabsInv'
  BY <1>0, <1>1, <1>r, AfterRequest
\* Nothing moves but the stage, and not past the host window.
<1>n. ASSUME UNCHANGED <<ctx, bar>>, NoRequest, stage' \in {"keys", "views"} => stage \in {"keys", "views"}
      PROVE  TabsInv'
  BY <1>n DEF NoRequest, TabsInv, QuietOK, AimOK, Wished, Distinct, Indices, DocAt, Fits, Shown,
              CurrentDoc, HasDoc, Layout
<1>2. ASSUME NEW d \in Closed, DropFile(d) \/ MenuOpen(d) PROVE TabsInv'
  <2>1. Distinct(OpenDoc(ctx, d)) /\ Asked(OpenDoc(ctx, d))
    BY <1>0, ClosedFacts, OpenDistinct
  <2>2. QED  BY <1>2, <1>r, <2>1 DEF DropFile, MenuOpen
<1>3. CASE DropsDone \/ MenuIdle \/ KeysIdle
  BY <1>3, <1>n DEF DropsDone, MenuIdle, KeysIdle
<1>4. CASE MenuClose
  <2>1. ctx.current \in Int
    BY <1>0 DEF CtxOK, CtxType
  <2>2. Distinct(CloseCurrent(ctx)) /\ Asked(CloseCurrent(ctx))
    BY <1>0, <2>1, CloseDistinct, CloseAsked DEF CloseCurrent
  <2>3. QED  BY <1>4, <1>r, <2>2 DEF MenuClose
<1>5. CASE HostEmpty
  <2>1. bar' \in BarType
    BY <1>0, <1>5 DEF HostEmpty, BarType
  <2>2. wanted' = NoDoc /\ ctx' = ctx /\ ctx.docs = <<>>
    BY <1>0, <1>5 DEF HostEmpty, NoRequest, AimOK
  <2>3. QED  BY <1>0, <2>1, <2>2 DEF TabsInv, QuietOK, AimOK, Distinct, Indices, DocAt
<1>6. ASSUME NEW visible, NEW press, NEW close, Host(visible, press, close)
      PROVE  TabsInv'
  <2> DEFINE n == Len(ctx.docs)
             t == TabLoop(visible)
  <2>1. /\ visible \in Layout(bar) /\ ctx.docs # <<>> /\ stage' = "keys"
        /\ bar' = SubmitTabs(bar, n, visible, ctx.pending, press, close)
        /\ ctx' = CloseDoc(t, close)
        /\ press \in {None} \cup Indices(ctx) /\ close \in {None} \cup Indices(ctx)
        /\ press = None \/ close = None
    BY <1>6 DEF Host
  <2>2. /\ n \in Nat /\ ctx.pending \in Int /\ visible \in Int /\ press \in Int /\ close \in Int
    BY <1>0, <2>1, IndexFacts, LayoutFacts DEF CtxOK, CtxType, None, Indices
  <2>3. bar' \in BarType
    <3> HIDE DEF n
    <3>1. QED  BY <1>0, <2>1, <2>2, SubmitFacts
  <2>4. /\ t.docs = ctx.docs /\ CtxOK(t) /\ Indices(t) = Indices(ctx) /\ Distinct(t)
        /\ None \notin Indices(ctx)
    BY <1>0, <2>1, TabLoopFacts, TabLoopOK DEF Indices, DocAt, Distinct, None
  <2> HIDE DEF t
  <2>5. Distinct(ctx')
    BY <2>1, <2>2, <2>4, CloseDistinct
  <2>6. close = None => ctx' = t
    BY <2>1, <2>4 DEF CloseDoc
  <2>7. ASSUME AimOK(ctx', bar', wanted'), quiet' = 0 PROVE TabsInv'
    <3>1. QuietOK'
      BY <2>7 DEF QuietOK
    <3>2. QED  BY <2>3, <2>5, <2>7, <3>1 DEF TabsInv, AimOK, Wished, Distinct, Indices, DocAt
  <2>8. CASE press # None
    <3>1. close = None /\ press \in Indices(ctx) /\ wanted' = DocAt(ctx, bar'.next) /\ quiet' = 0
      BY <1>6, <2>1, <2>8 DEF Host
    <3>2. AimOK(ctx', bar', wanted')
      BY <1>0, <2>1, <2>6, <3>1, PressFrame DEF t
    <3>3. QED  BY <2>7, <3>1, <3>2
  <2>9. CASE press = None /\ close # None
    <3>1. /\ close \in Indices(ctx) /\ quiet' = 0
          /\ wanted' = IF ctx.pending \notin {-1, visible} THEN NoDoc
                       ELSE IF wanted = DocAt(ctx, close) THEN CurrentDoc(ctx')
                       ELSE wanted
      BY <1>6, <2>1, <2>9 DEF Host
    <3>2. AimOK(ctx', bar', wanted')
      BY <1>0, <2>1, <2>9, <3>1, CloseFrame DEF t
    <3>3. QED  BY <2>7, <3>1, <3>2
  <2>10. CASE press = None /\ close = None
    <3>1. wanted' = wanted /\ quiet' = quiet /\ stage = "host"
      BY <1>6, <2>10 DEF Host, NoRequest
    <3>2. /\ AimOK(ctx', bar', wanted) /\ Fits(ctx', bar')
          /\ Fits(ctx, bar) => Shown(ctx', bar', wanted)
      BY <1>0, <2>1, <2>6, <2>10, IdleFrame DEF t
    <3>3. quiet >= 2 => Fits(ctx, bar)
      BY <2>1 DEF TabsInv, QuietOK
    <3>4. QuietOK'
      BY <3>1, <3>2, <3>3 DEF QuietOK, Fits, Shown, Indices, CurrentDoc, HasDoc, DocAt
    <3>5. QED  BY <2>3, <2>5, <3>1, <3>2, <3>4 DEF TabsInv, AimOK, Wished, Distinct, Indices, DocAt
  <2>11. QED  BY <2>8, <2>9, <2>10
<1>7. ASSUME NEW opened \in Closed \cup {NoDoc}, NEW close \in BOOLEAN, NEW delta \in {-1, 0, 1},
             opened # NoDoc \/ close \/ delta # 0, Keys(opened, close, delta)
      PROVE  TabsInv'
  <2> DEFINE c1 == IF opened = NoDoc THEN ctx ELSE OpenDoc(ctx, opened)
             c2 == IF close THEN CloseCurrent(c1) ELSE c1
             c3 == IF delta = 0 THEN c2 ELSE CycleDoc(c2, delta)
  <2>1. CtxOK(c1) /\ Distinct(c1) /\ (opened # NoDoc => Asked(c1))
    BY <1>0, ClosedFacts, OpenOK, OpenDistinct
  <2> HIDE DEF c1
  <2>2. CtxOK(c2) /\ Distinct(c2) /\ (opened # NoDoc \/ close => Asked(c2))
    <3>1. c1.current \in Int
      BY <2>1 DEF CtxOK, CtxType
    <3>2. QED  BY <2>1, <3>1, CloseCurrentOK, CloseDistinct, CloseAsked DEF CloseCurrent
  <2> HIDE DEF c2
  <2>3. Distinct(c3) /\ Asked(c3)
    BY <1>7, <2>2, CycleDistinct
  <2>4. ctx' = c3 /\ Request(ctx') /\ UNCHANGED bar
    BY <1>7 DEF Keys, c1, c2
  <2>5. QED  BY <1>r, <2>3, <2>4
<1>8. CASE EndFrame
  <2>1. /\ ctx' = ctx /\ bar' = bar /\ wanted' = wanted /\ stage = "views" /\ stage' = "drops"
        /\ quiet' >= 2 => quiet >= 1
    BY <1>0, <1>8, CalmAssumption DEF EndFrame
  <2>2. QuietOK'
    BY <2>1 DEF TabsInv, QuietOK, Fits, Indices
  <2>3. QED  BY <2>1, <2>2 DEF TabsInv, AimOK, Wished, Distinct, Indices, DocAt, CurrentDoc, HasDoc, Layout
<1>9. CASE UNCHANGED vars
  BY <1>9, <1>n DEF vars, NoRequest
<1>10. QED
  BY <1>2, <1>3, <1>4, <1>5, <1>6, <1>7, <1>8, <1>9 DEF Next

\* Two frames after the last request the document on screen is the one asked
\* for and its tab the selected one, for any number of documents and whatever
\* was opened, closed, clicked and cycled before.
THEOREM SettlesCorrect == Spec => []Settles
<1>1. TabsInv => Settles
  BY DEF TabsInv, QuietOK, AimOK, Shown, Settles
<1>2. QED  BY <1>1, TabsInit, TabsStepOK, Inductive, PTL DEF Spec
=============================================================================
