-------------------------- MODULE NavigationProofs --------------------------
(***************************************************************************)
(* Theorems about analysis::Navigation, for any address set and any depth. *)
(***************************************************************************)
EXTENDS Navigation, SequenceTheorems, TLAPS

NavType == [back : Seq(Place), forward : Seq(Place), current : Addr \cup {NoAddr}]

\* Pushing an address on a stack of places gives a stack of places: the
\* sentinel is filtered out.
LEMMA PushPlaceType ==
    ASSUME NEW s \in Seq(Place), NEW a \in Addr \cup {NoAddr}
    PROVE  /\ PushPlace(s, a) \in Seq(Place)
           /\ a = NoAddr => PushPlace(s, a) = s
           /\ a # NoAddr => PushPlace(s, a) = Append(s, a)
BY DEF PushPlace, Place

\* What popping a non-empty stack yields.
LEMMA PopFacts ==
    ASSUME NEW S, NEW s \in Seq(S), s # <<>>
    PROVE  /\ Len(s) \in Nat /\ Len(s) > 0
           /\ Front(s) \in Seq(S)
           /\ Len(Front(s)) = Len(s) - 1
           /\ \A i \in 1..(Len(s) - 1) : Front(s)[i] = s[i]
           /\ Last(s) = s[Len(s)]
           /\ Last(s) \in S
<1>1. Len(s) \in Nat /\ Len(s) > 0
  BY LenProperties, EmptySeq
<1>2. Last(s) = s[Len(s)] /\ Last(s) \in S
  BY <1>1, ElementOfSeq DEF Last
<1>3. 1 \in Int /\ Len(s) - 1 \in Int /\ \A i \in 1..(Len(s) - 1) : s[i] \in S
  BY <1>1, ElementOfSeq
<1>4. /\ Front(s) \in Seq(S)
      /\ Len(Front(s)) = Len(s) - 1
      /\ \A i \in 1..(Len(s) - 1) : Front(s)[i] = s[i]
  <2> DEFINE n == Len(s) - 1
  <2>1. /\ SubSeq(s, 1, n) \in Seq(S)
        /\ Len(SubSeq(s, 1, n)) = IF 1 <= n THEN n - 1 + 1 ELSE 0
        /\ \A i \in 1..(n - 1 + 1) : SubSeq(s, 1, n)[i] = s[1 + i - 1]
    <3> HIDE DEF n
    <3> QED  BY <1>3, SubSeqProperties, n \in Int, \A i \in 1..n : s[i] \in S DEF n
  <2>2. Front(s) = SubSeq(s, 1, n) /\ n \in Nat
    BY <1>1 DEF Front
  <2>3. Len(Front(s)) = n
    <3> HIDE DEF n
    <3> QED  BY <2>1, <2>2
  <2>4. ASSUME NEW i \in 1..n PROVE Front(s)[i] = s[i]
    <3> HIDE DEF n
    <3>1. i \in 1..(n - 1 + 1) /\ 1 + i - 1 = i
      BY <2>2
    <3> QED  BY <2>1, <2>2, <3>1
  <2>5. QED  BY <2>1, <2>2, <2>3, <2>4
<1>5. QED  BY <1>1, <1>2, <1>4

\* The same for a stack of places: what comes off is never the sentinel.
LEMMA PopType ==
    ASSUME NEW s \in Seq(Place), s # <<>>
    PROVE  /\ Front(s) \in Seq(Place)
           /\ Last(s) \in Addr
           /\ Last(s) # NoAddr
BY PopFacts DEF Place

\* Every method maps a well-typed history to a well-typed history.
LEMMA MethodTypes ==
    ASSUME NEW n \in NavType, NEW a \in Addr \cup {NoAddr}
    PROVE  /\ NavEmpty \in NavType
           /\ NavGo(n, a) \in NavType
           /\ NavBack(n) \in NavType
           /\ NavForward(n) \in NavType
           /\ BackResult(n) \in Addr \cup {NoAddr}
           /\ ForwardResult(n) \in Addr \cup {NoAddr}
<1>1. NavEmpty \in NavType
  BY DEF NavEmpty, NavType
<1>2. NavGo(n, a) \in NavType
  BY PushPlaceType DEF NavGo, NavType
<1>3. NavBack(n) \in NavType
  BY PushPlaceType, PopType DEF NavBack, NavType, CanBack
<1>4. NavForward(n) \in NavType
  BY PushPlaceType, PopType DEF NavForward, NavType, CanForward
<1>5. BackResult(n) \in Addr \cup {NoAddr}
  BY PopType DEF BackResult, NavType, CanBack
<1>6. ForwardResult(n) \in Addr \cup {NoAddr}
  BY PopType DEF ForwardResult, NavType, CanForward
<1>7. QED  BY <1>1, <1>2, <1>3, <1>4, <1>5, <1>6

-----------------------------------------------------------------------------
\* Type correctness: the stacks hold only real addresses, even when go() is
\* handed the sentinel.
THEOREM TypeCorrect == Spec => []TypeOK
<1>1. Init => TypeOK
  BY MethodTypes DEF Init, TypeOK, NavEmpty
<1>2. TypeOK /\ [Next]_vars => TypeOK'
  <2> SUFFICES ASSUME TypeOK, [Next]_vars PROVE TypeOK'
    OBVIOUS
  <2>0. nav \in NavType /\ ret \in Addr \cup {NoAddr}
    BY DEF TypeOK, NavType
  <2>1. ASSUME NEW a \in Addr, Go(a) PROVE TypeOK'
    BY <2>0, <2>1, MethodTypes DEF Go, TypeOK, NavType
  <2>2. CASE Back
    BY <2>0, <2>2, MethodTypes DEF Back, TypeOK, NavType
  <2>3. CASE Forward
    BY <2>0, <2>3, MethodTypes DEF Forward, TypeOK, NavType
  <2>4. CASE Clear
    BY <2>0, <2>4, MethodTypes DEF Clear, TypeOK, NavType
  <2>5. CASE UNCHANGED vars
    BY <2>5 DEF vars, TypeOK
  <2>6. QED  BY <2>1, <2>2, <2>3, <2>4, <2>5 DEF Next
<1>3. QED  BY <1>1, <1>2, PTL DEF Spec

\* The sentinel is current only at the end of the history.
THEOREM NowhereCorrect == Spec => []NowhereIsLast
<1>1. Init => NowhereIsLast
  BY DEF Init, NowhereIsLast, NavEmpty
<1>2. TypeOK /\ NowhereIsLast /\ [Next]_vars => NowhereIsLast'
  <2> SUFFICES ASSUME TypeOK, NowhereIsLast, [Next]_vars PROVE NowhereIsLast'
    OBVIOUS
  <2>0. nav.back \in Seq(Place) /\ nav.forward \in Seq(Place)
    BY DEF TypeOK
  <2>1. ASSUME NEW a \in Addr, Go(a) PROVE NowhereIsLast'
    BY <2>1 DEF Go, NavGo, NowhereIsLast
  <2>2. CASE Back
    BY <2>0, <2>2, PopType DEF Back, NavBack, CanBack, NowhereIsLast
  <2>3. CASE Forward
    BY <2>0, <2>3, PopType DEF Forward, NavForward, CanForward, NowhereIsLast
  <2>4. CASE Clear
    BY <2>4 DEF Clear, NavEmpty, NowhereIsLast
  <2>5. CASE UNCHANGED vars
    BY <2>5 DEF vars, NowhereIsLast
  <2>6. QED  BY <2>1, <2>2, <2>3, <2>4, <2>5 DEF Next
<1>3. QED  BY <1>1, <1>2, TypeCorrect, PTL DEF Spec

\* Pushing the address being left keeps a stack free of repeats.
LEMMA FreshPush ==
    ASSUME NEW s \in Seq(Place), NEW c \in Place, NEW d, c # d, Fresh(s, c)
    PROVE  Fresh(Append(s, c), d)
<1> DEFINE t == Append(s, c)
<1>1. Len(s) \in Nat /\ Len(t) = Len(s) + 1 /\ t # <<>>
  BY AppendProperties, LenProperties
<1>2. (\A i \in 1..Len(s) : t[i] = s[i]) /\ t[Len(s) + 1] = c
  BY AppendProperties
<1>3. ASSUME NEW i \in 1..(Len(t) - 1) PROVE t[i] # t[i+1]
  <2>1. CASE i = Len(s)
    <3>1. s # <<>> /\ s[Len(s)] # c
      BY <1>1, <2>1, <1>3, EmptySeq DEF Fresh, Last
    <3>2. QED  BY <1>1, <1>2, <2>1, <3>1
  <2>2. CASE i # Len(s)
    <3>1. i \in 1..(Len(s) - 1) /\ i \in 1..Len(s) /\ i + 1 \in 1..Len(s)
      BY <1>1, <2>2
    <3>2. QED  BY <1>2, <3>1 DEF Fresh
  <2>3. QED  BY <2>1, <2>2
<1>4. Last(t) # d
  BY <1>1, <1>2 DEF Last
<1>5. QED  BY <1>3, <1>4 DEF Fresh

\* Popping leaves a stack free of repeats against the address popped.
LEMMA FreshPop ==
    ASSUME NEW s \in Seq(Place), s # <<>>, NEW c, Fresh(s, c)
    PROVE  Fresh(Front(s), Last(s)) /\ Last(s) # c
<1> DEFINE t == Front(s)
<1>1. /\ Len(s) \in Nat /\ Len(s) > 0 /\ Len(t) = Len(s) - 1
      /\ t \in Seq(Place)
      /\ \A i \in 1..(Len(s) - 1) : t[i] = s[i]
      /\ Last(s) = s[Len(s)]
  BY PopFacts
<1>2. ASSUME NEW i \in 1..(Len(t) - 1) PROVE t[i] # t[i+1]
  <2>1. i \in 1..(Len(s) - 1) /\ i + 1 \in 1..(Len(s) - 1)
    BY <1>1
  <2>2. QED  BY <1>1, <2>1 DEF Fresh
<1>3. ASSUME t # <<>> PROVE Last(t) # Last(s)
  <2>1. Len(t) > 0 /\ Len(t) \in Nat
    BY <1>1, <1>3, EmptySeq, LenProperties
  <2>2. Len(t) \in 1..(Len(s) - 1) /\ Len(t) + 1 = Len(s)
    BY <1>1, <2>1
  <2>3. Last(t) = s[Len(t)] /\ Last(s) = s[Len(t) + 1]
    BY <1>1, <2>2 DEF Last
  <2>4. QED  BY <2>2, <2>3 DEF Fresh
<1>4. QED  BY <1>2, <1>3 DEF Fresh

\* An empty stack has nothing to repeat.
LEMMA FreshEmpty == ASSUME NEW c PROVE Fresh(<<>>, c)
BY DEF Fresh

\* The inductive invariant behind NoRepeats: the sentinel is current only in
\* a history nothing was ever recorded in.
NoRepeatsInv == NoRepeats /\ (nav.current = NoAddr => nav = NavEmpty)

LEMMA NoRepeatsInductive == NoAddr \notin Addr => (Spec => []NoRepeatsInv)
<1> SUFFICES ASSUME NoAddr \notin Addr PROVE Spec => []NoRepeatsInv
  OBVIOUS
<1>1. Init => NoRepeatsInv
  BY FreshEmpty DEF Init, NoRepeatsInv, NoRepeats, NavEmpty
<1>2. TypeOK /\ NoRepeatsInv /\ [Next]_vars => NoRepeatsInv'
  <2> SUFFICES ASSUME TypeOK, NoRepeatsInv, [Next]_vars PROVE NoRepeatsInv'
    OBVIOUS
  <2>0. /\ nav.back \in Seq(Place) /\ nav.forward \in Seq(Place)
        /\ Fresh(nav.back, nav.current) /\ Fresh(nav.forward, nav.current)
        /\ nav.current = NoAddr => nav.back = <<>> /\ nav.forward = <<>>
        /\ nav.current # NoAddr => nav.current \in Place
    BY DEF TypeOK, NoRepeatsInv, NoRepeats, NavEmpty, Place
  <2>1. ASSUME NEW a \in Addr, Go(a) PROVE NoRepeatsInv'
    <3>1. a # NoAddr /\ nav'.current = a /\ nav'.forward = <<>>
      BY <2>1 DEF Go, NavGo
    <3>2. CASE a = nav.current
      <4>1. nav'.back = nav.back /\ nav'.current = nav.current
        BY <2>1, <3>2 DEF Go, NavGo
      <4>2. QED  BY <2>0, <3>1, <4>1, FreshEmpty DEF NoRepeatsInv, NoRepeats
    <3>3. CASE a # nav.current /\ nav.current = NoAddr
      <4>1. nav'.back = <<>>
        BY <2>0, <2>1, <3>3 DEF Go, NavGo, PushPlace
      <4>2. QED  BY <3>1, <4>1, FreshEmpty DEF NoRepeatsInv, NoRepeats
    <3>4. CASE a # nav.current /\ nav.current # NoAddr
      <4>1. nav'.back = Append(nav.back, nav.current)
        BY <2>1, <3>4 DEF Go, NavGo, PushPlace
      <4>2. Fresh(nav'.back, a)
        BY <2>0, <3>4, <4>1, FreshPush
      <4>3. QED  BY <3>1, <4>2, FreshEmpty DEF NoRepeatsInv, NoRepeats
    <3>5. QED  BY <3>2, <3>3, <3>4
  <2>2. CASE Back
    <3>1. CASE ~CanBack(nav)
      BY <2>2, <3>1 DEF Back, NavBack, NoRepeatsInv, NoRepeats
    <3>2. CASE CanBack(nav)
      <4>1. nav.back # <<>> /\ nav.current # NoAddr
        BY <2>0, <3>2 DEF CanBack
      <4>2. /\ nav'.back = Front(nav.back)
            /\ nav'.forward = Append(nav.forward, nav.current)
            /\ nav'.current = Last(nav.back)
        BY <2>2, <3>2, <4>1 DEF Back, NavBack, PushPlace
      <4>3. /\ Fresh(nav'.back, nav'.current)
            /\ nav'.current # nav.current /\ nav'.current # NoAddr
        BY <2>0, <4>1, <4>2, FreshPop, PopType
      <4>4. Fresh(nav'.forward, nav'.current)
        BY <2>0, <4>1, <4>2, <4>3, FreshPush
      <4>5. QED  BY <4>3, <4>4 DEF NoRepeatsInv, NoRepeats
    <3>3. QED  BY <3>1, <3>2
  <2>3. CASE Forward
    <3>1. CASE ~CanForward(nav)
      BY <2>3, <3>1 DEF Forward, NavForward, NoRepeatsInv, NoRepeats
    <3>2. CASE CanForward(nav)
      <4>1. nav.forward # <<>> /\ nav.current # NoAddr
        BY <2>0, <3>2 DEF CanForward
      <4>2. /\ nav'.forward = Front(nav.forward)
            /\ nav'.back = Append(nav.back, nav.current)
            /\ nav'.current = Last(nav.forward)
        BY <2>3, <3>2, <4>1 DEF Forward, NavForward, PushPlace
      <4>3. /\ Fresh(nav'.forward, nav'.current)
            /\ nav'.current # nav.current /\ nav'.current # NoAddr
        BY <2>0, <4>1, <4>2, FreshPop, PopType
      <4>4. Fresh(nav'.back, nav'.current)
        BY <2>0, <4>1, <4>2, <4>3, FreshPush
      <4>5. QED  BY <4>3, <4>4 DEF NoRepeatsInv, NoRepeats
    <3>3. QED  BY <3>1, <3>2
  <2>4. CASE Clear
    BY <2>4, FreshEmpty DEF Clear, NavEmpty, NoRepeatsInv, NoRepeats
  <2>5. CASE UNCHANGED vars
    BY <2>5 DEF vars, NoRepeatsInv, NoRepeats
  <2>6. QED  BY <2>1, <2>2, <2>3, <2>4, <2>5 DEF Next
<1>3. QED  BY <1>1, <1>2, TypeCorrect, PTL DEF Spec

\* With the sentinel kept out of go(), neighbouring places of the history
\* always differ.
THEOREM NoRepeatsCorrect == NoAddr \notin Addr => (Spec => []NoRepeats)
<1>1. NoRepeatsInv => NoRepeats
  BY DEF NoRepeatsInv
<1>2. QED  BY <1>1, NoRepeatsInductive, PTL

\* So every back() or forward() that returns an address moves the view.
THEOREM ReturnMovesCorrect == NoAddr \notin Addr => (Spec => ReturnMoves)
<1> SUFFICES ASSUME NoAddr \notin Addr PROVE Spec => ReturnMoves
  OBVIOUS
<1>1. TypeOK /\ NoRepeatsInv /\ [Next]_vars =>
        [(Back \/ Forward) /\ ret' # NoAddr =>
            nav'.current = ret' /\ nav'.current # nav.current]_vars
  <2> SUFFICES ASSUME TypeOK, NoRepeatsInv, Back \/ Forward, ret' # NoAddr
               PROVE  nav'.current = ret' /\ nav'.current # nav.current
    OBVIOUS
  <2>1. CASE Back
    BY <2>1, FreshPop
    DEF Back, NavBack, BackResult, CanBack, TypeOK, NoRepeatsInv, NoRepeats
  <2>2. CASE Forward
    BY <2>2, FreshPop
    DEF Forward, NavForward, ForwardResult, CanForward, TypeOK, NoRepeatsInv, NoRepeats
  <2>3. QED  BY <2>1, <2>2
<1>2. QED  BY <1>1, NoRepeatsInductive, TypeCorrect, PTL DEF Spec, ReturnMoves

-----------------------------------------------------------------------------
(* Refinement of History.  A trail is the pushed back stack followed by the *)
(* forward stack upside down, and is compared place by place.               *)

LEMMA ReverseFacts ==
    ASSUME NEW S, NEW s \in Seq(S)
    PROVE  /\ Reverse(s) \in Seq(S)
           /\ Len(Reverse(s)) = Len(s)
           /\ \A i \in 1..Len(s) : Reverse(s)[i] = s[Len(s) - i + 1]
<1>1. Len(s) \in Nat
  BY LenProperties
<1>2. \A i \in 1..Len(s) : Len(s) - i + 1 \in 1..Len(s)
  BY <1>1
<1>3. \A i \in 1..Len(s) : s[Len(s) - i + 1] \in S
  BY <1>2, ElementOfSeq
<1>4. Reverse(s) = [i \in 1..Len(s) |-> s[Len(s) - i + 1]]
  BY DEF Reverse
<1>5. QED  BY <1>1, <1>3, <1>4

\* Reversing after a push puts the pushed place first.
LEMMA ReverseAppend ==
    ASSUME NEW S, NEW s \in Seq(S), NEW x \in S
    PROVE  Reverse(Append(s, x)) = <<x>> \o Reverse(s)
<1> DEFINE t == Append(s, x)
           u == Reverse(t)
           r == Reverse(s)
           v == <<x>> \o r
           k == Len(s)
<1>1. /\ k \in Nat /\ t \in Seq(S) /\ Len(t) = k + 1
      /\ \A i \in 1..k : t[i] = s[i]
      /\ t[k + 1] = x
  BY AppendProperties, LenProperties
<1>2. r \in Seq(S) /\ Len(r) = k /\ \A i \in 1..k : r[i] = s[k - i + 1]
  BY ReverseFacts
<1>3. u \in Seq(S) /\ Len(u) = Len(t) /\ \A i \in 1..Len(t) : u[i] = t[Len(t) - i + 1]
  BY <1>1, ReverseFacts
<1>4. <<x>> \in Seq(S) /\ Len(<<x>>) = 1 /\ <<x>>[1] = x
  OBVIOUS
<1> HIDE DEF t, u, r, k
<1>5. /\ v \in Seq(S) /\ Len(v) = 1 + k
      /\ \A i \in 1..(1 + k) : v[i] = IF i <= 1 THEN x ELSE r[i - 1]
  <2>1. /\ v \in Seq(S) /\ Len(v) = Len(<<x>>) + Len(r)
        /\ \A i \in 1..(Len(<<x>>) + Len(r)) :
               v[i] = IF i <= Len(<<x>>) THEN <<x>>[i] ELSE r[i - Len(<<x>>)]
    BY <1>2, <1>4, ConcatProperties
  <2> HIDE DEF v
  <2>2. QED  BY <1>1, <1>2, <1>4, <2>1
<1> HIDE DEF v
<1>6. ASSUME NEW i \in 1..Len(u) PROVE u[i] = v[i]
  <2>0. i \in 1..(k + 1) /\ u[i] = t[k + 1 - i + 1]
    BY <1>1, <1>3
  <2>1. CASE i = 1
    <3>1. k + 1 - i + 1 = k + 1
      BY <1>1, <2>1
    <3>2. QED  BY <1>1, <1>5, <2>0, <2>1, <3>1
  <2>2. CASE i # 1
    <3>1. k + 1 - i + 1 \in 1..k /\ i - 1 \in 1..k /\ ~(i <= 1) /\ i \in 1..(1 + k)
      BY <1>1, <2>0, <2>2
    <3>2. k - (i - 1) + 1 = k + 1 - i + 1
      BY <1>1, <2>0
    <3>3. v[i] = r[i - 1]
      BY <1>5, <3>1
    <3>4. r[i - 1] = s[k - (i - 1) + 1]
      BY <1>2, <3>1
    <3>5. u[i] = s[k + 1 - i + 1]
      BY <1>1, <2>0, <3>1
    <3>6. QED  BY <3>2, <3>3, <3>4, <3>5
  <2>3. QED  BY <2>1, <2>2
<1>7. Len(u) = Len(v)
  BY <1>1, <1>3, <1>5
<1>8. u = v
  BY <1>3, <1>5, <1>6, <1>7, SeqEqual
<1>9. QED  BY <1>8 DEF u, v, r, t

\* Moving the top of the forward stack to the end of the back stack leaves
\* the trail as it was.
LEMMA Shift ==
    ASSUME NEW S, NEW p \in Seq(S), NEW f \in Seq(S), NEW x \in S
    PROVE  Append(p, x) \o Reverse(f) = p \o Reverse(Append(f, x))
<1>1. <<x>> \in Seq(S) /\ Reverse(f) \in Seq(S)
  BY ReverseFacts
<1>2. Append(p, x) = p \o <<x>>
  BY AppendIsConcat
<1>3. (p \o <<x>>) \o Reverse(f) = p \o (<<x>> \o Reverse(f))
  BY <1>1, ConcatAssociative, SMTT(30)
<1>4. QED  BY <1>2, <1>3, ReverseAppend

\* A non-empty stack is its top pushed on the rest.
LEMMA FrontLast ==
    ASSUME NEW S, NEW s \in Seq(S), s # <<>>
    PROVE  s = Append(Front(s), Last(s))
<1> DEFINE t == Append(Front(s), Last(s))
<1>1. /\ Len(s) \in Nat /\ Len(s) > 0 /\ Len(Front(s)) = Len(s) - 1
      /\ Front(s) \in Seq(S) /\ Last(s) \in S
      /\ \A i \in 1..(Len(s) - 1) : Front(s)[i] = s[i]
      /\ Last(s) = s[Len(s)]
  BY PopFacts
<1>2. /\ t \in Seq(S) /\ Len(t) = Len(Front(s)) + 1
      /\ \A i \in 1..Len(Front(s)) : t[i] = Front(s)[i]
      /\ t[Len(Front(s)) + 1] = Last(s)
  BY <1>1, AppendProperties
<1> HIDE DEF t
<1>3. Len(t) = Len(s) /\ \A i \in 1..Len(s) : s[i] = t[i]
  <2>1. Len(t) = Len(s)
    BY <1>1, <1>2
  <2>2. ASSUME NEW i \in 1..Len(s) PROVE s[i] = t[i]
    <3>1. CASE i = Len(s)
      <4>1. Len(Front(s)) + 1 = i
        BY <1>1, <3>1
      <4>2. QED  BY <1>1, <1>2, <3>1, <4>1
    <3>2. CASE i # Len(s)
      <4>1. i \in 1..(Len(s) - 1)
        BY <1>1, <3>2
      <4>2. QED  BY <1>1, <1>2, <4>1
    <3>3. QED  BY <3>1, <3>2
  <2>3. QED  BY <2>1, <2>2
<1>4. s = t
  BY <1>2, <1>3, SeqEqual
<1>5. QED  BY <1>4 DEF t

\* With nothing ahead the trail is the pushed back stack.
LEMMA TrailAtEnd ==
    ASSUME NEW n \in NavType, n.forward = <<>>
    PROVE  TrailOf(n) = PushPlace(n.back, n.current)
<1>1. PushPlace(n.back, n.current) \in Seq(Place)
  BY PushPlaceType DEF NavType
<1>2. Reverse(<<>>) = <<>>
  <2>1. <<>> \in Seq(Place) /\ Len(<<>>) = 0
    BY EmptySeq
  <2>2. Reverse(<<>>) \in Seq(Place) /\ Len(Reverse(<<>>)) = 0
    BY <2>1, ReverseFacts
  <2>3. QED  BY <2>2, EmptySeq
<1>3. QED  BY <1>1, <1>2, ConcatEmptySeq DEF TrailOf

\* Going back moves the cursor over an unchanged trail.
LEMMA BackKeepsTrail ==
    ASSUME NEW n \in NavType, CanBack(n), n.current = NoAddr => n.forward = <<>>
    PROVE  /\ TrailOf(NavBack(n)) = TrailOf(n)
           /\ Len(NavBack(n).back) = Len(n.back) - 1
<1> DEFINE m == NavBack(n)
<1>1. /\ n.back \in Seq(Place) /\ n.forward \in Seq(Place) /\ n.back # <<>>
      /\ n.current # NoAddr => n.current \in Place
  BY DEF NavType, CanBack, Place
<1>2. /\ m.back = Front(n.back) /\ m.current = Last(n.back)
      /\ m.forward = PushPlace(n.forward, n.current)
      /\ m \in NavType
  BY MethodTypes DEF NavBack, NavType
<1>3. Len(m.back) = Len(n.back) - 1 /\ m.current # NoAddr
  BY <1>1, <1>2, PopFacts, PopType
<1>4. PushPlace(m.back, m.current) = n.back
  BY <1>1, <1>2, <1>3, FrontLast DEF PushPlace
<1>5. CASE n.current = NoAddr
  <2>1. m.forward = <<>> /\ PushPlace(n.back, n.current) = n.back
    BY <1>2, <1>5 DEF PushPlace
  <2>2. QED  BY <1>2, <1>3, <1>4, <1>5, <2>1, TrailAtEnd
<1>6. CASE n.current # NoAddr
  <2>1. /\ m.forward = Append(n.forward, n.current)
        /\ PushPlace(n.back, n.current) = Append(n.back, n.current)
    BY <1>2, <1>6 DEF PushPlace
  <2>2. TrailOf(m) = n.back \o Reverse(Append(n.forward, n.current))
    BY <1>4, <2>1 DEF TrailOf
  <2>3. TrailOf(n) = Append(n.back, n.current) \o Reverse(n.forward)
    BY <2>1 DEF TrailOf
  <2> HIDE DEF m
  <2>4. TrailOf(m) = TrailOf(n)
    BY <1>1, <1>6, <2>2, <2>3, Shift, ZenonT(40)
  <2>5. QED  BY <1>3, <2>4 DEF m
<1>7. QED  BY <1>5, <1>6

\* Going forward moves the cursor over an unchanged trail.
LEMMA ForwardKeepsTrail ==
    ASSUME NEW n \in NavType, CanForward(n), n.current # NoAddr
    PROVE  /\ TrailOf(NavForward(n)) = TrailOf(n)
           /\ Len(NavForward(n).back) = Len(n.back) + 1
<1> DEFINE m == NavForward(n)
<1>1. /\ n.back \in Seq(Place) /\ n.forward \in Seq(Place) /\ n.forward # <<>>
      /\ n.current \in Place
  BY DEF NavType, CanForward, Place
<1>2. /\ m.back = Append(n.back, n.current) /\ m.current = Last(n.forward)
      /\ m.forward = Front(n.forward)
      /\ PushPlace(n.back, n.current) = m.back
  BY DEF NavForward, PushPlace
<1>3. m.back \in Seq(Place) /\ Len(m.back) = Len(n.back) + 1
  BY <1>1, <1>2, AppendProperties
<1>4. m.forward \in Seq(Place) /\ m.current \in Place /\ m.current # NoAddr
  BY <1>1, <1>2, PopFacts, PopType
<1>5. n.forward = Append(m.forward, m.current)
  BY <1>1, <1>2, FrontLast
<1>6. PushPlace(m.back, m.current) = Append(m.back, m.current)
  BY <1>4 DEF PushPlace
<1>7. TrailOf(n) = m.back \o Reverse(Append(m.forward, m.current))
  BY <1>2, <1>5 DEF TrailOf
<1>8. TrailOf(m) = Append(m.back, m.current) \o Reverse(m.forward)
  BY <1>6 DEF TrailOf
<1> HIDE DEF m
<1>9. TrailOf(m) = TrailOf(n)
  BY <1>3, <1>4, <1>7, <1>8, Shift, ZenonT(40)
<1>10. QED  BY <1>3, <1>9 DEF m

\* The part of the trail a new visit keeps is the pushed back stack, and the
\* cursor stands on a recorded place exactly when the current address is real.
LEMMA KeptIsPushed ==
    ASSUME NEW n \in NavType, n.current = NoAddr => n.forward = <<>>
    PROVE  LET p == PushPlace(n.back, n.current)
               t == TrailOf(n)
               c == Len(n.back) + 1
           IN  /\ c <= Len(t) <=> n.current # NoAddr
               /\ SubSeq(t, 1, IF c <= Len(t) THEN c ELSE c - 1) = p
               /\ n.current # NoAddr => t[c] = n.current
               /\ n.forward # <<>> => c < Len(t)
<1> DEFINE p == PushPlace(n.back, n.current)
           t == TrailOf(n)
           c == Len(n.back) + 1
           r == Reverse(n.forward)
<1>1. /\ n.back \in Seq(Place) /\ n.forward \in Seq(Place)
      /\ n.current # NoAddr => n.current \in Place
      /\ Len(n.back) \in Nat /\ Len(n.forward) \in Nat
  BY LenProperties DEF NavType, Place
<1>2. /\ p \in Seq(Place)
      /\ n.current = NoAddr => p = n.back
      /\ n.current # NoAddr => p = Append(n.back, n.current)
  BY PushPlaceType DEF NavType
<1>3. r \in Seq(Place) /\ Len(r) = Len(n.forward)
  BY <1>1, ReverseFacts
<1>4. /\ n.current = NoAddr => Len(p) = c - 1
      /\ n.current # NoAddr => Len(p) = c /\ p[c] = n.current
  BY <1>1, <1>2, AppendProperties
<1>5. t = p \o r
  BY DEF TrailOf
<1>6. n.current = NoAddr => Len(n.forward) = 0
  BY EmptySeq
<1>7. n.forward # <<>> => Len(n.forward) > 0
  BY <1>1, EmptySeq
<1>8. c \in Nat /\ c > 0
  BY <1>1
<1> HIDE DEF p, t, c, r
<1>9. /\ t \in Seq(Place) /\ Len(t) = Len(p) + Len(r)
      /\ \A i \in 1..(Len(p) + Len(r)) :
             t[i] = IF i <= Len(p) THEN p[i] ELSE r[i - Len(p)]
  <2>1. p \in Seq(Place) /\ r \in Seq(Place)
    BY <1>2, <1>3
  <2>2. /\ p \o r \in Seq(Place)
        /\ Len(p \o r) = Len(p) + Len(r)
        /\ \A i \in 1..(Len(p) + Len(r)) :
               (p \o r)[i] = IF i <= Len(p) THEN p[i] ELSE r[i - Len(p)]
    BY <2>1, ConcatProperties, Zenon
  <2>3. QED  BY <1>5, <2>2
<1>10. Len(p) \in Nat /\ Len(r) \in Nat
  BY <1>2, <1>3, LenProperties
<1>11. \A i \in 1..Len(p) : t[i] = p[i]
  BY <1>9, <1>10
<1>12. c <= Len(t) <=> n.current # NoAddr
  BY <1>3, <1>4, <1>6, <1>8, <1>9, <1>10
<1>13. (IF c <= Len(t) THEN c ELSE c - 1) = Len(p)
  BY <1>4, <1>12
<1>14. n.current # NoAddr => t[c] = n.current
  BY <1>4, <1>8, <1>11
<1>15. n.forward # <<>> => c < Len(t)
  BY <1>3, <1>4, <1>6, <1>7, <1>8, <1>9, <1>10
<1>16. SubSeq(t, 1, Len(p)) = p
  <2> DEFINE l == Len(p)
             q == SubSeq(t, 1, l)
  <2>1. 1 \in Int /\ l \in Int /\ \A i \in 1..l : t[i] \in Place
    BY <1>2, <1>10, <1>11, ElementOfSeq
  <2> HIDE DEF l
  <2>2. /\ q \in Seq(Place)
        /\ Len(q) = IF 1 <= l THEN l - 1 + 1 ELSE 0
        /\ \A i \in 1..(l - 1 + 1) : q[i] = t[1 + i - 1]
    BY <2>1, SubSeqProperties
  <2> HIDE DEF q
  <2>3. Len(q) = l
    BY <1>10, <2>2 DEF l
  <2>4. ASSUME NEW i \in 1..l PROVE q[i] = p[i]
    <3>1. i \in 1..(l - 1 + 1) /\ 1 + i - 1 = i
      BY <2>1
    <3>2. QED  BY <1>11, <2>2, <3>1 DEF l
  <2>5. q = p
    BY <1>2, <2>2, <2>3, <2>4, SeqEqual DEF l
  <2>6. QED  BY <2>5 DEF q, l
<1>17. QED  BY <1>12, <1>13, <1>14, <1>15, <1>16 DEF p, t, c

\* The two stacks implement one trail with a cursor: every call of go(),
\* back(), forward() or clear() is a step of History, or leaves it unchanged.
THEOREM Refinement == Spec => ImplementsHistory
<1>1. Init => Abstract!Init
  <2> SUFFICES ASSUME Init PROVE Abstract!Init
    OBVIOUS
  <2>1. NavEmpty \in NavType /\ NavEmpty.forward = <<>> /\ nav = NavEmpty
    BY MethodTypes DEF Init, NavEmpty, NavType
  <2>2. Trail = PushPlace(<<>>, NoAddr)
    BY <2>1, TrailAtEnd DEF Trail, NavEmpty
  <2>3. Trail = <<>> /\ Cursor = 1
    BY <2>1, <2>2, EmptySeq DEF PushPlace, Cursor, NavEmpty
  <2>4. QED  BY <2>3 DEF Abstract!Init
<1>2. TypeOK /\ NowhereIsLast /\ TypeOK' /\ [Next]_vars
        => [Abstract!Next]_(Abstract!vars)
  <2> SUFFICES ASSUME TypeOK, NowhereIsLast, TypeOK', [Next]_vars
               PROVE  Abstract!Next \/ UNCHANGED Abstract!vars
    OBVIOUS
  <2>0. /\ nav \in NavType /\ nav' \in NavType
        /\ nav.current = NoAddr => nav.forward = <<>>
    BY DEF TypeOK, NavType, NowhereIsLast
  <2> DEFINE p == PushPlace(nav.back, nav.current)
  <2>k. /\ Abstract!OnPlace <=> nav.current # NoAddr
        /\ Abstract!Kept = p
        /\ nav.current # NoAddr => Trail[Cursor] = nav.current
        /\ nav.forward # <<>> => Cursor < Len(Trail)
    BY <2>0, KeptIsPushed DEF Abstract!OnPlace, Abstract!Kept, Trail, Cursor
  <2>p. p \in Seq(Place)
    BY <2>0, PushPlaceType DEF NavType
  <2>1. ASSUME NEW a \in Addr, Go(a) PROVE Abstract!Next
    <3>1. nav'.forward = <<>> /\ nav'.current = a
      BY <2>1 DEF Go, NavGo
    <3>2. Trail' = PushPlace(nav'.back, a)
      BY <2>0, <3>1, TrailAtEnd DEF Trail
    <3>3. CASE a = NoAddr
      <4>1. nav'.back = p
        BY <2>1, <3>3 DEF Go, NavGo, PushPlace
      <4>2. Trail' = Abstract!Kept /\ Cursor' = Len(Abstract!Kept) + 1
        BY <2>k, <3>2, <3>3, <4>1 DEF PushPlace, Cursor
      <4>3. QED  BY <4>2 DEF Abstract!Next, Abstract!Leave
    <3>4. CASE a # NoAddr /\ a = nav.current
      <4>1. nav'.back = nav.back /\ a \in Place
        BY <2>1, <3>4 DEF Go, NavGo, Place
      <4>2. Trail' = Abstract!Kept
        BY <2>k, <3>2, <3>4, <4>1
      <4>3. Trail' = Append(nav.back, a)
        BY <3>2, <3>4, <4>1 DEF PushPlace
      <4>4. Cursor' = Len(Trail')
        BY <2>0, <4>1, <4>3, AppendProperties DEF Cursor, NavType
      <4>5. Abstract!Visit(a)
        BY <2>k, <3>4, <4>2, <4>4 DEF Abstract!Visit
      <4>6. QED  BY <4>1, <4>5 DEF Abstract!Next
    <3>5. CASE a # NoAddr /\ a # nav.current
      <4>1. nav'.back = p /\ a \in Place
        BY <2>1, <3>5 DEF Go, NavGo, Place
      <4>2. Trail' = Append(Abstract!Kept, a)
        BY <2>k, <3>2, <3>5, <4>1 DEF PushPlace
      <4>3. Cursor' = Len(Trail')
        BY <2>k, <2>p, <4>1, <4>2, AppendProperties DEF Cursor
      <4>4. Abstract!Visit(a)
        BY <2>k, <3>5, <4>2, <4>3 DEF Abstract!Visit
      <4>5. QED  BY <4>1, <4>4 DEF Abstract!Next
    <3>6. QED  BY <3>3, <3>4, <3>5
  <2>2. CASE Back
    <3>1. CASE ~CanBack(nav)
      <4>1. nav' = nav
        BY <2>2, <3>1 DEF Back, NavBack
      <4>2. QED  BY <4>1 DEF Abstract!vars, Trail, Cursor
    <3>2. CASE CanBack(nav)
      <4>1. Trail' = Trail /\ Cursor' = Len(nav.back) - 1 + 1
        BY <2>0, <2>2, <3>2, BackKeepsTrail DEF Back, Trail, Cursor
      <4>2. Len(nav.back) \in Nat /\ Len(nav.back) > 0
        BY <2>0, <3>2, PopFacts DEF CanBack, NavType
      <4>3. Cursor > 1 /\ Cursor' = Cursor - 1
        BY <4>1, <4>2 DEF Cursor
      <4>4. QED  BY <4>1, <4>3 DEF Abstract!Next, Abstract!Back
    <3>3. QED  BY <3>1, <3>2
  <2>3. CASE Forward
    <3>1. CASE ~CanForward(nav)
      <4>1. nav' = nav
        BY <2>3, <3>1 DEF Forward, NavForward
      <4>2. QED  BY <4>1 DEF Abstract!vars, Trail, Cursor
    <3>2. CASE CanForward(nav)
      <4>1. nav.forward # <<>> /\ nav.current # NoAddr
        BY <2>0, <3>2 DEF CanForward
      <4>2. Trail' = Trail /\ Cursor' = Len(nav.back) + 1 + 1
        BY <2>0, <2>3, <3>2, <4>1, ForwardKeepsTrail DEF Forward, Trail, Cursor
      <4>3. Cursor < Len(Trail) /\ Cursor' = Cursor + 1
        BY <2>k, <4>1, <4>2 DEF Cursor
      <4>4. QED  BY <4>2, <4>3 DEF Abstract!Next, Abstract!Forward
    <3>3. QED  BY <3>1, <3>2
  <2>4. CASE Clear
    <3>1. nav' = NavEmpty /\ nav'.forward = <<>>
      BY <2>4 DEF Clear, NavEmpty
    <3>2. Trail' = PushPlace(<<>>, NoAddr)
      BY <2>0, <3>1, TrailAtEnd DEF Trail, NavEmpty
    <3>3. Trail' = <<>> /\ Cursor' = 1
      BY <3>1, <3>2, EmptySeq DEF PushPlace, Cursor, NavEmpty
    <3>4. QED  BY <3>3 DEF Abstract!Next, Abstract!Forget
  <2>5. CASE UNCHANGED vars
    BY <2>5 DEF vars, Abstract!vars, Trail, Cursor
  <2>6. QED  BY <2>1, <2>2, <2>3, <2>4, <2>5 DEF Next
<1>3. QED
  BY <1>1, <1>2, TypeCorrect, NowhereCorrect, PTL
  DEF Spec, ImplementsHistory, Abstract!Spec
=============================================================================
