----------------------------- MODULE AppProofs -----------------------------
(***************************************************************************)
(* Theorems about whole frames, for any documents, images and number of    *)
(* user actions: the frame is one of the tabs' frames, the history, the    *)
(* selection and the pending scroll of every document agree, only the      *)
(* current document's move, and no dialog outlives the documents.          *)
(***************************************************************************)
EXTENDS App, DocTabsProofs

Place == Addr \ {NoAddr}
NavType == [back : Seq(Place), forward : Seq(Place), current : Addr]

\* A bounded set of naturals has a greatest element.
LEMMA GreatestNatural ==
    ASSUME NEW S, NEW n \in Nat, S \subseteq 0..n, S # {}
    PROVE  \E m \in S : \A y \in S : m >= y
<1> DEFINE T == {n - x : x \in S}
<1>1. T \in SUBSET Nat /\ T # {}
  <2>1. \A x \in S : x \in Int /\ 0 <= x /\ x <= n
    OBVIOUS
  <2>2. \A x \in S : n - x \in Nat
    BY <2>1
  <2>3. QED  BY <2>2
<1>2. PICK t \in T : \A y \in T : t <= y
  BY <1>1, LeastNatural
<1>3. PICK m \in S : t = n - m
  BY <1>2
<1>4. \A y \in S : n - m <= n - y
  BY <1>2, <1>3
<1>5. QED  BY <1>4

\* Addresses are naturals.
LEMMA NumberFacts == NoAddr \in Nat /\ 0..NoAddr \subseteq Nat /\ Addr \subseteq Nat
<1>1. \A n \in Nat : 0..n \subseteq Nat
  OBVIOUS
<1>2. QED  BY <1>1, AddrAssumption

\* lower_bound_va with its clamp always answers a row.
LEMMA RowAtIsRow ==
    ASSUME NEW rows, rows \subseteq 0..NoAddr, rows # {}, NEW a \in Nat
    PROVE  RowAt(rows, a) \in rows
<1> DEFINE after == {r \in rows : r >= a}
<1>1. CASE after = {}
  <2>1. \E m \in rows : \A y \in rows : m >= y
    BY GreatestNatural, AddrAssumption
  <2>2. QED  BY <1>1, <2>1 DEF RowAt, Max
<1>2. CASE after # {}
  <2>1. after \in SUBSET Nat
    BY NumberFacts
  <2>2. \E m \in after : \A y \in after : m <= y
    BY <1>2, <2>1, LeastNatural
  <2>3. Min(after) \in after
    BY <2>2 DEF Min
  <2>4. QED  BY <1>2, <2>3 DEF RowAt
<1>3. QED  BY <1>1, <1>2

-----------------------------------------------------------------------------
\* What popping a stack of places yields: a place, never the sentinel.
LEMMA PopPlace ==
    ASSUME NEW s \in Seq(Place), s # <<>>
    PROVE  Front(s) \in Seq(Place) /\ Last(s) \in Place
<1>1. Len(s) \in Nat /\ Len(s) > 0
  BY LenProperties, EmptySeq
<1>2. Last(s) \in Place
  BY <1>1, ElementOfSeq DEF Last
<1>3. Len(s) - 1 \in Int /\ \A i \in 1..(Len(s) - 1) : s[i] \in Place
  BY <1>1, ElementOfSeq
<1>4. SubSeq(s, 1, Len(s) - 1) \in Seq(Place)
  <2> DEFINE n == Len(s) - 1
  <2> HIDE DEF n
  <2>1. n \in Int /\ \A i \in 1..n : s[i] \in Place
    BY <1>3 DEF n
  <2>2. SubSeq(s, 1, n) \in Seq(Place)
    BY <2>1, SubSeqProperties
  <2>3. QED  BY <2>2 DEF n
<1>5. QED  BY <1>2, <1>4 DEF Front

\* go, back and forward on a history.
LEMMA MethodFacts ==
    ASSUME NEW n \in NavType, NEW a \in Addr
    PROVE  /\ NavGo(n, a) \in NavType /\ NavGo(n, a).current = a
           /\ NavBack(n) \in NavType /\ NavForward(n) \in NavType
           /\ IF BackResult(n) = NoAddr THEN NavBack(n) = n
              ELSE BackResult(n) = NavBack(n).current
           /\ IF ForwardResult(n) = NoAddr THEN NavForward(n) = n
              ELSE ForwardResult(n) = NavForward(n).current
<1>1. /\ n.back \in Seq(Place) /\ n.forward \in Seq(Place) /\ n.current \in Addr
  BY DEF NavType
<1>2. \A s \in Seq(Place) : PushPlace(s, n.current) \in Seq(Place)
  BY <1>1 DEF PushPlace, Place
<1>3. NavGo(n, a) \in NavType /\ NavGo(n, a).current = a
  <2> DEFINE s == IF a = n.current THEN n.back ELSE PushPlace(n.back, n.current)
  <2>1. s \in Seq(Place) /\ <<>> \in Seq(Place)
    BY <1>1, <1>2, EmptySeq
  <2>2. NavGo(n, a) = [back |-> s, forward |-> <<>>, current |-> a]
    BY DEF NavGo
  <2> HIDE DEF s
  <2>3. QED  BY <2>1, <2>2 DEF NavType
<1>4. /\ NavBack(n) \in NavType
      /\ IF BackResult(n) = NoAddr THEN NavBack(n) = n ELSE BackResult(n) = NavBack(n).current
  <2>1. CASE n.back = <<>>
    BY <2>1 DEF NavBack, BackResult, CanBack
  <2>2. CASE n.back # <<>>
    <3> DEFINE b == Front(n.back)
               f == PushPlace(n.forward, n.current)
               c == Last(n.back)
    <3>1. b \in Seq(Place) /\ f \in Seq(Place) /\ c \in Addr /\ c # NoAddr
      BY <1>1, <1>2, <2>2, PopPlace DEF Place
    <3>2. NavBack(n) = [back |-> b, forward |-> f, current |-> c] /\ BackResult(n) = c
      BY <2>2 DEF NavBack, BackResult, CanBack
    <3> HIDE DEF b, f, c
    <3>3. QED  BY <3>1, <3>2 DEF NavType
  <2>3. QED  BY <2>1, <2>2
<1>5. /\ NavForward(n) \in NavType
      /\ IF ForwardResult(n) = NoAddr THEN NavForward(n) = n
         ELSE ForwardResult(n) = NavForward(n).current
  <2>1. CASE n.forward = <<>>
    BY <2>1 DEF NavForward, ForwardResult, CanForward
  <2>2. CASE n.forward # <<>>
    <3> DEFINE b == PushPlace(n.back, n.current)
               f == Front(n.forward)
               c == Last(n.forward)
    <3>1. b \in Seq(Place) /\ f \in Seq(Place) /\ c \in Addr /\ c # NoAddr
      BY <1>1, <1>2, <2>2, PopPlace DEF Place
    <3>2. NavForward(n) = [back |-> b, forward |-> f, current |-> c] /\ ForwardResult(n) = c
      BY <2>2 DEF NavForward, ForwardResult, CanForward
    <3> HIDE DEF b, f, c
    <3>3. QED  BY <3>1, <3>2 DEF NavType
  <2>3. QED  BY <2>1, <2>2
<1>6. QED  BY <1>3, <1>4, <1>5

-----------------------------------------------------------------------------
\* What every handler keeps of a document's view: the history, the selection
\* and the scroll still to be done agree.
ViewOK(d, v) ==
    /\ v \in [nav : NavType, selected : Addr, pending : Addr \cup {NoAddr}]
    /\ v.pending \in {NoAddr, v.nav.current}
    /\ v.pending = NoAddr /\ Row[d] # {} => v.selected \in Row[d] \cup {NoAddr}

LEMMA ImageFacts ==
    ASSUME NEW d \in Doc
    PROVE  /\ Entry[d] \in Addr /\ Entry[d] # NoAddr
           /\ Row[d] \subseteq Place /\ Row[d] \subseteq 0..NoAddr /\ Place \subseteq Addr
BY ImageAssumption, AddrAssumption DEF Place

\* A view that has just jumped to a.
LEMMA JumpOK ==
    ASSUME NEW d \in Doc, NEW v, ViewOK(d, v), NEW a \in Addr
    PROVE  ViewOK(d, JumpTo(v, a))
<1>1. v.nav \in NavType
  BY DEF ViewOK
<1>2. NavGo(v.nav, a) \in NavType /\ NavGo(v.nav, a).current = a
  BY <1>1, MethodFacts
<1>3. QED  BY <1>2 DEF JumpTo, ViewOK

LEMMA LoadedOK ==
    ASSUME NEW d \in Doc
    PROVE  ViewOK(d, Loaded(d))
<1>1. Entry[d] \in Addr /\ Entry[d] # NoAddr
  BY ImageFacts
<1>2. NavGo(NavEmpty, Entry[d]) = [back |-> <<>>, forward |-> <<>>, current |-> Entry[d]]
  BY DEF NavGo, NavEmpty, PushPlace
<1>3. NavGo(NavEmpty, Entry[d]) \in NavType
  BY <1>1, <1>2, EmptySeq DEF NavType
<1>4. QED  BY <1>1, <1>2, <1>3 DEF Loaded, ViewOK

\* Back and forward with an empty stack change nothing.
LEMMA ArriveOK ==
    ASSUME NEW d \in Doc, NEW v, ViewOK(d, v), NEW nav \in NavType, NEW a,
           IF a = NoAddr THEN nav = v.nav ELSE a = nav.current
    PROVE  ViewOK(d, Arrive(v, nav, a))
<1>1. CASE a = NoAddr
  <2>1. [v EXCEPT !.nav = v.nav] = v
    BY DEF ViewOK
  <2>2. QED  BY <1>1, <2>1 DEF Arrive
<1>2. CASE a # NoAddr
  <2>1. a \in Addr
    BY <1>2 DEF NavType
  <2>2. QED  BY <1>2, <2>1 DEF Arrive, ViewOK
<1>3. QED  BY <1>1, <1>2

LEMMA GoBackOK ==
    ASSUME NEW d \in Doc, NEW v, ViewOK(d, v)
    PROVE  ViewOK(d, GoBack(v)) /\ ViewOK(d, GoForward(v))
<1>1. v.nav \in NavType
  BY DEF ViewOK
<1>2. Entry[d] \in Addr
  BY ImageFacts
<1>3. QED  BY <1>1, <1>2, MethodFacts, ArriveOK DEF GoBack, GoForward

LEMMA TravelOK ==
    ASSUME NEW d \in Doc, NEW v, ViewOK(d, v), NEW keys
    PROVE  ViewOK(d, Travel(v, keys))
<1> DEFINE v1 == IF "left" \in keys THEN GoBack(v) ELSE v
           v2 == IF "right" \in keys THEN GoForward(v1) ELSE v1
<1>1. ViewOK(d, v1)
  BY GoBackOK
<1> HIDE DEF v1
<1>2. ViewOK(d, v2)
  BY <1>1, GoBackOK
<1> HIDE DEF v2
<1>3. ViewOK(d, IF "escape" \in keys THEN GoBack(v2) ELSE v2)
  BY <1>2, GoBackOK
<1>4. QED  BY <1>3 DEF Travel, v1, v2

\* The scroll of the disassembly and a click on a row.
LEMMA SnapOK ==
    ASSUME NEW d \in Doc, NEW v, ViewOK(d, v), Row[d] # {}
    PROVE  ViewOK(d, Snap(v, Row[d]))
<1>1. CASE v.pending = NoAddr
  BY <1>1 DEF Snap
<1>2. CASE v.pending # NoAddr
  <2>0. v.pending \in Addr \cup {NoAddr}
    BY DEF ViewOK
  <2>1. v.pending \in Nat
    BY <2>0, NumberFacts
  <2>2. RowAt(Row[d], v.pending) \in Row[d]
    BY <2>1, ImageFacts, RowAtIsRow
  <2> DEFINE r == RowAt(Row[d], v.pending)
  <2> HIDE DEF r
  <2>3. v = [nav |-> v.nav, selected |-> v.selected, pending |-> v.pending] /\ v.nav \in NavType
    BY DEF ViewOK
  <2>4. Snap(v, Row[d]) = [nav |-> v.nav, selected |-> r, pending |-> NoAddr]
    BY <1>2, <2>3 DEF Snap, r
  <2>5. r \in Row[d] /\ r \in Addr
    BY <2>2, ImageFacts DEF r
  <2>6. QED  BY <2>3, <2>4, <2>5 DEF ViewOK
<1>3. QED  BY <1>1, <1>2

LEMMA ClickOK ==
    ASSUME NEW d \in Doc, NEW v, ViewOK(d, v), NEW r \in Row[d], NEW a \in Addr
    PROVE  /\ ViewOK(d, [v EXCEPT !.selected = r])
           /\ ViewOK(d, [nav |-> NavGo(v.nav, a), selected |-> r, pending |-> a])
<1>1. v = [nav |-> v.nav, selected |-> v.selected, pending |-> v.pending] /\ v.nav \in NavType
  BY DEF ViewOK
<1>2. r \in Addr
  BY ImageFacts
<1>3. [v EXCEPT !.selected = r] = [nav |-> v.nav, selected |-> r, pending |-> v.pending]
  BY <1>1
<1>4. NavGo(v.nav, a) \in NavType /\ NavGo(v.nav, a).current = a
  BY <1>1, MethodFacts
<1>5. QED  BY <1>1, <1>2, <1>3, <1>4 DEF ViewOK

-----------------------------------------------------------------------------
appAll == <<vars, appVars>>

ViewsOK ==
    /\ view = [d \in Doc |-> view[d]]
    /\ \A d \in Doc : ViewOK(d, view[d])

DialogsOK ==
    dialogs \in [goto : BOOLEAN, xrefs : BOOLEAN, target : Addr \cup {0}, from : Doc \cup {NoDoc}]

\* Where the frame is; what the dialogs drawn so far have seen to.
FrameOK ==
    /\ part \in {"disasm", "hex", "lists", "goto", "xrefs"}
    /\ stage # "views" => part = "disasm"
    /\ ctx.docs = <<>> /\ stage = "views" /\ part = "xrefs" => ~dialogs.goto
    /\ DialogsNeedDocument

AppInv == ViewsOK /\ DialogsOK /\ FrameOK

\* A handler of the frame is a handler of the tabs or leaves them alone.
LEMMA TabsStep == [AppNext]_appAll => [Next]_vars
<1> SUFFICES ASSUME [AppNext]_appAll PROVE [Next]_vars
  OBVIOUS
<1>1. CASE Drops
  BY <1>1 DEF Drops, Next
<1>2. CASE MenuFile
  BY <1>2 DEF MenuFile, Next
<1>3. CASE MenuNavigate
  BY <1>3 DEF MenuNavigate, Next
<1>4. CASE HostWindow
  BY <1>4 DEF HostWindow, Next
<1>5. ASSUME NEW opened \in Closed \cup {NoDoc}, NEW close \in BOOLEAN,
             NEW delta \in {-1, 0, 1}, NEW keys, Shortcuts(opened, close, delta, keys)
      PROVE  Next
  <2>1. CASE opened = NoDoc /\ close = FALSE /\ delta = 0
    BY <1>5, <2>1 DEF Shortcuts, Next
  <2>2. CASE ~(opened = NoDoc /\ close = FALSE /\ delta = 0)
    <3>1. Keys(opened, close, delta)
      BY <1>5, <2>2 DEF Shortcuts
    <3>2. opened # NoDoc \/ close \/ delta # 0
      BY <2>2
    <3>3. QED  BY <3>1, <3>2 DEF Next
  <2>3. QED  BY <2>1, <2>2
<1>6. CASE HiddenWindow \/ DisasmWindow \/ HexWindow \/ ListWindows \/ GotoDialog
  BY <1>6 DEF HiddenWindow, Hidden, DisasmWindow, HexWindow, ListWindows, GotoDialog, Drawn
<1>7. CASE XrefsPopup
  BY <1>7 DEF XrefsPopup, Next
<1>8. CASE UNCHANGED appAll
  BY <1>8 DEF appAll, vars
<1>9. QED  BY <1>1, <1>2, <1>3, <1>4, <1>5, <1>6, <1>7, <1>8 DEF AppNext

-----------------------------------------------------------------------------
\* The current document, when there is one.
LEMMA CurrentIsDoc ==
    ASSUME NEW c, CtxOK(c)
    PROVE  /\ HasDoc(c) => CurrentDoc(c) \in Doc
           /\ CurrentDoc(c) # NoDoc => CurrentDoc(c) \in Doc
           /\ c.docs = <<>> => ~HasDoc(c)
<1>1. c \in CtxType
  BY DEF CtxOK
<1>2. c.docs = <<>> => ~HasDoc(c)
  <2>1. c.docs = <<>> => Len(c.docs) = 0
    OBVIOUS
  <2>2. ASSUME c.docs = <<>>, HasDoc(c) PROVE FALSE
    <3>1. c.current \in 0..(0 - 1)
      BY <2>1, <2>2 DEF HasDoc, Indices
    <3>2. 0..(0 - 1) = {}
      OBVIOUS
    <3>3. QED  BY <3>1, <3>2
  <2>3. QED  BY <2>2
<1>3. QED  BY <1>1, <1>2, IndexFacts DEF HasDoc, CurrentDoc

LEMMA ViewSet ==
    ASSUME ViewsOK, NEW d \in Doc, NEW w, ViewOK(d, w), view' = [view EXCEPT ![d] = w]
    PROVE  ViewsOK'
<1>1. view' = [e \in Doc |-> IF e = d THEN w ELSE view[e]]
  BY DEF ViewsOK
<1>2. \A e \in Doc : view'[e] = IF e = d THEN w ELSE view[e]
  BY <1>1
<1>3. view' = [e \in Doc |-> view'[e]]
  BY <1>1
<1>4. \A e \in Doc : ViewOK(e, view'[e])
  BY <1>2 DEF ViewsOK
<1>5. QED  BY <1>3, <1>4 DEF ViewsOK, ViewOK

LEMMA ViewsKept ==
    ASSUME ViewsOK, UNCHANGED view
    PROVE  ViewsOK'
BY DEF ViewsOK, ViewOK

\* Documents closed by a handler get the view of their next load.
LEMMA LiveOK ==
    ASSUME ViewsOK
    PROVE  /\ Live(view) = [d \in Doc |-> Live(view)[d]]
           /\ \A d \in Doc : ViewOK(d, Live(view)[d])
<1>1. Live(view) = [d \in Doc |-> Live(view)[d]]
  BY DEF Live
<1>2. ASSUME NEW d \in Doc PROVE ViewOK(d, Live(view)[d])
  <2>1. Live(view)[d] = view[d] \/ Live(view)[d] = Loaded(d)
    BY DEF Live
  <2>2. QED  BY <2>1, LoadedOK DEF ViewsOK
<1>3. QED  BY <1>1, <1>2

LEMMA LiveSet ==
    ASSUME ViewsOK, view' = Live(view)
    PROVE  ViewsOK'
<1>1. view' = [d \in Doc |-> view'[d]] /\ \A d \in Doc : ViewOK(d, view'[d])
  BY LiveOK
<1>2. QED  BY <1>1 DEF ViewsOK, ViewOK

\* Every handler keeps every view in order.
LEMMA ViewsStep ==
    ASSUME ViewsOK, CtxOK(ctx), CtxOK(ctx'), AppNext
    PROVE  ViewsOK'
<1>0. /\ HasDoc(ctx) => CurrentDoc(ctx) \in Doc
      /\ CurrentDoc(ctx') # NoDoc => CurrentDoc(ctx') \in Doc
      /\ \A e \in Doc : ViewOK(e, view[e])
  BY CurrentIsDoc DEF ViewsOK
<1> DEFINE d == CurrentDoc(ctx)
<1>j. ASSUME HasDoc(ctx), NEW a \in Addr, view' = [view EXCEPT ![d] = JumpTo(@, a)]
      PROVE  ViewsOK'
  BY <1>0, <1>j, JumpOK, ViewSet
<1>1. CASE Drops \/ HexWindow \/ HiddenWindow
  BY <1>1, ViewsKept DEF Drops, HexWindow, HiddenWindow
<1>2. CASE MenuFile \/ HostWindow
  BY <1>2, LiveSet DEF MenuFile, HostWindow
<1>3. CASE MenuNavigate
  <2>1. HasDoc(ctx) /\ d \in Doc
    BY <1>0, <1>3 DEF MenuNavigate
  <2>2. \/ UNCHANGED view
        \/ view' = [view EXCEPT ![d] = GoBack(@)]
        \/ view' = [view EXCEPT ![d] = GoForward(@)]
        \/ view' = [view EXCEPT ![d] = JumpTo(@, Entry[d])]
    BY <1>3 DEF MenuNavigate
  <2> HIDE DEF d
  <2>3. CASE UNCHANGED view
    BY <2>3, ViewsKept
  <2>4. ViewOK(d, GoBack(view[d])) /\ ViewOK(d, GoForward(view[d])) /\ ViewOK(d, JumpTo(view[d], Entry[d]))
    BY <1>0, <2>1, GoBackOK, JumpOK, ImageFacts
  <2>5. QED  BY <2>1, <2>2, <2>3, <2>4, ViewSet
<1>4. ASSUME NEW opened, NEW close, NEW delta, NEW keys, Shortcuts(opened, close, delta, keys)
      PROVE  ViewsOK'
  <2> DEFINE k == CurrentDoc(ctx')
             live == Live(view)
  <2>1. CASE k = NoDoc
    BY <1>4, <2>1, LiveSet DEF Shortcuts, KeyTarget
  <2>2. CASE k # NoDoc
    <3>1. view' = [live EXCEPT ![k] = Travel(live[k], keys)] /\ k \in Doc
      BY <1>0, <1>4, <2>2 DEF Shortcuts, KeyTarget
    <3>2. live = [e \in Doc |-> live[e]] /\ \A e \in Doc : ViewOK(e, live[e])
      BY LiveOK
    <3> HIDE DEF k, live
    <3>3. ViewOK(k, Travel(live[k], keys))
      BY <3>1, <3>2, TravelOK
    <3> DEFINE w == Travel(live[k], keys)
    <3> HIDE DEF w
    <3>4. view' = [e \in Doc |-> IF e = k THEN w ELSE live[e]]
      BY <3>1, <3>2 DEF w
    <3>5. view' = [e \in Doc |-> view'[e]] /\ \A e \in Doc : ViewOK(e, view'[e])
      BY <3>2, <3>3, <3>4 DEF w
    <3>6. QED  BY <3>5 DEF ViewsOK, ViewOK
  <2>3. QED  BY <2>1, <2>2
<1>5. CASE DisasmWindow
  <2> DEFINE v == Snap(view[d], Row[d])
  <2>1. HasDoc(ctx) /\ d \in Doc /\ Row[d] # {}
    BY <1>0, <1>5 DEF DisasmWindow
  <2>2. ViewOK(d, v)
    BY <1>0, <2>1, SnapOK
  <2>3. \/ view' = [view EXCEPT ![d] = v]
        \/ \E r \in Row[d] : view' = [view EXCEPT ![d] = [v EXCEPT !.selected = r]]
        \/ \E r \in Row[d], a \in Addr :
               view' = [view EXCEPT ![d] = [nav |-> NavGo(v.nav, a), selected |-> r, pending |-> a]]
    BY <1>5 DEF DisasmWindow
  <2> HIDE DEF v, d
  <2>4. CASE view' = [view EXCEPT ![d] = v]
    BY <2>1, <2>2, <2>4, ViewSet
  <2>5. ASSUME NEW r \in Row[d], view' = [view EXCEPT ![d] = [v EXCEPT !.selected = r]]
        PROVE  ViewsOK'
    <3>1. \A a \in Addr : ViewOK(d, [v EXCEPT !.selected = r])
      BY <2>1, <2>2, ClickOK
    <3>2. Entry[d] \in Addr
      BY <2>1, ImageFacts
    <3>3. QED  BY <2>1, <2>5, <3>1, <3>2, ViewSet
  <2>6. ASSUME NEW r \in Row[d], NEW a \in Addr,
               view' = [view EXCEPT ![d] = [nav |-> NavGo(v.nav, a), selected |-> r, pending |-> a]]
        PROVE  ViewsOK'
    BY <2>1, <2>2, <2>6, ClickOK, ViewSet
  <2>7. QED  BY <2>3, <2>4, <2>5, <2>6
<1>6. CASE ListWindows
  BY <1>6, <1>j DEF ListWindows
<1>7. CASE GotoDialog
  <2>1. UNCHANGED view \/ (HasDoc(ctx) /\ \E a \in Addr : view' = [view EXCEPT ![d] = JumpTo(@, a)])
    BY <1>7 DEF GotoDialog
  <2>2. QED  BY <1>j, <2>1, ViewsKept
<1>8. CASE XrefsPopup
  <2>1. UNCHANGED view \/ (HasDoc(ctx) /\ \E a \in Row[d] : view' = [view EXCEPT ![d] = JumpTo(@, a)])
    BY <1>8 DEF XrefsPopup
  <2>2. HasDoc(ctx) => Row[d] \subseteq Addr
    BY <1>0, ImageFacts
  <2>3. QED  BY <1>j, <2>1, <2>2, ViewsKept
<1>9. QED
  BY <1>1, <1>2, <1>3, <1>4, <1>5, <1>6, <1>7, <1>8 DEF AppNext

-----------------------------------------------------------------------------
\* The dialogs' fields keep their types.
LEMMA DialogsStep ==
    ASSUME ViewsOK, DialogsOK, CtxOK(ctx), CtxOK(ctx'), AppNext
    PROVE  DialogsOK'
<1>0. /\ HasDoc(ctx) => CurrentDoc(ctx) \in Doc
      /\ CurrentDoc(ctx') # NoDoc => CurrentDoc(ctx') \in Doc
      /\ \A e \in Doc : view[e].selected \in Addr
  BY CurrentIsDoc DEF ViewsOK, ViewOK
<1>k. CASE UNCHANGED dialogs
  BY <1>k DEF DialogsOK
<1>1. CASE Drops \/ MenuFile \/ HostWindow \/ HiddenWindow \/ DisasmWindow \/ HexWindow \/ ListWindows
  BY <1>1, <1>k DEF Drops, MenuFile, HostWindow, HiddenWindow, DisasmWindow, HexWindow, ListWindows
<1>2. CASE MenuNavigate
  <2>1. \/ UNCHANGED dialogs
        \/ dialogs' = [dialogs EXCEPT !.goto = TRUE]
        \/ dialogs' = AskXrefs(CurrentDoc(ctx))
    BY <1>2 DEF MenuNavigate
  <2>2. CurrentDoc(ctx) \in Doc
    BY <1>0, <1>2 DEF MenuNavigate
  <2>3. CASE dialogs' = AskXrefs(CurrentDoc(ctx))
    <3>1. view[CurrentDoc(ctx)].selected \in Addr
      BY <1>0, <2>2
    <3>2. QED  BY <2>2, <2>3, <3>1 DEF DialogsOK, AskXrefs
  <2>4. CASE dialogs' = [dialogs EXCEPT !.goto = TRUE]
    BY <2>4 DEF DialogsOK
  <2>5. QED  BY <1>k, <2>1, <2>3, <2>4
<1>3. ASSUME NEW opened, NEW close, NEW delta, NEW keys, Shortcuts(opened, close, delta, keys)
      PROVE  DialogsOK'
  <2> DEFINE d == CurrentDoc(ctx')
             live == Live(view)
  <2>1. CASE d = NoDoc
    BY <1>3, <1>k, <2>1 DEF Shortcuts, KeyTarget
  <2>2. CASE d # NoDoc
    <3>1. dialogs' = [goto |-> dialogs.goto \/ "g" \in keys,
                      xrefs |-> dialogs.xrefs \/ "x" \in keys,
                      target |-> IF "x" \in keys THEN live[d].selected ELSE dialogs.target,
                      from |-> IF "x" \in keys THEN d ELSE dialogs.from]
      BY <1>3, <2>2 DEF Shortcuts, KeyTarget
    <3>2. d \in Doc
      BY <1>0, <2>2
    <3>3. live[d].selected \in Addr
      BY <3>2, LiveOK DEF ViewOK
    <3> DEFINE g == dialogs.goto \/ "g" \in keys
               x == dialogs.xrefs \/ "x" \in keys
               t == IF "x" \in keys THEN live[d].selected ELSE dialogs.target
               f == IF "x" \in keys THEN d ELSE dialogs.from
    <3>4. dialogs.target \in Addr \cup {0} /\ dialogs.from \in Doc \cup {NoDoc}
      BY DEF DialogsOK
    <3>5. g \in BOOLEAN /\ x \in BOOLEAN
      OBVIOUS
    <3>6. t \in Addr \cup {0} /\ f \in Doc \cup {NoDoc}
      BY <3>2, <3>3, <3>4
    <3>7. dialogs' = [goto |-> g, xrefs |-> x, target |-> t, from |-> f]
      BY <3>1
    <3> HIDE DEF g, x, t, f
    <3>8. QED  BY <3>5, <3>6, <3>7, Zenon DEF DialogsOK
  <2>3. QED  BY <2>1, <2>2
<1>4. CASE GotoDialog
  <2>1. UNCHANGED dialogs \/ dialogs' = [dialogs EXCEPT !.goto = FALSE]
    BY <1>4 DEF GotoDialog
  <2>2. CASE dialogs' = [dialogs EXCEPT !.goto = FALSE]
    BY <2>2 DEF DialogsOK
  <2>3. QED  BY <1>k, <2>1, <2>2
<1>5. CASE XrefsPopup
  <2>1. UNCHANGED dialogs \/ dialogs' = [dialogs EXCEPT !.xrefs = FALSE]
    BY <1>5 DEF XrefsPopup, ClosedXrefs
  <2>2. CASE dialogs' = [dialogs EXCEPT !.xrefs = FALSE]
    BY <2>2 DEF DialogsOK
  <2>3. QED  BY <1>k, <2>1, <2>2
<1>6. QED  BY <1>1, <1>2, <1>3, <1>4, <1>5 DEF AppNext

\* The order of the windows, and what is left of the dialogs after each.
LEMMA FrameStep ==
    ASSUME DialogsOK, FrameOK, CtxOK(ctx), AppNext
    PROVE  FrameOK'
<1>0. ctx.docs = <<>> => ~HasDoc(ctx)
  BY CurrentIsDoc
<1>1. CASE Drops
  <2>1. stage = "drops" /\ part' = part /\ dialogs' = dialogs
    BY <1>1 DEF Drops, DropsDone, DropFile
  <2>2. CASE DropsDone
    BY <2>1, <2>2 DEF DropsDone, FrameOK, DialogsNeedDocument
  <2>3. ASSUME NEW d \in Closed, DropFile(d) PROVE FrameOK'
    <3>1. ctx' = OpenDoc(ctx, d) /\ stage' = "drops"
      BY <2>3 DEF DropFile
    <3>2. ctx'.docs = Append(ctx.docs, d) /\ ctx.docs \in Seq(Doc) /\ d \in Doc
      BY <3>1 DEF OpenDoc, SelectIn, CtxOK, CtxType, Closed
    <3>3. ctx'.docs # <<>>
      BY <3>2, AppendProperties
    <3>4. QED  BY <2>1, <3>1, <3>3 DEF FrameOK, DialogsNeedDocument
  <2>4. QED  BY <1>1, <2>2, <2>3 DEF Drops
<1>2. CASE MenuFile \/ MenuNavigate \/ HostWindow
  <2>1. stage # "views" /\ stage' \in {"host", "keys"} /\ part' = part
    BY <1>2 DEF MenuFile, MenuNavigate, HostWindow, MenuIdle, MenuClose, MenuOpen, HostEmpty, Host
  <2>2. QED  BY <2>1 DEF FrameOK, DialogsNeedDocument
<1>3. ASSUME NEW opened, NEW close, NEW delta, NEW keys, Shortcuts(opened, close, delta, keys)
      PROVE  FrameOK'
  <2>1. stage = "keys" /\ stage' = "views" /\ part' = part
    BY <1>3 DEF Shortcuts, KeysIdle, Keys
  <2>2. QED  BY <2>1 DEF FrameOK, DialogsNeedDocument
<1>4. CASE HiddenWindow \/ DisasmWindow \/ HexWindow \/ ListWindows
  <2>1. stage = "views" /\ stage' = stage /\ part' \in {"hex", "lists", "goto"}
    BY <1>4 DEF HiddenWindow, Hidden, DisasmWindow, HexWindow, ListWindows, Drawn, InPart, vars
  <2>2. QED  BY <2>1 DEF FrameOK, DialogsNeedDocument
<1>5. CASE GotoDialog
  <2>1. stage = "views" /\ stage' = stage /\ part' = "xrefs" /\ ctx' = ctx
    BY <1>5 DEF GotoDialog, Drawn, InPart, vars
  <2>2. \/ (dialogs.goto => HasDoc(ctx)) /\ dialogs' = dialogs
        \/ dialogs' = [dialogs EXCEPT !.goto = FALSE]
    BY <1>5 DEF GotoDialog
  <2>3. ctx.docs = <<>> => ~dialogs'.goto
    BY <1>0, <2>2 DEF DialogsOK
  <2>4. QED  BY <2>1, <2>3 DEF FrameOK, DialogsNeedDocument
<1>6. CASE XrefsPopup
  <2>1. /\ stage = "views" /\ stage' = "drops" /\ part = "xrefs" /\ part' = "disasm"
        /\ ctx' = ctx
    BY <1>6 DEF XrefsPopup, InPart, EndFrame
  <2>2. \/ (dialogs.xrefs => HasDoc(ctx)) /\ dialogs' = dialogs
        \/ dialogs' = [dialogs EXCEPT !.xrefs = FALSE]
    BY <1>6 DEF XrefsPopup, ClosedXrefs
  <2>3. ctx.docs = <<>> => ~dialogs'.xrefs /\ dialogs'.goto = dialogs.goto
    BY <1>0, <2>2 DEF DialogsOK
  <2>4. ctx.docs = <<>> => ~dialogs.goto
    BY <2>1 DEF FrameOK
  <2>5. QED  BY <2>1, <2>3, <2>4 DEF FrameOK, DialogsNeedDocument
<1>7. QED  BY <1>1, <1>2, <1>3, <1>4, <1>5, <1>6 DEF AppNext

LEMMA AppInitOK == AppInit => IInv /\ AppInv
<1> SUFFICES ASSUME AppInit PROVE IInv /\ AppInv
  OBVIOUS
<1>1. IInv
  <2>1. Init => IInv
    BY InitOK
  <2>2. QED  BY <2>1 DEF AppInit
<1>2. ViewsOK
  BY LoadedOK DEF AppInit, ViewsOK
<1>3. DialogsOK
  BY DEF AppInit, DialogsOK
<1>4. FrameOK
  BY DEF AppInit, FrameOK, DialogsNeedDocument
<1>5. QED  BY <1>1, <1>2, <1>3, <1>4 DEF AppInv

LEMMA AppStep ==
    ASSUME IInv, AppInv, [AppNext]_appAll
    PROVE  IInv' /\ AppInv'
<1>1. IInv'
  BY TabsStep, StepOK
<1>2. CtxOK(ctx) /\ CtxOK(ctx')
  BY <1>1, IInvCtx, IInvCtxNext
<1>3. CASE AppNext
  BY <1>1, <1>2, <1>3, ViewsStep, DialogsStep, FrameStep DEF AppInv
<1>4. CASE UNCHANGED appAll
  BY <1>1, <1>4 DEF AppInv, ViewsOK, ViewOK, DialogsOK, FrameOK, DialogsNeedDocument, appAll, appVars, vars
<1>5. QED  BY <1>3, <1>4

LEMMA AppInductive == AppSpec => [](IInv /\ AppInv)
<1>1. AppInit => IInv /\ AppInv
  BY AppInitOK
<1>2. (IInv /\ AppInv) /\ [AppNext]_<<vars, appVars>> => (IInv /\ AppInv)'
  BY AppStep DEF appAll
<1>3. QED  BY <1>1, <1>2, PTL DEF AppSpec

-----------------------------------------------------------------------------
\* The frame with everything it draws is one of the tabs' frames: what DocTabs
\* proves holds of the application.
THEOREM FramesAreTabs == AppSpec => Spec
<1>1. AppInit => Init
  BY DEF AppInit
<1>2. [AppNext]_<<vars, appVars>> => [Next]_vars
  BY TabsStep DEF appAll
<1>3. QED  BY <1>1, <1>2, PTL DEF AppSpec, Spec

\* Types of everything App adds.
THEOREM AppTypeCorrect == AppSpec => []AppTypeOK
<1>1. AppInv => AppTypeOK
  <2> SUFFICES ASSUME AppInv PROVE AppTypeOK
    OBVIOUS
  <2>1. ASSUME NEW d \in Doc
        PROVE  /\ view[d].selected \in Addr /\ view[d].pending \in Addr \cup {NoAddr}
               /\ {view[d].nav.back, view[d].nav.forward} \subseteq Seq(Addr \ {NoAddr})
               /\ view[d].nav.current \in Addr
    BY DEF AppInv, ViewsOK, ViewOK, NavType, Place
  <2>2. dialogs.goto \in BOOLEAN /\ dialogs.xrefs \in BOOLEAN
    BY DEF AppInv, DialogsOK
  <2>3. QED  BY <2>1, <2>2 DEF AppTypeOK, AppInv, FrameOK
<1>2. QED  BY <1>1, AppInductive, PTL

\* A scroll still to be done is a scroll to the place the history is at.
THEOREM ScrollIsToHistoryCorrect == AppSpec => []ScrollIsToHistory
<1>1. AppInv => ScrollIsToHistory
  BY DEF AppInv, ViewsOK, ViewOK, ScrollIsToHistory
<1>2. QED  BY <1>1, AppInductive, PTL

\* With no scroll outstanding the selection is the start of a row.
THEOREM SelectionIsRowCorrect == AppSpec => []SelectionIsRow
<1>1. AppInv => SelectionIsRow
  BY DEF AppInv, ViewsOK, ViewOK, SelectionIsRow
<1>2. QED  BY <1>1, AppInductive, PTL

\* No dialog waits for the next document.
THEOREM DialogsNeedDocumentCorrect == AppSpec => []DialogsNeedDocument
<1>1. AppInv => DialogsNeedDocument
  BY DEF AppInv, FrameOK
<1>2. QED  BY <1>1, AppInductive, PTL

-----------------------------------------------------------------------------
\* An open document keeps its view when others are closed.
LEMMA LiveKeeps ==
    ASSUME CtxOK(ctx'), NEW d \in Doc, IsOpen(d)'
    PROVE  Live(view)[d] = view[d]
<1>1. PICK i \in 1..Len(ctx'.docs) : ctx'.docs[i] = d
  BY DEF IsOpen
<1>2. Len(ctx'.docs) \in Nat
  BY IndexFacts DEF CtxOK
<1>3. i - 1 \in Indices(ctx') /\ DocAt(ctx', i - 1) = d
  <2>1. i - 1 \in 0..(Len(ctx'.docs) - 1) /\ (i - 1) + 1 = i
    BY <1>2
  <2>2. QED  BY <1>1, <2>1 DEF Indices, DocAt
<1>4. QED  BY <1>3 DEF Live, OpenIn

\* What a handler writes is the view of the document current afterwards, or
\* of a document that is not open.
LEMMA MovesCurrent ==
    ASSUME ViewsOK, CtxOK(ctx'), AppNext, NEW d \in Doc, IsOpen(d)', view'[d] # view[d]
    PROVE  d = CurrentDoc(ctx')
<1> DEFINE c == CurrentDoc(ctx)
<1>e. \A k, w : view' = [view EXCEPT ![k] = w] => d = k
  BY DEF ViewsOK
<1>1. CASE Drops \/ HexWindow \/ HiddenWindow
  BY <1>1 DEF Drops, HexWindow, HiddenWindow
<1>2. CASE MenuFile \/ HostWindow
  BY <1>2, LiveKeeps DEF MenuFile, HostWindow
<1>3. CASE MenuNavigate \/ DisasmWindow \/ ListWindows \/ GotoDialog \/ XrefsPopup
  <2>1. ctx' = ctx
    BY <1>3 DEF MenuNavigate, MenuIdle, DisasmWindow, ListWindows, GotoDialog, XrefsPopup,
                EndFrame, Drawn, vars
  <2>2. \E w : view' = [view EXCEPT ![c] = w]
    <3>1. CASE MenuNavigate
      BY <3>1 DEF MenuNavigate
    <3>2. CASE DisasmWindow
      BY <3>2 DEF DisasmWindow
    <3>3. CASE ListWindows
      BY <3>3 DEF ListWindows
    <3>4. CASE GotoDialog
      BY <3>4 DEF GotoDialog
    <3>5. CASE XrefsPopup
      BY <3>5 DEF XrefsPopup
    <3>6. QED  BY <1>3, <3>1, <3>2, <3>3, <3>4, <3>5
  <2>3. QED  BY <1>e, <2>1, <2>2
<1>4. ASSUME NEW opened, NEW close, NEW delta, NEW keys, Shortcuts(opened, close, delta, keys)
      PROVE  d = CurrentDoc(ctx')
  <2> DEFINE k == CurrentDoc(ctx')
             live == Live(view)
  <2>1. live[d] = view[d] /\ live = [e \in Doc |-> live[e]]
    BY LiveKeeps, LiveOK
  <2>2. view' = live \/ view' = [live EXCEPT ![k] = Travel(live[k], keys)]
    BY <1>4 DEF Shortcuts, KeyTarget
  <2> HIDE DEF k, live
  <2>3. d = k
    BY <2>1, <2>2
  <2>4. QED  BY <2>3 DEF k
<1>5. QED  BY <1>1, <1>2, <1>3, <1>4 DEF AppNext

\* Each document has its own state: no step moves the history, selection or
\* scroll of an open document other than the current one.
THEOREM OnlyCurrentMovesCorrect == AppSpec => OnlyCurrentMoves
<1>1. (IInv /\ AppInv) /\ [AppNext]_<<vars, appVars>> =>
        [\A d \in Doc : IsOpen(d) /\ IsOpen(d)' /\ view'[d] # view[d] => d = CurrentDoc(ctx')]_<<vars, appVars>>
  <2> SUFFICES ASSUME IInv, AppInv, [AppNext]_appAll, ~UNCHANGED appAll,
                      NEW d \in Doc, IsOpen(d)', view'[d] # view[d]
               PROVE  d = CurrentDoc(ctx')
    BY DEF appAll
  <2>1. CtxOK(ctx')
    BY TabsStep, StepOK, IInvCtxNext
  <2>2. QED  BY <2>1, MovesCurrent DEF AppInv
<1>2. QED  BY <1>1, AppInductive, PTL DEF AppSpec, OnlyCurrentMoves

-----------------------------------------------------------------------------
\* The statics of the hex view are about the bytes it showed last, as long as
\* their document is open.
HexOK ==
    /\ hex = [addr |-> hex.addr, sec |-> hex.sec, doc |-> hex.doc, at |-> hex.at,
              seen |-> hex.seen, shown |-> hex.shown]
    /\ hex.shown = <<hex.shown[1], hex.shown[2]>>
    /\ hex.shown[2] = hex.addr
    /\ hex.shown[1] # NoDoc => hex.doc = hex.shown[1]

LEMMA HexInitOK == AppInit => HexOK
BY DEF AppInit, HexOK

\* Opening and closing documents: a pointer to a document that stays open is
\* kept, and any other is about no bytes.
LEMMA HexKeptOK ==
    ASSUME HexOK, HexKept
    PROVE  HexOK'
<1> DEFINE bytes == <<IF OpenIn(ctx', hex.shown[1]) THEN hex.shown[1] ELSE NoDoc, hex.shown[2]>>
<1>1. PICK p \in Pointee(hex.doc) :
        hex' = [addr |-> hex.addr, sec |-> hex.sec, doc |-> p, at |-> hex.at,
                seen |-> hex.seen, shown |-> bytes]
  BY DEF HexKept, HexOK
<1>2. hex'.addr = hex.addr /\ hex'.doc = p /\ hex'.shown = bytes
  BY <1>1
<1>3. hex'.shown[1] # NoDoc => p = hex'.shown[1]
  <2>1. SUFFICES ASSUME hex'.shown[1] # NoDoc
                 PROVE  p = hex'.shown[1]
    OBVIOUS
  <2>2. OpenIn(ctx', hex.shown[1]) /\ hex'.shown[1] = hex.shown[1]
    BY <1>2, <2>1
  <2>3. hex.doc = hex.shown[1]
    BY <2>1, <2>2 DEF HexOK
  <2>4. p = hex.doc
    BY <1>1, <2>2, <2>3 DEF Pointee
  <2>5. QED  BY <2>2, <2>3, <2>4
<1>4. hex'.shown[2] = hex'.addr /\ hex'.shown = <<hex'.shown[1], hex'.shown[2]>>
  BY <1>2 DEF HexOK
<1>5. QED  BY <1>1, <1>2, <1>3, <1>4 DEF HexOK

LEMMA HexStep ==
    ASSUME HexOK, [AppNext]_appAll
    PROVE  HexOK'
<1>1. CASE HexWindow
  <2> DEFINE d == CurrentDoc(ctx)
             a == view[d].selected
             sec == Section[d][a]
             at == IF a \in Beyond[d] THEN hex.at ELSE a
  <2>1. DrawDash \/ DrawBytes(d, a, sec)
    BY <1>1 DEF HexWindow
  <2> HIDE DEF d, a, sec, at
  <2>2. CASE DrawDash
    <3>1. hex' = [addr |-> hex.addr, sec |-> hex.sec, doc |-> hex.doc, at |-> 0,
                  seen |-> NothingSeen, shown |-> hex.shown]
      BY <2>2 DEF DrawDash, HexOK
    <3>2. QED  BY <3>1 DEF HexOK
  <2>3. CASE DrawBytes(d, a, sec) /\ HexMoved(hex, d, a, sec)
    <3>1. hex' = [addr |-> a, sec |-> sec, doc |-> d, at |-> at,
                  seen |-> <<d, a>>, shown |-> <<d, a>>]
      BY <2>3 DEF DrawBytes, at
    <3>2. QED  BY <3>1 DEF HexOK
  <2>4. CASE DrawBytes(d, a, sec) /\ ~HexMoved(hex, d, a, sec)
    <3>1. hex.addr = a /\ hex.doc = d
      BY <2>4 DEF HexMoved
    <3>2. hex' = [addr |-> hex.addr, sec |-> hex.sec, doc |-> hex.doc, at |-> hex.at,
                  seen |-> <<d, a>>, shown |-> <<d, a>>]
      BY <2>4 DEF DrawBytes, HexOK
    <3>3. QED  BY <3>1, <3>2 DEF HexOK
  <2>5. QED  BY <2>1, <2>2, <2>3, <2>4
<1>2. CASE HexKept
  BY <1>2, HexKeptOK
<1>3. CASE UNCHANGED hex
  BY <1>3 DEF HexOK
<1>4. HexWindow \/ HexKept \/ UNCHANGED hex
  BY DEF AppNext, Drops, MenuFile, MenuNavigate, HostWindow, Shortcuts, HiddenWindow, DisasmWindow,
         ListWindows, GotoDialog, XrefsPopup, appAll, appVars
<1>5. QED  BY <1>1, <1>2, <1>3, <1>4

\* Other bytes than those it showed last differ from the statics.
LEMMA HexScrolls ==
    ASSUME HexOK, NEW d \in Doc, NEW a \in Addr, DrawsHex(d, a),
           a # hex.shown[2] \/ (hex.shown[1] # NoDoc /\ d # hex.shown[1])
    PROVE  hex'.at = a
<1>1. /\ HexWindow /\ HasDoc(ctx) /\ d = CurrentDoc(ctx) /\ a = view[d].selected
      /\ Section[d][a] # 0 /\ a \notin Beyond[d]
  BY DEF DrawsHex
<1>2. HexMoved(hex, d, a, Section[d][a])
  BY DEF HexOK, HexMoved
<1>3. DrawBytes(d, a, Section[d][a])
  BY <1>1 DEF HexWindow
<1>4. hex' = [addr |-> a, sec |-> Section[d][a], doc |-> d, at |-> a,
              seen |-> <<d, a>>, shown |-> <<d, a>>]
  BY <1>1, <1>2, <1>3 DEF DrawBytes
<1>5. QED  BY <1>4

\* The hex view follows the cursor to any address other than the last it showed,
\* and to any document other than the open one it showed last: across tab
\* switches, drawings without bytes or without a document, hidden windows, and
\* documents destroyed and loaded again at the same place in memory.
THEOREM HexFollowsBytesCorrect == AppSpec => HexFollowsBytes
<1>1. AppInit => HexOK
  BY HexInitOK
<1>2. HexOK /\ [AppNext]_<<vars, appVars>> => HexOK'
  BY HexStep DEF appAll
<1>3. HexOK /\ [AppNext]_<<vars, appVars>> =>
        [\A d \in Doc, a \in Addr :
             /\ DrawsHex(d, a)
             /\ a # hex.shown[2] \/ (hex.shown[1] # NoDoc /\ d # hex.shown[1])
             => hex'.at = a]_<<vars, appVars>>
  BY HexScrolls
<1>4. QED  BY <1>1, <1>2, <1>3, PTL DEF AppSpec, HexFollowsBytes
=============================================================================
