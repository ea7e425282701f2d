------------------------- MODULE SymbolStoreProofs -------------------------
(***************************************************************************)
(* Theorems about analysis::SymbolStore, for any addresses and names, and  *)
(* about the loading of a document (Document), which is one of its clients *)
(* and, for any code, leaves every call with a name.                       *)
(***************************************************************************)
EXTENDS Loading, FiniteSetTheorems, SequenceLemmas

\* Every text add() is given is a name or a made-up one.
LEMMA TextFacts ==
    /\ \A n \in Name : n \in Text
    /\ \A a \in Addr : SubName(a) \in Text
    /\ CallerSource \subseteq Source /\ AutoSource \in Source /\ Source \subseteq Nat
BY DEF Text, CallerSource, Source, AutoSource, ImportIat, Export, Pdb, User

\* Each step of the store is a stutter, a clear, or an offer of a text.
LEMMA StepCases ==
    ASSUME [Next]_vars
    PROVE  \/ \E a \in Addr, t \in Text, s \in Source : Add(a, t, s)
           \/ Clear
           \/ UNCHANGED vars
BY TextFacts DEF Next, EnsureSub

\* Type correctness: in particular every entry points at a live name.
THEOREM TypeCorrect == Spec => []TypeOK
<1>1. Init => TypeOK
  BY DEF Init, TypeOK, NoSymbols
<1>2. TypeOK /\ [Next]_vars => TypeOK'
  <2> SUFFICES ASSUME TypeOK, [Next]_vars PROVE TypeOK'
    OBVIOUS
  <2>1. ASSUME NEW a \in Addr, NEW t \in Text, NEW s \in Source, Add(a, t, s)
        PROVE  TypeOK'
    <3>1. offers' \in Seq(Offer)
      BY <2>1 DEF Add, TypeOK, Offer
    <3>2. CASE KeepsEntry(a, s)
      BY <2>1, <3>1, <3>2 DEF Add, TypeOK
    <3>3. CASE ~KeepsEntry(a, s)
      <4>0. /\ storage' = Append(storage, t)
            /\ map' = [b \in DOMAIN map \cup {a} |->
                         IF b = a THEN [name |-> Len(storage) + 1, src |-> s]
                         ELSE map[b]]
        BY <2>1, <3>3 DEF Add, Store
      <4>1. /\ storage' \in Seq(Text) /\ Len(storage') = Len(storage) + 1
            /\ Len(storage) \in Nat
        BY <4>0, AppendProperties, LenProperties DEF TypeOK
      <4>2. [name |-> Len(storage) + 1, src |-> s] \in Entry
        BY <4>1 DEF Entry
      <4>3. DOMAIN map' = DOMAIN map \cup {a} /\ DOMAIN map' \subseteq Addr
        BY <4>0 DEF TypeOK
      <4>4. \A b \in DOMAIN map' : map'[b] \in Entry /\ map'[b].name <= Len(storage')
        <5> TAKE b \in DOMAIN map'
        <5>1. CASE b = a
          BY <4>0, <4>1, <4>2, <4>3, <5>1
        <5>2. CASE b # a
          <6>1. b \in DOMAIN map /\ map'[b] = map[b]
            BY <4>0, <4>3, <5>2
          <6>2. map[b] \in Entry /\ map[b].name <= Len(storage) /\ map[b].name \in Nat
            BY <6>1 DEF TypeOK, Entry
          <6>3. QED  BY <4>1, <6>1, <6>2
        <5>3. QED  BY <5>1, <5>2
      <4>5. map' \in [DOMAIN map' -> Entry]
        BY <4>0, <4>3, <4>4
      <4>6. QED  BY <3>1, <4>1, <4>3, <4>4, <4>5 DEF TypeOK
    <3>4. QED  BY <3>2, <3>3
  <2>2. CASE Clear
    BY <2>2 DEF Clear, TypeOK, NoSymbols
  <2>3. CASE UNCHANGED vars
    BY <2>3 DEF vars, TypeOK
  <2>4. QED  BY <2>1, <2>2, <2>3, StepCases
<1>3. QED  BY <1>1, <1>2, PTL DEF Spec

-----------------------------------------------------------------------------
\* What an address shows, said of one offer.
Shows(i, a) ==
    /\ offers[i].addr = a /\ Wins(i)
    /\ offers[i].text = Find(a) /\ offers[i].src = map[a].src

\* Each address shows the first offer of the strongest source.
THEOREM FirstOfStrongestCorrect == Spec => []FirstOfStrongest
<1>1. Init => FirstOfStrongest
  BY DEF Init, FirstOfStrongest, HasSymbol, NoSymbols
<1>2. TypeOK /\ FirstOfStrongest /\ [Next]_vars => FirstOfStrongest'
  <2> SUFFICES ASSUME TypeOK, FirstOfStrongest, [Next]_vars PROVE FirstOfStrongest'
    OBVIOUS
  <2>1. ASSUME NEW a \in Addr, NEW t \in Text, NEW s \in Source, Add(a, t, s)
        PROVE  FirstOfStrongest'
    <3> PICK n : n = Len(offers) + 1
      OBVIOUS
    <3> DEFINE o == [addr |-> a, text |-> t, src |-> s]
    <3>1. /\ o \in Offer /\ n \in Nat /\ offers' = Append(offers, o)
          /\ Len(offers') = n /\ offers'[n] = o
          /\ \A i \in 1..Len(offers) : offers'[i] = offers[i]
      BY <2>1, AppendProperties, LenProperties DEF Add, TypeOK, Offer
    <3>2. \A i \in 1..n : i \in 1..Len(offers) \/ i = n
      BY <3>1
    <3>3. \A i \in 1..Len(offers) : i \in 1..n /\ i # n /\ offers[i] \in Offer
      BY <3>1, ElementOfSeq DEF TypeOK
    <3> HIDE DEF o
    <3>4. /\ \A b \in Addr : b # a => (HasSymbol(b)' <=> HasSymbol(b))
          /\ \A b \in Addr : b # a /\ HasSymbol(b) =>
                 Find(b)' = Find(b) /\ map'[b].src = map[b].src
      <4>1. CASE KeepsEntry(a, s)
        BY <2>1, <4>1 DEF Add, HasSymbol, Find
      <4>2. CASE ~KeepsEntry(a, s)
        <5>0. /\ storage' = Append(storage, t)
              /\ map' = [b \in DOMAIN map \cup {a} |->
                           IF b = a THEN [name |-> Len(storage) + 1, src |-> s]
                           ELSE map[b]]
          BY <2>1, <4>2 DEF Add, Store
        <5>1. ASSUME NEW b \in Addr, b # a, HasSymbol(b)
              PROVE  Find(b)' = Find(b) /\ map'[b].src = map[b].src
          <6>1. map'[b] = map[b] /\ map[b].name \in 1..Len(storage)
            BY <5>0, <5>1, LenProperties DEF HasSymbol, TypeOK, Entry
          <6>2. storage'[map[b].name] = storage[map[b].name]
            BY <5>0, <6>1, AppendProperties DEF TypeOK
          <6>3. QED  BY <6>1, <6>2 DEF Find
        <5>2. QED  BY <5>0, <5>1 DEF HasSymbol
      <4>3. QED  BY <4>1, <4>2
    <3>5. ASSUME NEW b \in Addr, b # a
          PROVE  IF HasSymbol(b)' THEN \E i \in 1..n : Shows(i, b)'
                 ELSE \A i \in 1..n : offers'[i].addr # b
      <4>1. CASE HasSymbol(b)
        <5>1. PICK i \in 1..Len(offers) : Shows(i, b)
          BY <4>1 DEF FirstOfStrongest, Shows
        <5>2. Wins(i)'
          BY <3>1, <3>2, <3>3, <3>5, <5>1 DEF Wins, Shows, o
        <5>3. Shows(i, b)'
          BY <3>1, <3>4, <3>5, <4>1, <5>1, <5>2 DEF Shows
        <5>4. QED  BY <3>3, <3>4, <3>5, <4>1, <5>3
      <4>2. CASE ~HasSymbol(b)
        <5>1. \A i \in 1..n : offers'[i].addr # b
          BY <3>1, <3>2, <3>5, <4>2 DEF FirstOfStrongest, o
        <5>2. QED  BY <3>4, <3>5, <4>2, <5>1
      <4>3. QED  BY <4>1, <4>2
    <3>6. HasSymbol(a)' /\ \E i \in 1..n : Shows(i, a)'
      <4>1. CASE KeepsEntry(a, s)
        <5>0. map' = map /\ storage' = storage /\ HasSymbol(a) /\ map[a].src >= s
          BY <2>1, <4>1 DEF Add, KeepsEntry
        <5>1. PICK i \in 1..Len(offers) : Shows(i, a)
          BY <5>0 DEF FirstOfStrongest, Shows
        <5>2. offers[i].src >= s /\ offers[i].src \in Nat /\ s \in Nat /\ i <= n
          <6>1. offers[i].src = map[a].src
            BY <5>1 DEF Shows
          <6>2. offers[i].src \in Nat /\ s \in Nat
            BY <3>3, TextFacts DEF Offer
          <6>3. Len(offers) \in Nat /\ n = Len(offers) + 1
            BY LenProperties DEF TypeOK
          <6>4. i <= n
            BY <6>3
          <6>5. QED  BY <5>0, <6>1, <6>2, <6>4
        <5>3. Wins(i)'
          BY <3>1, <3>2, <3>3, <5>1, <5>2 DEF Wins, Shows, o
        <5>4. Shows(i, a)'
          BY <3>1, <5>0, <5>1, <5>3 DEF Shows, Find
        <5>5. QED  BY <3>3, <5>0, <5>4 DEF HasSymbol
      <4>2. CASE ~KeepsEntry(a, s)
        <5>0. /\ storage' = Append(storage, t)
              /\ map'[a] = [name |-> Len(storage) + 1, src |-> s]
              /\ a \in DOMAIN map'
          BY <2>1, <4>2 DEF Add, Store
        <5>1. Find(a)' = t /\ map'[a].src = s
          BY <5>0, AppendProperties DEF Find, TypeOK
        <5>2. \A j \in 1..Len(offers) : offers[j].addr = a => offers[j].src < s
          <6> TAKE j \in 1..Len(offers)
          <6> HAVE offers[j].addr = a
          <6>1. HasSymbol(a)
            BY DEF FirstOfStrongest
          <6>2. PICK i \in 1..Len(offers) : Shows(i, a)
            BY <6>1 DEF FirstOfStrongest, Shows
          <6>3. offers[j].src <= offers[i].src /\ offers[i].src = map[a].src
            BY <6>2 DEF Shows, Wins
          <6>4. ~(map[a].src >= s)
            BY <4>2, <6>1 DEF KeepsEntry
          <6>5. offers[j].src \in Nat /\ offers[i].src \in Nat /\ s \in Nat
            BY <3>3, TextFacts DEF Offer
          <6>6. QED  BY <6>3, <6>4, <6>5
        <5>3. Wins(n)'
          <6> SUFFICES ASSUME NEW j \in 1..n, offers'[j].addr = a
                       PROVE  /\ offers'[j].src <= s
                              /\ offers'[j].src = s => n <= j
            BY <3>1 DEF Wins, o
          <6>1. CASE j = n
            BY <3>1, <6>1, TextFacts DEF o
          <6>2. CASE j # n
            <7>1. j \in 1..Len(offers) /\ offers'[j] = offers[j]
              BY <3>1, <3>2, <6>2
            <7>2. offers[j].src < s /\ offers[j].src \in Nat /\ s \in Nat
              BY <3>3, <5>2, <7>1, TextFacts DEF Offer
            <7>3. QED  BY <7>1, <7>2
          <6>3. QED  BY <6>1, <6>2
        <5>4. Shows(n, a)'
          BY <3>1, <5>1, <5>3 DEF Shows, o
        <5>5. n \in 1..n
          BY <3>1, LenProperties DEF TypeOK
        <5>6. QED  BY <5>0, <5>4, <5>5 DEF HasSymbol
      <4>3. QED  BY <4>1, <4>2
    <3>7. QED  BY <3>1, <3>5, <3>6 DEF FirstOfStrongest, Shows
  <2>2. CASE Clear
    BY <2>2 DEF Clear, FirstOfStrongest, HasSymbol, NoSymbols
  <2>3. CASE UNCHANGED vars
    BY <2>3 DEF vars, FirstOfStrongest, HasSymbol, Wins, Find
  <2>4. QED  BY <2>1, <2>2, <2>3, StepCases
<1>3. QED  BY <1>1, <1>2, TypeCorrect, PTL DEF Spec

\* Each address shows a name of the strongest source that offered one.
THEOREM StrongestShownCorrect == Spec => []StrongestShown
<1>1. FirstOfStrongest => StrongestShown
  <2> SUFFICES ASSUME FirstOfStrongest, NEW a \in Addr, HasSymbol(a)
               PROVE  \E i \in 1..Len(offers) :
                          /\ offers[i].addr = a /\ offers[i].text = Find(a)
                          /\ \A j \in 1..Len(offers) :
                                 offers[j].addr = a => offers[j].src <= offers[i].src
    BY DEF FirstOfStrongest, StrongestShown
  <2>1. PICK i \in 1..Len(offers) : Shows(i, a)
    BY DEF FirstOfStrongest, Shows
  <2>2. QED  BY <2>1 DEF Shows, Wins
<1>2. QED  BY <1>1, FirstOfStrongestCorrect, PTL

\* A name handed out keeps its text until the store is cleared.
THEOREM NamesStayCorrect == Spec => NamesStay
<1>1. TypeOK /\ [Next]_vars =>
        [map' # NoSymbols =>
            \A p \in 1..Len(storage) : p <= Len(storage') /\ storage'[p] = storage[p]]_vars
  <2> SUFFICES ASSUME TypeOK, Next, map' # NoSymbols, NEW p \in 1..Len(storage)
               PROVE  p <= Len(storage') /\ storage'[p] = storage[p]
    OBVIOUS
  <2>1. Len(storage) \in Nat
    BY LenProperties DEF TypeOK
  <2>2. ASSUME NEW a \in Addr, NEW t \in Text, NEW s \in Source, Add(a, t, s)
        PROVE  p <= Len(storage') /\ storage'[p] = storage[p]
    BY <2>1, <2>2, AppendProperties DEF Add, Store, TypeOK
  <2>3. QED  BY <2>1, <2>2, StepCases DEF Clear, vars
<1>2. QED  BY <1>1, TypeCorrect, PTL DEF Spec, NamesStay

-----------------------------------------------------------------------------
(* Loading.  The stages of load_into_document offer names to the store and   *)
(* never touch it otherwise.                                                 *)

\* The loops over the index stay on its rows.
CodeOK == code \in Codes /\ row \in Nat \ {0}

LEMMA CodeFacts ==
    ASSUME CodeOK
    PROVE  /\ code \in Seq(Instruction(Addr)) /\ Len(code) \in Nat
           /\ \A i \in 1..Len(code) : code[i].imm \in Addr \cup {None}
           /\ None \notin Addr
<1>1. code \in Seq(Instruction(Addr)) /\ Addr \subseteq Nat
  BY CodesAssumption DEF CodeOK
<1>2. Len(code) \in Nat /\ \A i \in 1..Len(code) : code[i] \in Instruction(Addr)
  BY <1>1, LenProperties, ElementOfSeq
<1>3. \A in \in Instruction(Addr) : in.imm \in Addr \cup {None}
  BY DEF Instruction
<1>4. None \notin Addr
  BY <1>1 DEF None
<1>5. QED  BY <1>1, <1>2, <1>3, <1>4

LEMMA CodeStep == CodeOK /\ [DocNext]_<<vars, docVars>> => CodeOK'
<1> SUFFICES ASSUME CodeOK, [DocNext]_<<vars, docVars>> PROVE CodeOK'
  OBVIOUS
<1>0. ASSUME NEW s, GoTo(s), code' \in Codes PROVE CodeOK'
  BY <1>0 DEF GoTo, CodeOK
<1>k. ASSUME UNCHANGED <<code, row>> PROVE CodeOK'
  BY <1>k DEF CodeOK
<1>r. ASSUME NextRow PROVE CodeOK'
  BY <1>r DEF NextRow, CodeOK
<1>1. CASE LoadImage \/ InitEngine \/ Place
  BY <1>0, <1>1 DEF LoadImage, InitEngine, Place, Fail, CodeOK
<1>2. ASSUME NEW s, NEW n, NEW src, Naming(s, n, src) PROVE CodeOK'
  BY <1>0, <1>k, <1>2 DEF Naming, docVars, CodeOK
<1>3. ASSUME NEW s, NEW n, AfterRows(s, n) PROVE CodeOK'
  BY <1>0, <1>3 DEF AfterRows, CodeOK
<1>4. CASE NameSubs \/ BuildXrefs
  BY <1>3, <1>r, <1>4 DEF NameSubs, BuildXrefs
<1>5. CASE UNCHANGED <<vars, docVars>>
  BY <1>k, <1>5 DEF docVars
<1>6. QED
  BY <1>1, <1>2, <1>4, <1>5 DEF DocNext, LoadEnded, NameImports, NameExports, NamePdb

\* Each step of loading is a step of the store or none.
LEMMA NamingStep == CodeOK /\ [DocNext]_<<vars, docVars>> => [Next]_vars
<1> SUFFICES ASSUME CodeOK, [DocNext]_<<vars, docVars>> PROVE [Next]_vars
  OBVIOUS
<1>1. CASE LoadImage \/ InitEngine \/ BuildXrefs \/ Place
  BY <1>1 DEF LoadImage, InitEngine, BuildXrefs, Place, Fail, AfterRows, vars
<1>2. ASSUME NEW s, NEW n, NEW src \in CallerSource, Naming(s, n, src) PROVE [Next]_vars
  BY <1>2 DEF Naming, Next, vars
<1>3. CASE NameSubs
  <2>1. CASE AfterRows("subs", "xrefs")
    BY <2>1 DEF AfterRows, vars
  <2>2. CASE AtRow("subs") /\ (IF NamesTarget(code[row]) /\ ~HasSymbol(code[row].imm)
                               THEN EnsureSub(code[row].imm) ELSE UNCHANGED vars)
    <3>1. row \in 1..Len(code)
      BY <2>2, CodeFacts DEF AtRow, CodeOK
    <3>2. NamesTarget(code[row]) => code[row].imm \in Addr
      BY <3>1, CodeFacts DEF NamesTarget
    <3>3. QED  BY <2>2, <3>2 DEF Next
  <2>3. QED  BY <1>3, <2>1, <2>2 DEF NameSubs
<1>4. CASE UNCHANGED <<vars, docVars>>
  BY <1>4
<1>5. ImportIat \in CallerSource /\ Export \in CallerSource /\ Pdb \in CallerSource
  BY DEF CallerSource
<1>6. QED
  BY <1>1, <1>2, <1>3, <1>4, <1>5 DEF DocNext, LoadEnded, NameImports, NameExports, NamePdb

LEMMA CodeInductive == DocSpec => []CodeOK
<1>1. DocInit => CodeOK
  <2>1. DocInit => code \in Codes /\ row = 1
    BY DEF DocInit
  <2>2. 1 \in Nat \ {0}
    OBVIOUS
  <2>3. QED  BY <2>1, <2>2 DEF CodeOK
<1>2. QED  BY <1>1, CodeStep, PTL DEF DocSpec

\* Loading a document is a use of its store: what is proved of the store holds of
\* every document.
THEOREM LoadingIsNaming == DocSpec => Spec
<1>1. DocInit => Init
  BY DEF DocInit
<1>2. QED  BY <1>1, NamingStep, CodeInductive, PTL DEF DocSpec, Spec

\* So while a document loads each address shows a name of its strongest source.
THEOREM LoadingShowsStrongest == DocSpec => []StrongestShown
BY LoadingIsNaming, StrongestShownCorrect, PTL

-----------------------------------------------------------------------------
\* The targets of calls the loop over the index has passed have symbols.
Targets(n) == {code[i].imm : i \in {k \in 1..Len(code) : k < n /\ NamesTarget(code[k])}}
SubsDone ==
    /\ stage = "subs" => Targets(row) \subseteq DOMAIN map
    /\ stage \in {"xrefs", "place", "loaded"} => Targets(Len(code) + 1) \subseteq DOMAIN map

\* Adding a name takes none away.
LEMMA AddKeeps ==
    ASSUME NEW a, NEW t, NEW s, Add(a, t, s)
    PROVE  DOMAIN map \subseteq DOMAIN map' /\ a \in DOMAIN map'
<1>1. CASE KeepsEntry(a, s)
  BY <1>1 DEF Add, KeepsEntry, HasSymbol
<1>2. CASE ~KeepsEntry(a, s)
  BY <1>2 DEF Add, Store
<1>3. QED  BY <1>1, <1>2

LEMMA SubsStep == CodeOK /\ SubsDone /\ [DocNext]_<<vars, docVars>> => SubsDone'
<1> SUFFICES ASSUME CodeOK, SubsDone, [DocNext]_<<vars, docVars>> PROVE SubsDone'
  OBVIOUS
<1>0. Len(code) \in Nat /\ row \in Nat \ {0}
  BY CodeFacts DEF CodeOK
<1>1. CASE LoadImage \/ InitEngine \/ NameImports \/ NameExports
  <2>1. stage' \in {"engine", "imports", "exports", "pdb", "failed"}
    BY <1>1 DEF LoadImage, InitEngine, NameImports, NameExports, Naming, Fail, GoTo, docVars
  <2>2. QED  BY <2>1 DEF SubsDone
<1>2. CASE NamePdb
  <2>1. stage' = "pdb" \/ (stage' = "subs" /\ row' = 1)
    BY <1>2 DEF NamePdb, Naming, GoTo, docVars
  <2>2. CASE stage' = "pdb"
    BY <2>2 DEF SubsDone
  <2>3. CASE stage' = "subs" /\ row' = 1
    <3>1. \A k \in 1..Len(code') : ~(k < 1)
      OBVIOUS
    <3>2. Targets(1)' = {}
      BY <3>1 DEF Targets
    <3>3. Targets(row)' = {}
      BY <2>3, <3>2 DEF Targets
    <3>4. QED  BY <2>3, <3>3 DEF SubsDone
  <2>4. QED  BY <2>1, <2>2, <2>3
<1>3. CASE NameSubs
  <2>1. CASE AfterRows("subs", "xrefs")
    <3>1. stage' = "xrefs" /\ code' = code /\ map' = map /\ stage = "subs" /\ row > Len(code)
      BY <2>1 DEF AfterRows, GoTo, vars
    <3>2. \A k \in 1..Len(code) : k < Len(code) + 1 => k < row
      BY <1>0, <3>1
    <3>3. Targets(Len(code) + 1) \subseteq Targets(row)
      BY <3>2 DEF Targets
    <3>4. Targets(Len(code) + 1)' = Targets(Len(code) + 1)
      BY <3>1 DEF Targets, NamesTarget
    <3>5. QED  BY <3>1, <3>3, <3>4 DEF SubsDone
  <2>2. CASE /\ AtRow("subs") /\ NextRow
             /\ IF NamesTarget(code[row]) /\ ~HasSymbol(code[row].imm)
                THEN EnsureSub(code[row].imm) ELSE UNCHANGED vars
    <3>1. stage = "subs" /\ stage' = "subs" /\ code' = code /\ row' = row + 1
      BY <2>2 DEF AtRow, NextRow
    <3>2. DOMAIN map \subseteq DOMAIN map' /\ (NamesTarget(code[row]) => code[row].imm \in DOMAIN map')
      BY <2>2, AddKeeps DEF EnsureSub, HasSymbol, vars
    <3>3. \A k \in 1..Len(code) : k < row + 1 => k < row \/ k = row
      BY <1>0
    <3>4. Targets(row)' \subseteq Targets(row) \cup {code[row].imm : k \in {j \in {row} : NamesTarget(code[j])}}
      BY <3>1, <3>3 DEF Targets, NamesTarget
    <3>5. Targets(row)' \subseteq DOMAIN map'
      BY <3>1, <3>2, <3>4 DEF SubsDone
    <3>6. QED  BY <3>1, <3>5 DEF SubsDone
  <2>3. QED  BY <1>3, <2>1, <2>2 DEF NameSubs
<1>4. CASE BuildXrefs \/ Place \/ UNCHANGED <<vars, docVars>>
  <2>1. /\ code' = code /\ map' = map
        /\ stage' \in {"xrefs", "place", "loaded"} => stage \in {"xrefs", "place", "loaded"}
        /\ stage' = "subs" => stage = "subs" /\ row' = row
    BY <1>4 DEF BuildXrefs, Place, AfterRows, AtRow, NextRow, GoTo, vars, docVars
  <2>2. Targets(Len(code) + 1)' = Targets(Len(code) + 1)
    BY <2>1 DEF Targets, NamesTarget
  <2>3. row' = row => Targets(row)' = Targets(row)
    BY <2>1 DEF Targets, NamesTarget
  <2>4. QED  BY <2>1, <2>2, <2>3 DEF SubsDone
<1>5. QED  BY <1>1, <1>2, <1>3, <1>4 DEF DocNext, LoadEnded

-----------------------------------------------------------------------------
(* The cross-references.  AddRefs is a fold of PushRef over what one         *)
(* instruction refers to; what it leaves is said of every prefix of it.      *)

LEMMA MaxOfPrefix ==
    ASSUME NEW n \in Nat \ {0}, NEW s \in SUBSET (1..n), n \in s
    PROVE  Max(s) = n
<1>1. \A y \in s : y \in Int /\ y <= n
  OBVIOUS
<1>2. \A x \in s : (\A y \in s : x >= y) <=> x = n
  BY <1>1
<1>3. QED  BY <1>2 DEF Max

\* The recursion of FoldLeft over the positions of a sequence: from the last one
\* down.
FoldsTo(it, m, refs, n) ==
    it = [s \in SUBSET (1..n) |->
             IF s = {} THEN m ELSE PushRef(it[s \ {Max(s)}], refs[Max(s)])]

\* A recursion over subsets by their greatest element has a solution: it is built up
\* one number at a time.
LEMMA FoldSolution ==
    ASSUME NEW m, NEW refs, NEW n \in Nat
    PROVE  \E it : FoldsTo(it, m, refs, n)
<1> DEFINE Is(it, k) == FoldsTo(it, m, refs, k)
           Bad == {k \in 0..n : ~ \E it : Is(it, k)}
<1>1. Bad = {}
  <2> SUFFICES ASSUME Bad # {} PROVE FALSE
    OBVIOUS
  <2>0. Bad \in SUBSET Nat
    OBVIOUS
  <2>1. PICK k \in Bad : \A y \in Bad : k <= y
    <3> HIDE DEF Bad
    <3>1. QED  BY <2>0, LeastNatural
  <2>2. k # 0
    <3>1. SUBSET (1..0) = {{}}
      OBVIOUS
    <3>2. Is([s \in SUBSET (1..0) |-> m], 0)
      BY <3>1 DEF FoldsTo
    <3>3. QED  BY <2>1, <3>2
  <2>3. PICK it : Is(it, k - 1)
    <3>0. k \in 1..n /\ ~(k <= k - 1)
      <4>1. k \in 0..n
        OBVIOUS
      <4>2. QED  BY <2>2, <4>1
    <3>1. k - 1 \in 0..n /\ k - 1 \notin Bad
      BY <2>1, <3>0
    <3>2. QED  BY <3>1
  <2> DEFINE jt == [s \in SUBSET (1..k) |->
                       IF k \in s THEN PushRef(it[s \ {k}], refs[k]) ELSE it[s]]
  <2>4. \A s \in SUBSET (1..k) : s \ {k} \in SUBSET (1..(k - 1))
    BY <2>1, <2>2
  <2>5. \A s \in SUBSET (1..(k - 1)) : s \in SUBSET (1..k) /\ k \notin s /\ jt[s] = it[s]
    BY <2>1, <2>2
  <2>6. Is(jt, k)
    <3> SUFFICES ASSUME NEW s \in SUBSET (1..k)
                 PROVE  jt[s] = IF s = {} THEN m ELSE PushRef(jt[s \ {Max(s)}], refs[Max(s)])
      BY DEF FoldsTo
    <3>1. CASE k \in s
      <4>1. Max(s) = k
        BY <2>1, <2>2, <3>1, MaxOfPrefix
      <4>2. jt[s \ {k}] = it[s \ {k}]
        BY <2>4, <2>5
      <4>3. jt[s] = PushRef(it[s \ {k}], refs[k])
        BY <3>1
      <4>4. QED  BY <3>1, <4>1, <4>2, <4>3
    <3>2. CASE k \notin s
      <4>1. s \in SUBSET (1..(k - 1)) /\ jt[s] = it[s]
        BY <2>4, <2>5, <3>2
      <4>2. it[s] = IF s = {} THEN m ELSE PushRef(it[s \ {Max(s)}], refs[Max(s)])
        BY <2>3, <4>1 DEF FoldsTo
      <4>3. s \ {Max(s)} \in SUBSET (1..(k - 1))
        BY <4>1
      <4>4. QED  BY <2>5, <4>1, <4>2, <4>3
    <3>3. QED  BY <3>1, <3>2
  <2>7. QED  BY <2>1, <2>6
<1>2. n \in 0..n
  OBVIOUS
<1>3. QED  BY <1>1, <1>2

\* The fold of PushRef goes through the references one by one: M[k] is what it has
\* made of the first k.
FoldsThrough(M, m, refs) ==
    /\ M[0] = m /\ M[Len(refs)] = FoldLeft(PushRef, m, refs)
    /\ \A k \in 1..Len(refs) : M[k] = PushRef(M[k - 1], refs[k])

LEMMA FoldIsPushes ==
    ASSUME NEW m, NEW S, NEW refs \in Seq(S)
    PROVE  \E M : FoldsThrough(M, m, refs)
<1> DEFINE n == Len(refs)
           iter == CHOOSE it : FoldsTo(it, m, refs, n)
           M == [k \in 0..n |-> iter[1..k]]
<1>0. n \in Nat /\ DOMAIN refs = 1..n
  OBVIOUS
<1>1. FoldLeft(PushRef, m, refs) = iter[1..n]
  BY <1>0 DEF FoldLeft, MapThenFoldSet, FoldsTo
<1>2. FoldsTo(iter, m, refs, n)
  BY <1>0, FoldSolution
<1> HIDE DEF iter
<1>3. \A s \in SUBSET (1..n) :
          iter[s] = IF s = {} THEN m ELSE PushRef(iter[s \ {Max(s)}], refs[Max(s)])
  BY <1>2 DEF FoldsTo
<1>4. M[0] = m
  <2>1. 1..0 = {} /\ {} \in SUBSET (1..n) /\ M[0] = iter[1..0]
    BY <1>0
  <2>2. QED  BY <1>3, <2>1
<1>5. ASSUME NEW k \in 1..n PROVE M[k] = PushRef(M[k - 1], refs[k])
  <2>1. Max(1..k) = k /\ (1..k) \ {k} = 1..(k - 1) /\ 1..k # {} /\ 1..k \in SUBSET (1..n)
    <3>1. k \in Nat \ {0} /\ 1..k \in SUBSET (1..k) /\ k \in 1..k
      BY <1>0
    <3>2. Max(1..k) = k
      BY <3>1, MaxOfPrefix
    <3>3. (1..k) \ {k} = 1..(k - 1)
      <4>1. k \in Int
        BY <1>0
      <4>2. \A y : y \in (1..k) \ {k} <=> y \in 1..(k - 1)
        BY <4>1
      <4>3. QED  BY <4>2
    <3>4. 1..k # {} /\ 1..k \in SUBSET (1..n)
      <4>1. k \in Int /\ n \in Int /\ k <= n /\ 1 <= k
        BY <1>0
      <4>2. 1 \in 1..k /\ 1..k \subseteq 1..n
        BY <4>1
      <4>3. QED  BY <4>2
    <3>5. QED  BY <3>2, <3>3, <3>4
  <2>2. M[k] = iter[1..k] /\ M[k - 1] = iter[1..(k - 1)]
    BY <1>0
  <2>3. QED  BY <1>3, <2>1, <2>2
<1>6. M[n] = FoldLeft(PushRef, m, refs)
  BY <1>0, <1>1
<1>7. FoldsThrough(M, m, refs)
  BY <1>4, <1>5, <1>6 DEF FoldsThrough
<1>8. QED  BY <1>7

-----------------------------------------------------------------------------
\* What an instruction refers to.
Reference == [from : Addr, kind : Kind]
Refers(in, a) ==
    in.decodes /\ (\/ IsBranch(in.category) /\ in.imm = a
                   \/ \E m \in Range(in.mem) : m.target = a)

LEMMA CodeRefsFacts ==
    ASSUME NEW in \in Instruction(Addr)
    PROVE  /\ CodeRefs(in) \in Seq(Addr \X Reference)
           /\ \A x \in 1..Len(CodeRefs(in)) :
                  /\ x = 1 /\ IsBranch(in.category)
                  /\ CodeRefs(in)[x][1] = in.imm /\ CodeRefs(in)[x][2].from = in.addr
                  /\ CodeRefs(in)[x][2].kind = "Call" <=> in.category = "CALL"
           /\ IsBranch(in.category) /\ in.imm # None => 1 \in 1..Len(CodeRefs(in))
<1>1. in.addr \in Addr /\ in.imm \in Addr \cup {None}
  BY DEF Instruction
<1>2. CASE IsBranch(in.category) /\ in.imm # None
  <2> DEFINE r == [from |-> in.addr, kind |-> CodeKind(in.category)]
  <2>1. r \in Reference /\ (r.kind = "Call" <=> in.category = "CALL") /\ r.from = in.addr
    BY <1>1, <1>2 DEF Reference, Kind, CodeKind, IsBranch
  <2>2. CodeRefs(in) = <<<<in.imm, r>>>>
    BY <1>2 DEF CodeRefs
  <2> HIDE DEF r
  <2>3. <<in.imm, r>> \in Addr \X Reference
    BY <1>1, <1>2, <2>1
  <2>4. QED  BY <1>2, <2>1, <2>2, <2>3
<1>3. CASE ~(IsBranch(in.category) /\ in.imm # None)
  BY <1>3 DEF CodeRefs
<1>4. QED  BY <1>2, <1>3

LEMMA DataRefsFacts ==
    ASSUME NEW in \in Instruction(Addr)
    PROVE  /\ DataRefs(in) \in Seq(Addr \X Reference)
           /\ Len(DataRefs(in)) = Len(in.mem) /\ Len(in.mem) \in Nat
           /\ \A x \in 1..Len(in.mem) :
                  /\ DataRefs(in)[x][1] = in.mem[x].target /\ DataRefs(in)[x][2].from = in.addr
                  /\ DataRefs(in)[x][2].kind # "Call"
<1>1. in.addr \in Addr /\ in.mem \in Seq([target : Addr, access : Access])
  BY DEF Instruction
<1>2. Len(in.mem) \in Nat /\ \A x \in 1..Len(in.mem) : in.mem[x] \in [target : Addr, access : Access]
  BY <1>1, LenProperties, ElementOfSeq
<1>3. ASSUME NEW x \in 1..Len(in.mem)
      PROVE  LET r == [from |-> in.addr, kind |-> DataKind(in.mem[x].access)]
             IN  <<in.mem[x].target, r>> \in Addr \X Reference /\ r.kind # "Call"
  <2>1. in.mem[x].target \in Addr /\ in.mem[x].access \in Access
    BY <1>2
  <2>2. DataKind(in.mem[x].access) \in Kind /\ DataKind(in.mem[x].access) # "Call"
    BY <2>1 DEF DataKind, Kind, Access
  <2>3. QED  BY <1>1, <2>1, <2>2 DEF Reference
<1>4. QED  BY <1>2, <1>3 DEF DataRefs

LEMMA RefsOfFacts ==
    ASSUME NEW in \in Instruction(Addr)
    PROVE  /\ RefsOf(in) \in Seq(Addr \X Reference)
           /\ \A x \in 1..Len(RefsOf(in)) : RefsOf(in)[x][2].from = in.addr
           /\ \A a \in Addr :
                  /\ (\E x \in 1..Len(RefsOf(in)) : RefsOf(in)[x][1] = a) <=> Refers(in, a)
                  /\ (\E x \in 1..Len(RefsOf(in)) : RefsOf(in)[x][1] = a /\ RefsOf(in)[x][2].kind = "Call")
                         <=> NamesTarget(in) /\ in.imm = a
<1>1. CASE ~in.decodes
  BY <1>1 DEF RefsOf, Refers, NamesTarget
<1>2. CASE in.decodes
  <2> DEFINE C == CodeRefs(in)
             D == DataRefs(in)
  <2>1. RefsOf(in) = C \o D
    BY <1>2 DEF RefsOf
  <2>2. C \in Seq(Addr \X Reference) /\ D \in Seq(Addr \X Reference) /\ Len(C) \in Nat /\ Len(D) \in Nat
    BY CodeRefsFacts, DataRefsFacts, LenProperties
  <2>c. /\ \A x \in 1..Len(C) :
               /\ x = 1 /\ IsBranch(in.category)
               /\ C[x][1] = in.imm /\ C[x][2].from = in.addr
               /\ C[x][2].kind = "Call" <=> in.category = "CALL"
        /\ IsBranch(in.category) /\ in.imm # None => 1 \in 1..Len(C)
    BY CodeRefsFacts
  <2>d. /\ Len(D) = Len(in.mem)
        /\ \A x \in 1..Len(D) : /\ D[x][1] = in.mem[x].target /\ D[x][2].from = in.addr
                                 /\ D[x][2].kind # "Call"
    BY DataRefsFacts
  <2> HIDE DEF C, D
  <2>3. /\ C \o D \in Seq(Addr \X Reference) /\ Len(C \o D) = Len(C) + Len(D)
        /\ \A x \in 1..(Len(C) + Len(D)) : (C \o D)[x] = IF x <= Len(C) THEN C[x] ELSE D[x - Len(C)]
    BY <2>2, ConcatProperties
  <2>4. /\ \A x \in 1..Len(C) : x \in 1..(Len(C) + Len(D)) /\ (C \o D)[x] = C[x]
        /\ \A x \in 1..Len(D) : Len(C) + x \in 1..(Len(C) + Len(D)) /\ (C \o D)[Len(C) + x] = D[x]
        /\ \A x \in 1..(Len(C) + Len(D)) :
               x \in 1..Len(C) \/ \E y \in 1..Len(D) : x = Len(C) + y
    <3>1. \A x \in 1..Len(C) : x \in 1..(Len(C) + Len(D)) /\ x <= Len(C)
      BY <2>2
    <3>2. \A x \in 1..Len(D) : /\ Len(C) + x \in 1..(Len(C) + Len(D)) /\ ~(Len(C) + x <= Len(C))
                               /\ (Len(C) + x) - Len(C) = x
      BY <2>2
    <3>3. \A x \in 1..(Len(C) + Len(D)) :
              x \in 1..Len(C) \/ (x - Len(C) \in 1..Len(D) /\ x = Len(C) + (x - Len(C)))
      BY <2>2
    <3>4. QED  BY <2>3, <3>1, <3>2, <3>3
  <2>5. ASSUME NEW x \in 1..(Len(C) + Len(D)) PROVE (C \o D)[x][2].from = in.addr
    <3>1. CASE x \in 1..Len(C)
      BY <2>4, <2>c, <3>1
    <3>2. CASE x \notin 1..Len(C)
      <4>1. PICK y \in 1..Len(D) : x = Len(C) + y
        BY <2>4, <3>2
      <4>2. QED  BY <2>4, <2>d, <4>1
    <3>3. QED  BY <3>1, <3>2
  <2>6. ASSUME NEW a \in Addr
        PROVE  (\E x \in 1..(Len(C) + Len(D)) : (C \o D)[x][1] = a) <=> Refers(in, a)
    <3>1. (\E x \in 1..Len(C) : C[x][1] = a) <=> IsBranch(in.category) /\ in.imm = a
      BY <2>c, CodesAssumption DEF None
    <3>2. (\E x \in 1..Len(D) : D[x][1] = a) <=> \E m \in Range(in.mem) : m.target = a
      <4>1. DOMAIN in.mem = 1..Len(in.mem)
        BY LenProperties DEF Instruction
      <4>2. QED  BY <2>d, <4>1 DEF Range
    <3>3. QED  BY <1>2, <2>4, <3>1, <3>2 DEF Refers
  <2>7. ASSUME NEW a \in Addr
        PROVE  (\E x \in 1..(Len(C) + Len(D)) : (C \o D)[x][1] = a /\ (C \o D)[x][2].kind = "Call")
                   <=> NamesTarget(in) /\ in.imm = a
    <3>1. (\E x \in 1..Len(C) : C[x][1] = a /\ C[x][2].kind = "Call")
              <=> in.category = "CALL" /\ in.imm = a
      BY <2>c, CodesAssumption DEF None, IsBranch
    <3>2. \A x \in 1..Len(D) : D[x][2].kind # "Call"
      BY <2>d
    <3>3. a # None
      BY CodesAssumption DEF None
    <3>4. ASSUME NEW x \in 1..(Len(C) + Len(D)), (C \o D)[x][1] = a, (C \o D)[x][2].kind = "Call"
          PROVE  \E y \in 1..Len(C) : C[y][1] = a /\ C[y][2].kind = "Call"
      <4>1. CASE x \in 1..Len(C)
        BY <2>4, <3>4, <4>1
      <4>2. CASE x \notin 1..Len(C)
        <5>1. PICK y \in 1..Len(D) : x = Len(C) + y
          BY <2>4, <4>2
        <5>2. QED  BY <2>4, <3>2, <3>4, <5>1
      <4>3. QED  BY <4>1, <4>2
    <3>5. ASSUME NEW y \in 1..Len(C), C[y][1] = a, C[y][2].kind = "Call"
          PROVE  \E x \in 1..(Len(C) + Len(D)) : (C \o D)[x][1] = a /\ (C \o D)[x][2].kind = "Call"
      BY <2>4, <3>5
    <3>6. QED  BY <1>2, <3>1, <3>3, <3>4, <3>5 DEF NamesTarget
  <2> HIDE DEF C, D
  <2>8. Len(RefsOf(in)) = Len(C) + Len(D)
    BY <2>1, <2>3
  <2>9. RefsOf(in) \in Seq(Addr \X Reference)
    BY <2>1, <2>3
  <2>10. \A x \in 1..Len(RefsOf(in)) : RefsOf(in)[x][2].from = in.addr
    BY <2>1, <2>5, <2>8
  <2>11. ASSUME NEW a \in Addr
         PROVE  /\ (\E x \in 1..Len(RefsOf(in)) : RefsOf(in)[x][1] = a) <=> Refers(in, a)
                /\ (\E x \in 1..Len(RefsOf(in)) : RefsOf(in)[x][1] = a /\ RefsOf(in)[x][2].kind = "Call")
                       <=> NamesTarget(in) /\ in.imm = a
    BY <2>1, <2>6, <2>7, <2>8
  <2>12. QED  BY <2>9, <2>10, <2>11
<1>3. QED  BY <1>1, <1>2

\* The places up to the k-th reference of row n that refer to a, as <<row, which>>,
\* and the reference at one.
Places(c, a, n, k) ==
    {p \in (1..Len(c)) \X (Nat \ {0}) :
        /\ p[2] \in 1..Len(RefsOf(c[p[1]])) /\ RefsOf(c[p[1]])[p[2]][1] = a
        /\ p[1] < n \/ (p[1] = n /\ p[2] <= k)}
RefAt(c, p) == RefsOf(c[p[1]])[p[2]][2]

\* The list of the references at some places, in the order of their instructions.
ListOf(refs, c, P) ==
    /\ refs \in Seq(Reference)
    /\ IsFiniteSet(P) /\ Len(refs) = Cardinality(P)
    /\ Range(refs) = {RefAt(c, p) : p \in P}
    /\ \A i, j \in 1..Len(refs) : i < j => refs[i].from <= refs[j].from

\* The table of the references before and in row n, there up to the k-th.
TableOf(m, c, n, k) ==
    /\ DOMAIN m \subseteq Addr /\ \A a \in DOMAIN m : m[a] # <<>>
    /\ \A a \in Addr : ListOf(RefsTo(m, a), c, Places(c, a, n, k))

LEMMA RowFacts ==
    ASSUME NEW c \in Codes
    PROVE  /\ c \in Seq(Instruction(Addr)) /\ Len(c) \in Nat
           /\ \A j \in 1..Len(c) : c[j] \in Instruction(Addr) /\ c[j].addr \in Nat
           /\ \A i, j \in 1..Len(c) : i <= j => c[i].addr <= c[j].addr
<1>1. /\ c \in Seq(Instruction(Addr)) /\ Addr \subseteq Nat
      /\ \A i, j \in 1..Len(c) : i < j => c[i].addr < c[j].addr
  BY CodesAssumption
<1>2. Len(c) \in Nat /\ \A j \in 1..Len(c) : c[j] \in Instruction(Addr)
  BY <1>1, LenProperties, ElementOfSeq
<1>3. \A j \in 1..Len(c) : c[j].addr \in Nat
  BY <1>1, <1>2 DEF Instruction
<1>4. ASSUME NEW i \in 1..Len(c), NEW j \in 1..Len(c), i <= j PROVE c[i].addr <= c[j].addr
  <2>1. i = j \/ i < j
    BY <1>2, <1>4
  <2>2. QED  BY <1>1, <1>3, <2>1
<1>5. QED  BY <1>1, <1>2, <1>3, <1>4

\* A reference of row n to its target, appended behind those of earlier places.
LEMMA ListAppend ==
    ASSUME NEW refs, NEW c, NEW P, ListOf(refs, c, P), NEW q, q \notin P,
           RefAt(c, q) \in Reference, RefAt(c, q).from \in Nat,
           \A p \in P : RefAt(c, p).from <= RefAt(c, q).from
    PROVE  ListOf(Append(refs, RefAt(c, q)), c, P \cup {q})
<1> DEFINE x == RefAt(c, q)
           new == Append(refs, x)
<1>0. refs \in Seq(Reference) /\ x \in Reference /\ Len(refs) \in Nat
  BY LenProperties DEF ListOf
<1>1. /\ new \in Seq(Reference) /\ Len(new) = Len(refs) + 1
      /\ \A i \in 1..Len(refs) : new[i] = refs[i]
      /\ new[Len(refs) + 1] = x
      /\ DOMAIN refs = 1..Len(refs) /\ DOMAIN new = 1..(Len(refs) + 1)
  BY <1>0, AppendProperties, LenProperties
<1>2. IsFiniteSet(P \cup {q}) /\ Cardinality(P \cup {q}) = Cardinality(P) + 1
  BY FS_AddElement DEF ListOf
<1>3. \A i \in 1..(Len(refs) + 1) : i \in 1..Len(refs) \/ i = Len(refs) + 1
  BY <1>0
<1>4. \A i \in 1..Len(refs) : i \in 1..(Len(refs) + 1)
  BY <1>0
<1>5. Range(new) = Range(refs) \cup {x}
  <2>1. Len(refs) + 1 \in 1..(Len(refs) + 1)
    BY <1>0
  <2> HIDE DEF new, x
  <2>2. Range(new) = {new[i] : i \in 1..(Len(refs) + 1)} /\ Range(refs) = {refs[i] : i \in 1..Len(refs)}
    BY <1>1 DEF Range
  <2>3. QED  BY <1>1, <1>3, <1>4, <2>1, <2>2
<1>6. Range(new) = {RefAt(c, p) : p \in P \cup {q}}
  <2>1. Range(refs) = {RefAt(c, p) : p \in P}
    BY DEF ListOf
  <2> HIDE DEF new
  <2>2. QED  BY <1>5, <2>1
<1>7. ASSUME NEW i \in 1..Len(new), NEW j \in 1..Len(new), i < j
      PROVE  new[i].from <= new[j].from
  <2>1. i \in 1..Len(refs) /\ Len(refs) \in Nat
    BY <1>0, <1>1, <1>7
  <2>2. CASE j \in 1..Len(refs)
    BY <1>1, <1>7, <2>1, <2>2 DEF ListOf
  <2>3. CASE j = Len(refs) + 1
    <3>1. refs[i] \in Range(refs)
      BY <1>1, <2>1 DEF Range
    <3>2. PICK p \in P : refs[i] = RefAt(c, p)
      BY <3>1 DEF ListOf
    <3>3. QED  BY <1>1, <2>1, <2>3, <3>2
  <2>4. QED  BY <1>1, <1>3, <2>2, <2>3
<1> HIDE DEF new
<1>8. QED  BY <1>0, <1>1, <1>2, <1>6, <1>7 DEF ListOf, x, new

\* One push_back.
LEMMA PushStep ==
    ASSUME NEW c \in Codes, NEW n \in 1..Len(c), NEW k \in 1..Len(RefsOf(c[n])), NEW m,
           TableOf(m, c, n, k - 1)
    PROVE  TableOf(PushRef(m, RefsOf(c[n])[k]), c, n, k)
<1> DEFINE r == RefsOf(c[n])[k]
           new == PushRef(m, r)
<1>0. /\ Len(c) \in Nat /\ n \in Nat /\ c[n] \in Instruction(Addr) /\ c[n].addr \in Nat
      /\ RefsOf(c[n]) \in Seq(Addr \X Reference) /\ Len(RefsOf(c[n])) \in Nat /\ k \in Nat \ {0}
  BY RowFacts, RefsOfFacts, LenProperties
<1>1. r \in Addr \X Reference /\ r[1] \in Addr /\ r[2] \in Reference /\ r[2].from = c[n].addr
  <2>1. r \in Addr \X Reference
    BY <1>0, ElementOfSeq
  <2>2. r[2].from = c[n].addr
    BY <1>0, RefsOfFacts
  <2>3. QED  BY <2>1, <2>2
<1>2. RefAt(c, <<n, k>>) = r[2] /\ <<n, k>>[1] = n /\ <<n, k>>[2] = k
  BY DEF RefAt
<1> HIDE DEF r
<1>3. \A a \in Addr : \A p \in Places(c, a, n, k - 1) : RefAt(c, p).from <= r[2].from
  <2> TAKE a \in Addr
  <2> TAKE p \in Places(c, a, n, k - 1)
  <2>1. p[1] \in 1..Len(c) /\ p[2] \in 1..Len(RefsOf(c[p[1]])) /\ p[1] <= n
    BY <1>0 DEF Places
  <2>2. c[p[1]] \in Instruction(Addr) /\ c[p[1]].addr <= c[n].addr
    BY <2>1, RowFacts
  <2>3. RefAt(c, p).from = c[p[1]].addr
    BY <2>1, <2>2, RefsOfFacts DEF RefAt
  <2>4. QED  BY <1>1, <2>2, <2>3
<1>4. ASSUME NEW a \in Addr
      PROVE  /\ <<n, k>> \notin Places(c, a, n, k - 1)
             /\ r[1] = a => Places(c, a, n, k) = Places(c, a, n, k - 1) \cup {<<n, k>>}
             /\ r[1] # a => Places(c, a, n, k) = Places(c, a, n, k - 1)
  <2>1. <<n, k>> \notin Places(c, a, n, k - 1)
    BY <1>0 DEF Places
  <2>2. Places(c, a, n, k - 1) \subseteq Places(c, a, n, k)
    BY <1>0 DEF Places
  <2>3. ASSUME NEW p \in Places(c, a, n, k), p \notin Places(c, a, n, k - 1)
        PROVE  p = <<n, k>> /\ r[1] = a
    <3>1. /\ p \in (1..Len(c)) \X (Nat \ {0}) /\ RefsOf(c[p[1]])[p[2]][1] = a
          /\ p[1] = n /\ p[2] <= k /\ ~(p[2] <= k - 1)
      BY <2>3 DEF Places
    <3>2. p[2] = k
      BY <1>0, <3>1
    <3>3. QED  BY <3>1, <3>2 DEF r
  <2>4. r[1] = a => <<n, k>> \in Places(c, a, n, k)
    <3>1. <<n, k>> \in (1..Len(c)) \X (Nat \ {0})
      BY <1>0
    <3>2. k <= k /\ k \in 1..Len(RefsOf(c[n]))
      BY <1>0
    <3>3. QED  BY <1>2, <3>1, <3>2 DEF Places, r
  <2>5. QED  BY <2>1, <2>2, <2>3, <2>4
<1>5. \A a : RefsTo(new, a) = IF a = r[1] THEN Append(RefsTo(m, a), r[2]) ELSE RefsTo(m, a)
  BY DEF RefsTo, PushRef
<1>6. ASSUME NEW a \in Addr PROVE ListOf(RefsTo(new, a), c, Places(c, a, n, k))
  <2>1. ListOf(RefsTo(m, a), c, Places(c, a, n, k - 1))
    BY DEF TableOf
  <2>2. CASE r[1] = a
    <3>1. r[2].from \in Nat
      BY <1>0, <1>1
    <3>2. ListOf(Append(RefsTo(m, a), RefAt(c, <<n, k>>)), c, Places(c, a, n, k - 1) \cup {<<n, k>>})
      BY <1>1, <1>2, <1>3, <1>4, <2>1, <3>1, ListAppend
    <3>3. QED  BY <1>2, <1>4, <1>5, <2>2, <3>2
  <2>3. CASE r[1] # a
    BY <1>4, <1>5, <2>1, <2>3
  <2>4. QED  BY <2>2, <2>3
<1>7. DOMAIN new \subseteq Addr /\ \A a \in DOMAIN new : new[a] # <<>>
  <2>1. DOMAIN m \subseteq Addr /\ \A a \in DOMAIN m : m[a] # <<>>
    BY DEF TableOf
  <2>2. DOMAIN new = DOMAIN m \cup {r[1]}
    BY DEF PushRef
  <2>3. ASSUME NEW a \in DOMAIN new, a = r[1] PROVE new[a] # <<>>
    <3>1. RefsTo(m, a) \in Seq(Reference)
      BY <1>1, <2>3 DEF TableOf, ListOf
    <3>2. new[a] = Append(RefsTo(m, a), r[2])
      BY <2>2, <2>3 DEF PushRef
    <3>3. QED  BY <1>1, <3>1, <3>2, AppendProperties
  <2>4. ASSUME NEW a \in DOMAIN new, a # r[1] PROVE new[a] # <<>>
    BY <2>1, <2>2, <2>4 DEF PushRef
  <2>5. QED  BY <1>1, <2>1, <2>2, <2>3, <2>4
<1>8. QED  BY <1>6, <1>7 DEF TableOf, r

\* One instruction: the table of the rows before it becomes that with it.
LEMMA RowStep ==
    ASSUME NEW c \in Codes, NEW n \in 1..Len(c), NEW m, TableOf(m, c, n, 0)
    PROVE  TableOf(AddRefs(m, c[n]), c, n + 1, 0)
<1> DEFINE refs == RefsOf(c[n])
           len == Len(refs)
<1>0. n \in Nat /\ refs \in Seq(Addr \X Reference) /\ len \in Nat
  BY RowFacts, RefsOfFacts, LenProperties
<1>1. PICK M : /\ M[0] = m /\ M[len] = AddRefs(m, c[n])
               /\ \A k \in 1..len : M[k] = PushRef(M[k - 1], refs[k])
  <2>1. refs \in Seq(Addr \X Reference)
    BY <1>0
  <2> HIDE DEF refs
  <2>2. \E M : FoldsThrough(M, m, refs)
    BY <2>1, FoldIsPushes
  <2>3. QED  BY <2>2 DEF AddRefs, refs, FoldsThrough
<1> HIDE DEF refs
<1> DEFINE Bad == {k \in 0..len : ~TableOf(M[k], c, n, k)}
<1>2. Bad = {}
  <2> SUFFICES ASSUME Bad # {} PROVE FALSE
    OBVIOUS
  <2>1. PICK k \in Bad : \A y \in Bad : k <= y
    <3>1. Bad \in SUBSET Nat
      OBVIOUS
    <3> HIDE DEF Bad
    <3>2. QED  BY <3>1, LeastNatural
  <2>2. k \in 0..len /\ ~TableOf(M[k], c, n, k)
    OBVIOUS
  <2>3. k # 0
    BY <1>1, <2>2
  <2>4. k \in 1..len /\ k - 1 \in 0..len /\ ~(k <= k - 1)
    BY <1>0, <2>2, <2>3
  <2>5. TableOf(M[k - 1], c, n, k - 1)
    BY <2>1, <2>4
  <2>6. TableOf(PushRef(M[k - 1], refs[k]), c, n, k)
    BY <2>4, <2>5, PushStep DEF refs
  <2>7. QED  BY <1>1, <2>2, <2>4, <2>6
<1>3. TableOf(AddRefs(m, c[n]), c, n, len)
  <2>1. len \in 0..len
    BY <1>0
  <2>2. TableOf(M[len], c, n, len)
    BY <1>2, <2>1
  <2>3. QED  BY <1>1, <2>2
<1>4. \A a \in Addr : Places(c, a, n, len) = Places(c, a, n + 1, 0)
  <2> TAKE a \in Addr
  <2>1. ASSUME NEW p \in (1..Len(c)) \X (Nat \ {0}), p[2] \in 1..Len(RefsOf(c[p[1]]))
        PROVE  (p[1] < n \/ (p[1] = n /\ p[2] <= len)) <=> (p[1] < n + 1 \/ (p[1] = n + 1 /\ p[2] <= 0))
    <3>1. p[1] \in Nat /\ p[2] \in Nat \ {0}
      BY <2>1, RowFacts
    <3>2. p[1] = n => p[2] <= len
      BY <1>0, <2>1 DEF refs
    <3>3. QED  BY <1>0, <3>1, <3>2
  <2>2. QED  BY <2>1 DEF Places
<1>5. QED  BY <1>3, <1>4 DEF TableOf

-----------------------------------------------------------------------------
\* Where the loading of a document is: the table holds the references of the rows
\* the last loop has passed, and a made-up name is of a target the other loop has
\* passed.
StageOK == stage \in Range(Stages) \cup {"loaded", "failed"} /\ row \in 1..(Len(code) + 1)
TableDone ==
    /\ stage \notin {"xrefs", "place", "loaded"} => to = NoRefs
    /\ stage = "xrefs" => TableOf(to, code, row, 0)
    /\ stage \in {"place", "loaded"} => TableOf(to, code, Len(code) + 1, 0)
AutoNamed(n) == \A a \in DOMAIN map : map[a].src = AutoSource => a \in Targets(n)
MadeUp ==
    /\ stage \in {"image", "engine", "imports", "exports", "pdb"} => AutoNamed(1)
    /\ stage = "subs" => AutoNamed(row)
    /\ stage \in {"xrefs", "place", "loaded"} => AutoNamed(Len(code) + 1)

\* Every stage of the list.
LEMMA StagesAre ==
    Range(Stages) = {"image", "engine", "imports", "exports", "pdb", "subs", "xrefs", "place"}
<1>1. DOMAIN Stages = 1..8
  BY DEF Stages
<1>2. 1..8 = {1, 2, 3, 4, 5, 6, 7, 8}
  OBVIOUS
<1>3. QED  BY <1>1, <1>2 DEF Range, Stages

LEMMA StageStep == CodeOK /\ StageOK /\ [DocNext]_<<vars, docVars>> => StageOK'
<1> SUFFICES ASSUME CodeOK, StageOK, [DocNext]_<<vars, docVars>> PROVE StageOK'
  OBVIOUS
<1>0. Len(code) \in Nat /\ row \in 1..(Len(code) + 1)
  BY CodeFacts DEF StageOK
<1>g. ASSUME NEW s \in Range(Stages) \cup {"loaded", "failed"}, GoTo(s), code' \in Codes
      PROVE  StageOK'
  <2>1. Len(code') \in Nat
    BY <1>g, RowFacts
  <2>2. 1 \in 1..(Len(code') + 1)
    BY <2>1
  <2>3. QED  BY <1>g, <2>2 DEF GoTo, StageOK
<1>k. ASSUME UNCHANGED docVars PROVE StageOK'
  BY <1>k DEF docVars, StageOK
<1>r. ASSUME NextRow, row <= Len(code) PROVE StageOK'
  <2>1. row + 1 \in 1..(Len(code) + 1)
    BY <1>0, <1>r
  <2>2. QED  BY <1>r, <2>1 DEF NextRow, StageOK
<1>c. code \in Codes
  BY DEF CodeOK
<1>1. CASE LoadImage \/ InitEngine \/ Place
  BY <1>c, <1>g, <1>1, StagesAre DEF LoadImage, InitEngine, Place, Fail
<1>2. CASE NameImports \/ NameExports \/ NamePdb
  BY <1>c, <1>g, <1>k, <1>2, StagesAre DEF NameImports, NameExports, NamePdb, Naming
<1>3. CASE NameSubs \/ BuildXrefs
  BY <1>c, <1>g, <1>r, <1>3, StagesAre DEF NameSubs, BuildXrefs, AfterRows, AtRow
<1>4. CASE UNCHANGED <<vars, docVars>>
  BY <1>k, <1>4
<1>5. QED  BY <1>1, <1>2, <1>3, <1>4 DEF DocNext, LoadEnded

\* Before the first row there are no references.
LEMMA NoTable == ASSUME NEW c PROVE TableOf(NoRefs, c, 1, 0)
<1>1. \A a \in Addr : Places(c, a, 1, 0) = {}
  <2> SUFFICES ASSUME NEW a \in Addr, NEW p \in Places(c, a, 1, 0) PROVE FALSE
    OBVIOUS
  <2>1. p[1] \in 1..Len(c) /\ p[2] \in Nat \ {0} /\ (p[1] < 1 \/ (p[1] = 1 /\ p[2] <= 0))
    BY DEF Places
  <2>2. QED  BY <2>1
<1>2. \A a : RefsTo(NoRefs, a) = <<>>
  BY DEF RefsTo, NoRefs
<1>3. ListOf(<<>>, c, {})
  <2>1. <<>> \in Seq(Reference) /\ Len(<<>>) = 0 /\ 1..0 = {} /\ DOMAIN <<>> = {}
    BY EmptySeq
  <2>2. Range(<<>>) = {}
    BY <2>1 DEF Range
  <2>3. QED  BY <2>1, <2>2, FS_EmptySet DEF ListOf
<1>4. QED  BY <1>1, <1>2, <1>3 DEF TableOf, NoRefs

LEMMA TableStep == CodeOK /\ StageOK /\ TableDone /\ [DocNext]_<<vars, docVars>> => TableDone'
<1> SUFFICES ASSUME CodeOK, StageOK, TableDone, [DocNext]_<<vars, docVars>> PROVE TableDone'
  OBVIOUS
<1>1. CASE LoadImage \/ InitEngine \/ NameImports \/ NameExports \/ NamePdb
  BY <1>1 DEF LoadImage, InitEngine, NameImports, NameExports, NamePdb, Naming, Fail, GoTo,
              docVars, TableDone
<1>2. CASE NameSubs
  <2>1. CASE AfterRows("subs", "xrefs")
    <3>1. stage' = "xrefs" /\ row' = 1 /\ to' = to /\ to = NoRefs
      BY <2>1 DEF AfterRows, GoTo, TableDone
    <3>2. TableOf(to', code', 1, 0)
      BY <3>1, NoTable
    <3>3. QED  BY <3>1, <3>2 DEF TableDone
  <2>2. CASE AtRow("subs") /\ NextRow /\ UNCHANGED to
    BY <2>2 DEF AtRow, NextRow, TableDone
  <2>3. QED  BY <1>2, <2>1, <2>2 DEF NameSubs
<1>3. CASE BuildXrefs
  <2>1. CASE AfterRows("xrefs", "place")
    <3>1. stage' = "place" /\ stage = "xrefs" /\ to' = to /\ code' = code /\ row > Len(code)
      BY <2>1 DEF AfterRows, GoTo
    <3>2. row = Len(code) + 1
      BY <3>1, CodeFacts DEF StageOK
    <3>3. QED  BY <3>1, <3>2 DEF TableDone
  <2>2. CASE AtRow("xrefs") /\ NextRow /\ to' = AddRefs(to, code[row])
    <3>1. /\ stage = "xrefs" /\ stage' = "xrefs" /\ row <= Len(code) /\ row' = row + 1 /\ code' = code
          /\ to' = AddRefs(to, code[row])
      BY <2>2 DEF AtRow, NextRow
    <3>2. row \in 1..Len(code) /\ code \in Codes
      BY <3>1, CodeFacts DEF CodeOK
    <3>3. TableOf(AddRefs(to, code[row]), code, row + 1, 0)
      BY <3>1, <3>2, RowStep DEF TableDone
    <3>4. QED  BY <3>1, <3>3 DEF TableDone
  <2>3. QED  BY <1>3, <2>1, <2>2 DEF BuildXrefs
<1>4. CASE Place
  BY <1>4 DEF Place, GoTo, TableDone
<1>5. CASE UNCHANGED <<vars, docVars>>
  BY <1>5 DEF docVars, TableDone
<1>6. QED  BY <1>1, <1>2, <1>3, <1>4, <1>5 DEF DocNext, LoadEnded

\* An offer changes the source of no other address.
LEMMA AddMakesUp ==
    ASSUME NEW a, NEW t, NEW s \in Source, Add(a, t, s), NEW b \in DOMAIN map',
           map'[b].src = AutoSource
    PROVE  (b = a /\ s = AutoSource) \/ (b \in DOMAIN map /\ map[b].src = AutoSource)
<1>1. CASE KeepsEntry(a, s)
  BY <1>1 DEF Add
<1>2. CASE ~KeepsEntry(a, s)
  BY <1>2 DEF Add, Store
<1>3. QED  BY <1>1, <1>2

LEMMA MadeUpStep == CodeOK /\ StageOK /\ MadeUp /\ [DocNext]_<<vars, docVars>> => MadeUp'
<1> SUFFICES ASSUME CodeOK, StageOK, MadeUp, [DocNext]_<<vars, docVars>> PROVE MadeUp'
  OBVIOUS
<1>0. Len(code) \in Nat /\ row \in Nat /\ row >= 1 /\ row <= Len(code) + 1
  BY CodeFacts DEF StageOK
<1>a. ASSUME NEW n, code' = code, map' = map, AutoNamed(n) PROVE AutoNamed(n)'
  <2>1. Targets(n)' = Targets(n)
    BY <1>a DEF Targets, NamesTarget
  <2>2. QED  BY <1>a, <2>1 DEF AutoNamed
<1>1. CASE LoadImage \/ InitEngine
  BY <1>a, <1>1 DEF LoadImage, InitEngine, Fail, GoTo, vars, MadeUp
<1>2. ASSUME NEW s, NEW n, NEW src \in CallerSource, Naming(s, n, src),
             <<s, n>> \in {<<"imports", "exports">>, <<"exports", "pdb">>, <<"pdb", "subs">>}
      PROVE  MadeUp'
  <2>0. AutoNamed(1) /\ code' = code /\ src \in Source /\ src # AutoSource
    BY <1>2, TextFacts DEF Naming, MadeUp, GoTo, docVars, CallerSource, AutoSource, ImportIat, Export, Pdb
  <2>1. CASE GoTo(n) /\ UNCHANGED vars
    <3>1. AutoNamed(1)'
      BY <1>a, <2>0, <2>1 DEF vars
    <3>2. row' = 1 /\ stage' = n /\ n \in {"exports", "pdb", "subs"}
      BY <1>2, <2>1 DEF GoTo
    <3>3. AutoNamed(row)'
      BY <3>1, <3>2 DEF AutoNamed, Targets, NamesTarget
    <3>4. QED  BY <3>1, <3>2, <3>3 DEF MadeUp
  <2>2. ASSUME NEW a \in Addr, NEW t \in Name, Add(a, t, src), UNCHANGED docVars
        PROVE  MadeUp'
    <3>1. \A b \in DOMAIN map' : map'[b].src = AutoSource => b \in Targets(1)
      BY <2>0, <2>2, AddMakesUp DEF AutoNamed
    <3>2. Targets(1)' = Targets(1) /\ stage' = stage /\ stage \in {"imports", "exports", "pdb"}
      BY <1>2, <2>0, <2>2 DEF Targets, NamesTarget, docVars, Naming
    <3>3. QED  BY <3>1, <3>2 DEF MadeUp, AutoNamed
  <2>3. QED  BY <1>2, <2>1, <2>2 DEF Naming
<1>3. CASE NameSubs
  <2>1. CASE AfterRows("subs", "xrefs")
    <3>1. stage' = "xrefs" /\ stage = "subs" /\ code' = code /\ map' = map /\ row > Len(code)
      BY <2>1 DEF AfterRows, GoTo, vars
    <3>2. row = Len(code) + 1
      BY <1>0, <3>1
    <3>3. AutoNamed(Len(code) + 1)'
      BY <1>a, <3>1, <3>2 DEF MadeUp
    <3>4. QED  BY <3>1, <3>3 DEF MadeUp, AutoNamed, Targets, NamesTarget
  <2>2. CASE /\ AtRow("subs") /\ NextRow
             /\ IF NamesTarget(code[row]) /\ ~HasSymbol(code[row].imm)
                THEN EnsureSub(code[row].imm) ELSE UNCHANGED vars
    <3>1. /\ stage = "subs" /\ stage' = "subs" /\ code' = code /\ row' = row + 1
          /\ row \in 1..Len(code) /\ AutoNamed(row)
      BY <1>0, <2>2 DEF AtRow, NextRow, MadeUp
    <3>2. Targets(row) \subseteq Targets(row + 1)
      BY <1>0 DEF Targets
    <3>3. NamesTarget(code[row]) => code[row].imm \in Targets(row + 1)
      BY <1>0, <3>1 DEF Targets
    <3>4. \A b \in DOMAIN map' : map'[b].src = AutoSource => b \in Targets(row + 1)
      <4>1. CASE NamesTarget(code[row]) /\ EnsureSub(code[row].imm)
        <5>1. Add(code[row].imm, SubName(code[row].imm), AutoSource) /\ AutoSource \in Source
          BY <4>1, TextFacts DEF EnsureSub
        <5>2. \A b \in DOMAIN map' : map'[b].src = AutoSource =>
                  b = code[row].imm \/ (b \in DOMAIN map /\ map[b].src = AutoSource)
          BY <5>1, AddMakesUp
        <5>3. QED  BY <3>1, <3>2, <3>3, <4>1, <5>2 DEF AutoNamed
      <4>2. CASE UNCHANGED vars
        BY <3>1, <3>2, <4>2 DEF vars, AutoNamed
      <4>3. QED  BY <2>2, <4>1, <4>2
    <3>5. Targets(row)' = Targets(row + 1)
      BY <3>1 DEF Targets, NamesTarget
    <3>6. QED  BY <3>1, <3>4, <3>5 DEF MadeUp, AutoNamed
  <2>3. QED  BY <1>3, <2>1, <2>2 DEF NameSubs
<1>4. CASE BuildXrefs \/ Place
  <2>1. /\ code' = code /\ map' = map
        /\ stage \in {"xrefs", "place"} /\ stage' \in {"xrefs", "place", "loaded"}
    BY <1>4 DEF BuildXrefs, Place, AfterRows, AtRow, NextRow, GoTo, vars
  <2>2. AutoNamed(Len(code) + 1)'
    BY <1>a, <2>1 DEF MadeUp
  <2>3. QED  BY <2>1, <2>2 DEF MadeUp, AutoNamed, Targets, NamesTarget
<1>5. CASE UNCHANGED <<vars, docVars>>
  BY <1>5 DEF vars, docVars, MadeUp, AutoNamed, Targets, NamesTarget
<1>6. ImportIat \in CallerSource /\ Export \in CallerSource /\ Pdb \in CallerSource
  BY DEF CallerSource
<1>7. QED
  BY <1>1, <1>2, <1>3, <1>4, <1>5, <1>6 DEF DocNext, LoadEnded, NameImports, NameExports, NamePdb

\* The inductive invariant of a load.
LoadInv == CodeOK /\ StageOK /\ TableDone /\ SubsDone /\ MadeUp

LEMMA LoadInductive == DocSpec => []LoadInv
<1>1. DocInit => LoadInv
  <2> SUFFICES ASSUME DocInit PROVE LoadInv
    OBVIOUS
  <2>1. stage = "image" /\ row = 1 /\ to = NoRefs /\ code \in Codes /\ map = NoSymbols
    BY DEF DocInit, Init
  <2>2. Len(code) \in Nat
    BY <2>1, RowFacts
  <2>3. row \in Nat \ {0} /\ row \in 1..(Len(code) + 1)
    BY <2>1, <2>2
  <2>4. DOMAIN map = {}
    BY <2>1 DEF NoSymbols
  <2>5. QED
    BY <2>1, <2>3, <2>4, StagesAre
       DEF LoadInv, CodeOK, StageOK, TableDone, SubsDone, MadeUp, AutoNamed
<1>2. LoadInv /\ [DocNext]_<<vars, docVars>> => LoadInv'
  BY CodeStep, StageStep, TableStep, SubsStep, MadeUpStep DEF LoadInv
<1>3. QED  BY <1>1, <1>2, PTL DEF DocSpec

\* Types of a document at every stage of its loading: the
\* loop over the index stays on its rows, the table lists references for addresses
\* of the image only and has no empty list, and names point into the storage.
THEOREM DocTypeCorrect == DocSpec => []DocTypeOK
<1>1. LoadInv /\ TypeOK => DocTypeOK
  <2> SUFFICES ASSUME LoadInv, TypeOK
               PROVE  /\ DOMAIN to \subseteq Addr
                      /\ \A a \in DOMAIN to : to[a] \in Seq(Reference) /\ to[a] # <<>>
    BY DEF LoadInv, StageOK, DocTypeOK, Reference
  <2>1. ASSUME NEW n, TableOf(to, code, n, 0)
        PROVE  /\ DOMAIN to \subseteq Addr
               /\ \A a \in DOMAIN to : to[a] \in Seq(Reference) /\ to[a] # <<>>
    BY <2>1 DEF TableOf, ListOf, RefsTo
  <2>2. CASE to = NoRefs
    BY <2>2 DEF NoRefs
  <2>3. QED  BY <2>1, <2>2 DEF LoadInv, TableDone
<1>2. DocSpec => []TypeOK
  BY LoadingIsNaming, TypeCorrect, PTL
<1>3. QED  BY <1>1, <1>2, LoadInductive, PTL

-----------------------------------------------------------------------------
\* The references a loaded document lists, by the instructions that make them.
LEMMA LoadedRefs ==
    ASSUME LoadInv, stage = "loaded", NEW a \in Addr
    PROVE  LET refs == RefsTo(to, a)
               P == {p \in (1..Len(code)) \X (Nat \ {0}) :
                        p[2] \in 1..Len(RefsOf(code[p[1]])) /\ RefsOf(code[p[1]])[p[2]][1] = a}
           IN  ListOf(refs, code, P)
<1>1. Len(code) \in Nat /\ ListOf(RefsTo(to, a), code, Places(code, a, Len(code) + 1, 0))
  BY CodeFacts DEF LoadInv, TableDone, TableOf
<1>2. \A p \in (1..Len(code)) \X (Nat \ {0}) : p[1] < Len(code) + 1
  BY <1>1
<1>3. Places(code, a, Len(code) + 1, 0) =
          {p \in (1..Len(code)) \X (Nat \ {0}) :
              p[2] \in 1..Len(RefsOf(code[p[1]])) /\ RefsOf(code[p[1]])[p[2]][1] = a}
  BY <1>2 DEF Places
<1>4. QED  BY <1>1, <1>3

\* A call is listed for an address exactly if it is a call target.
LEMMA CallListed ==
    ASSUME LoadInv, stage = "loaded", NEW a \in Addr
    PROVE  (\E r \in Range(RefsTo(to, a)) : r.kind = "Call") <=> a \in Targets(Len(code) + 1)
<1> DEFINE P == {p \in (1..Len(code)) \X (Nat \ {0}) :
                    p[2] \in 1..Len(RefsOf(code[p[1]])) /\ RefsOf(code[p[1]])[p[2]][1] = a}
<1>0. code \in Codes /\ Len(code) \in Nat /\ \A j \in 1..Len(code) : code[j] \in Instruction(Addr)
  BY RowFacts DEF LoadInv, CodeOK
<1>1. Range(RefsTo(to, a)) = {RefAt(code, p) : p \in P}
  BY LoadedRefs DEF ListOf
<1>2. ASSUME NEW p \in P, RefAt(code, p).kind = "Call"
      PROVE  NamesTarget(code[p[1]]) /\ code[p[1]].imm = a /\ p[1] \in 1..Len(code) /\ p[1] < Len(code) + 1
  <2>1. p[1] \in 1..Len(code) /\ code[p[1]] \in Instruction(Addr) /\ p[1] < Len(code) + 1
    BY <1>0
  <2>2. \E x \in 1..Len(RefsOf(code[p[1]])) :
            RefsOf(code[p[1]])[x][1] = a /\ RefsOf(code[p[1]])[x][2].kind = "Call"
    BY <1>2 DEF RefAt
  <2>3. QED  BY <2>1, <2>2, RefsOfFacts
<1>3. ASSUME NEW j \in 1..Len(code), NamesTarget(code[j]), code[j].imm = a
      PROVE  \E p \in P : RefAt(code, p).kind = "Call"
  <2>1. code[j] \in Instruction(Addr)
    BY <1>0
  <2>2. PICK x \in 1..Len(RefsOf(code[j])) :
            RefsOf(code[j])[x][1] = a /\ RefsOf(code[j])[x][2].kind = "Call"
    BY <1>3, <2>1, RefsOfFacts
  <2>3. x \in Nat \ {0}
    BY <2>1, RefsOfFacts, LenProperties
  <2>4. <<j, x>> \in P /\ RefAt(code, <<j, x>>).kind = "Call"
    BY <2>2, <2>3 DEF RefAt
  <2>5. QED  BY <2>4
<1> HIDE DEF P
<1>4. QED  BY <1>1, <1>2, <1>3 DEF Targets

\* The two loops over the index agree, for any code and any names: what the xrefs
\* window lists as called has a name, and made-up names are only of such addresses.
THEOREM CallsNamedCorrect == DocSpec => []CallsNamed
<1>1. LoadInv /\ TypeOK => CallsNamed
  <2> SUFFICES ASSUME LoadInv, TypeOK, stage = "loaded"
               PROVE  /\ \A a \in DOMAIN to :
                             (\E r \in Range(to[a]) : r.kind = "Call") => HasSymbol(a)
                      /\ \A a \in DOMAIN map : map[a].src = AutoSource =>
                             \E r \in Range(RefsTo(to, a)) : r.kind = "Call"
    BY DEF CallsNamed
  <2>1. Targets(Len(code) + 1) \subseteq DOMAIN map /\ AutoNamed(Len(code) + 1)
    BY DEF LoadInv, SubsDone, MadeUp
  <2>2. DOMAIN to \subseteq Addr
    BY DEF LoadInv, TableDone, TableOf
  <2>3. DOMAIN map \subseteq Addr
    BY DEF TypeOK
  <2>4. ASSUME NEW a \in DOMAIN to, \E r \in Range(to[a]) : r.kind = "Call" PROVE HasSymbol(a)
    BY <2>1, <2>2, <2>4, CallListed DEF HasSymbol, RefsTo
  <2>5. ASSUME NEW a \in DOMAIN map, map[a].src = AutoSource
        PROVE  \E r \in Range(RefsTo(to, a)) : r.kind = "Call"
    BY <2>1, <2>3, <2>5, CallListed DEF AutoNamed
  <2>6. QED  BY <2>4, <2>5
<1>2. DocSpec => []TypeOK
  BY LoadingIsNaming, TypeCorrect, PTL
<1>3. QED  BY <1>1, <1>2, LoadInductive, PTL

\* The references listed for an address are exactly those the instructions make,
\* each once and in the order of the code, for any code.
THEOREM RefsCompleteCorrect == DocSpec => []RefsComplete
<1>1. LoadInv => RefsComplete
  <2> SUFFICES ASSUME LoadInv, stage = "loaded", NEW a \in Addr
               PROVE  LET refs == RefsTo(to, a)
                          makes == {in \in Range(code) : Refers(in, a)}
                      IN  /\ {r.from : r \in Range(refs)} = {in.addr : in \in makes}
                          /\ Len(refs) = Cardinality(References(a))
                          /\ \A i, j \in 1..Len(refs) : i < j => refs[i].from <= refs[j].from
    BY DEF RefsComplete, Refers
  <2> DEFINE refs == RefsTo(to, a)
             makes == {in \in Range(code) : Refers(in, a)}
             P == {p \in (1..Len(code)) \X (Nat \ {0}) :
                      p[2] \in 1..Len(RefsOf(code[p[1]])) /\ RefsOf(code[p[1]])[p[2]][1] = a}
  <2>0. /\ code \in Codes /\ code \in Seq(Instruction(Addr)) /\ Len(code) \in Nat
        /\ DOMAIN code = 1..Len(code)
        /\ \A j \in 1..Len(code) : code[j] \in Instruction(Addr)
    BY RowFacts, LenProperties DEF LoadInv, CodeOK
  <2>1. ListOf(refs, code, P)
    BY LoadedRefs
  <2>2. \A j \in 1..Len(code) : /\ Len(RefsOf(code[j])) \in Nat
                                /\ DOMAIN RefsOf(code[j]) = 1..Len(RefsOf(code[j]))
    BY <2>0, RefsOfFacts, LenProperties
  <2>3. References(a) = P
    <3>1. \A j \in 1..Len(code) : DOMAIN RefsOf(code[j]) \subseteq Nat \ {0}
      BY <2>2
    <3>2. \A p : p \in References(a) <=>
              \E j \in 1..Len(code) : \E x \in DOMAIN RefsOf(code[j]) :
                  RefsOf(code[j])[x][1] = a /\ p = <<j, x>>
      BY DEF References
    <3>3. \A p \in P : p = <<p[1], p[2]>> /\ p[1] \in 1..Len(code) /\ p[2] \in DOMAIN RefsOf(code[p[1]])
      BY <2>2
    <3>4. \A j \in 1..Len(code) : \A x \in DOMAIN RefsOf(code[j]) :
              RefsOf(code[j])[x][1] = a => <<j, x>> \in P
      BY <2>2, <3>1
    <3>5. \A p \in P : RefsOf(code[p[1]])[p[2]][1] = a
      OBVIOUS
    <3> HIDE DEF P
    <3>6. \A p : p \in References(a) <=> p \in P
      BY <3>2, <3>3, <3>4, <3>5
    <3>7. QED  BY <3>6
  <2>4. {r.from : r \in Range(refs)} = {in.addr : in \in makes}
    <3>1. Range(refs) = {RefAt(code, p) : p \in P}
      BY <2>1 DEF ListOf
    <3>2. ASSUME NEW p \in P PROVE RefAt(code, p).from \in {in.addr : in \in makes}
      <4>1. p[1] \in 1..Len(code) /\ code[p[1]] \in Instruction(Addr)
        BY <2>0
      <4>2. RefAt(code, p).from = code[p[1]].addr
        BY <4>1, RefsOfFacts DEF RefAt
      <4>3. \E x \in 1..Len(RefsOf(code[p[1]])) : RefsOf(code[p[1]])[x][1] = a
        OBVIOUS
      <4>4. Refers(code[p[1]], a)
        BY <4>1, <4>3, RefsOfFacts
      <4>5. code[p[1]] \in Range(code)
        BY <2>0, <4>1 DEF Range
      <4>6. QED  BY <4>2, <4>4, <4>5
    <3>3. ASSUME NEW in \in makes PROVE \E p \in P : RefAt(code, p).from = in.addr
      <4>1. PICK j \in 1..Len(code) : code[j] = in
        BY <2>0 DEF Range
      <4>2. code[j] \in Instruction(Addr) /\ Refers(code[j], a)
        BY <2>0, <4>1
      <4>3. PICK x \in 1..Len(RefsOf(code[j])) : RefsOf(code[j])[x][1] = a
        BY <4>2, RefsOfFacts
      <4>4. RefsOf(code[j])[x][2].from = in.addr
        BY <4>1, <4>2, RefsOfFacts
      <4>5. x \in Nat \ {0}
        BY <2>2
      <4>6. <<j, x>> \in P /\ RefAt(code, <<j, x>>).from = in.addr
        BY <4>3, <4>4, <4>5 DEF RefAt
      <4>7. QED  BY <4>6
    <3> HIDE DEF P, makes, refs
    <3>4. QED  BY <3>1, <3>2, <3>3
  <2>5. QED  BY <2>1, <2>3, <2>4 DEF ListOf
<1>2. QED  BY <1>1, LoadInductive, PTL

-----------------------------------------------------------------------------
\* The whole of load_into_document is a behaviour of Document and one of the
\* scan for strings, so that what is proved of either holds of a loaded file.
THEOREM LoadingComposes == LoadSpec => DocSpec /\ ScanSpec
<1>1. LoadInit => DocInit /\ ScanInit
  BY DEF LoadInit
<1>2. [LoadNext]_loadVars => [DocNext]_<<vars, docVars>> /\ [ScanNext]_scanVars
  <2> SUFFICES ASSUME [LoadNext]_loadVars
               PROVE  [DocNext]_<<vars, docVars>> /\ [ScanNext]_scanVars
    OBVIOUS
  <2>1. CASE ScanStrings
    BY <2>1 DEF ScanStrings, ScanNext
  <2>2. CASE DocNext /\ UNCHANGED scanVars
    BY <2>2
  <2>3. CASE UNCHANGED loadVars
    BY <2>3 DEF loadVars
  <2>4. QED  BY <2>1, <2>2, <2>3 DEF LoadNext
<1>3. QED  BY <1>1, <1>2, PTL DEF LoadSpec, DocSpec, ScanSpec
=============================================================================
