---------------------------- MODULE SymbolStore ----------------------------
(***************************************************************************)
(* analysis::SymbolStore: at most one name per address, the names kept in  *)
(* a deque that only grows so that the pointers handed out stay good       *)
(* (analysis/SymbolStore.{h,cpp}).  A pointer is an index into storage.    *)
(***************************************************************************)
EXTENDS Naturals, Sequences

CONSTANTS Addr,        \* addresses that may get a symbol
          Name,        \* names read from the image or its PDB
          MaxOffers    \* bound: names offered between two clears

ASSUME OffersAssumption == MaxOffers \in Nat

\* SymbolStore::Source, by priority.
AutoSource == 0     \* Source::Auto
ImportIat == 1
Export == 2
Pdb == 3
User == 4
Source == AutoSource..User
\* The sources the callers pass to add(); Auto comes through ensure_sub() and
\* nothing passes User yet.
CallerSource == {ImportIat, Export, Pdb}

\* The name ensure_sub() makes up for an address.
SubName(addr) == <<"sub", addr>>
Text == Name \cup {SubName(addr) : addr \in Addr}

VARIABLES map,       \* m_map: a function on the addresses that have a symbol
          storage,   \* m_storage
          offers     \* history: every (address, text, source) add() was given
vars == <<map, storage, offers>>

Entry == [name : Nat \ {0}, src : Source]
Offer == [addr : Addr, text : Text, src : Source]
NoSymbols == [addr \in {} |-> 0]

HasSymbol(addr) == addr \in DOMAIN map

\* find(): the text of the entry at addr.
Find(addr) == storage[map[addr].name]

\* add() keeps an entry whose source is as strong as the new one.  Mutant: it
\* keeps whatever came first.
KeepsFirst(addr, src) == HasSymbol(addr)
KeepsEntry(addr, src) == HasSymbol(addr) /\ map[addr].src >= src

\* m_storage.push_back and the map entry pointing at the new back.
StoreInPlace(addr, text, src) ==
    IF HasSymbol(addr)
    THEN /\ storage' = [storage EXCEPT ![map[addr].name] = text]
         /\ map' = [map EXCEPT ![addr].src = src]
    ELSE /\ storage' = Append(storage, text)
         /\ map' = [a \in DOMAIN map \cup {addr} |->
                      IF a = addr THEN [name |-> Len(storage) + 1, src |-> src]
                      ELSE map[a]]
Store(addr, text, src) ==
    /\ storage' = Append(storage, text)
    /\ map' = [a \in DOMAIN map \cup {addr} |->
                 IF a = addr THEN [name |-> Len(storage) + 1, src |-> src]
                 ELSE map[a]]

Init == map = NoSymbols /\ storage = <<>> /\ offers = <<>>

Add(addr, text, src) ==
    /\ Len(offers) < MaxOffers
    /\ offers' = Append(offers, [addr |-> addr, text |-> text, src |-> src])
    /\ IF KeepsEntry(addr, src) THEN UNCHANGED <<map, storage>>
                                ELSE Store(addr, text, src)

\* ensure_sub returns early when the address has any symbol.
EnsureSub(addr) == ~HasSymbol(addr) /\ Add(addr, SubName(addr), AutoSource)

Clear == map' = NoSymbols /\ storage' = <<>> /\ offers' = <<>>

Next ==
    \/ \E addr \in Addr, text \in Name, src \in CallerSource : Add(addr, text, src)
    \/ \E addr \in Addr : EnsureSub(addr)
    \/ Clear

Spec == Init /\ [][Next]_vars

-----------------------------------------------------------------------------
\* Types; every entry points at a live name.
TypeOK ==
    /\ DOMAIN map \subseteq Addr
    /\ map \in [DOMAIN map -> Entry]
    /\ storage \in Seq(Text)
    /\ offers \in Seq(Offer)
    /\ \A a \in DOMAIN map : map[a].name <= Len(storage)

\* Offer i is the one an address should show: none for the address is
\* stronger, none as strong came before.
Wins(i) ==
    \A j \in 1..Len(offers) : offers[j].addr = offers[i].addr =>
        /\ offers[j].src <= offers[i].src
        /\ offers[j].src = offers[i].src => i <= j

\* SymbolStore.h:12, higher priority overwrites lower: in whatever order imports,
\* exports, PDB symbols and call targets offer their names, each address shows a
\* name of the strongest source that offered one, and has no symbol exactly when
\* none did.  Nothing is said of two names from one source: by SymbolStore.h:23
\* only a higher-priority source keeps a new name out, but add() keeps the first.
StrongestShown ==
    \A a \in Addr :
        IF HasSymbol(a)
        THEN \E i \in 1..Len(offers) :
                 /\ offers[i].addr = a /\ offers[i].text = Find(a)
                 /\ \A j \in 1..Len(offers) : offers[j].addr = a => offers[j].src <= offers[i].src
        ELSE \A i \in 1..Len(offers) : offers[i].addr # a

\* What add() keeps step by step, from which StrongestShown follows: of the
\* offers of the strongest source it is the first that is shown.
FirstOfStrongest ==
    \A a \in Addr :
        IF HasSymbol(a)
        THEN \E i \in 1..Len(offers) :
                 /\ offers[i].addr = a /\ Wins(i)
                 /\ offers[i].text = Find(a) /\ offers[i].src = map[a].src
        ELSE \A i \in 1..Len(offers) : offers[i].addr # a

\* SymbolStore.h:24: a const char* that was handed out keeps its text for as
\* long as the store is not cleared.
NamesStay ==
    [][map' # NoSymbols =>
           \A p \in 1..Len(storage) : p <= Len(storage') /\ storage'[p] = storage[p]]_vars
=============================================================================
