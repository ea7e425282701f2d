------------------------------ MODULE Document ------------------------------
(***************************************************************************)
(* load_into_document (ui/App.cpp): the stages a file goes through before  *)
(* it becomes a tab.  Each names the addresses of the image in turn        *)
(* (SymbolStore), and the cross-references are built last (Xrefs).         *)
(***************************************************************************)
EXTENDS SymbolStore, Xrefs

CONSTANTS Codes,     \* decoded index of each image: sequences of instructions
          MaxNames   \* bound: names the image and its PDB offer

ASSUME CodesAssumption ==
    /\ Addr \subseteq Nat
    /\ \A c \in Codes :
           /\ c \in Seq(Instruction(Addr))
           /\ \A i, j \in 1..Len(c) : i < j => c[i].addr < c[j].addr
           /\ MaxNames + Len(c) <= MaxOffers     \* every row may offer one more

VARIABLES stage,     \* what load_into_document does next
          code,      \* the rows of doc.index
          row,       \* the row a loop over the index is at
          to,        \* xrefs.m_to
          status     \* status_message
docVars == <<stage, code, row, to, status>>

Stages == <<"image", "engine", "imports", "exports", "pdb", "subs", "xrefs", "place">>
Ended == stage \in {"loaded", "failed"}

DocInit ==
    /\ Init
    /\ stage = "image" /\ row = 1 /\ to = NoRefs /\ status = ""
    /\ code \in Codes

GoTo(s) == stage' = s /\ row' = 1
Fail(message) == GoTo("failed") /\ status' = message /\ UNCHANGED <<vars, code, to>>

\* image.load and engine.init: the two early returns.
LoadImage ==
    /\ stage = "image"
    /\ \/ Fail("Failed to load PE")
       \/ GoTo("engine") /\ UNCHANGED <<vars, code, to, status>>
InitEngine ==
    /\ stage = "engine"
    /\ \/ Fail("Zydis init failed")
       \/ GoTo("imports") /\ UNCHANGED <<vars, code, to, status>>

\* The loops that name addresses from the image: imports at their IAT slots,
\* exports that have a name, the symbols of a PDB if one loads.
Naming(s, next, src) ==
    /\ stage = s
    /\ \/ /\ Len(offers) < MaxNames
          /\ \E a \in Addr, n \in Name : Add(a, n, src)
          /\ UNCHANGED docVars
       \/ GoTo(next) /\ UNCHANGED <<vars, code, to, status>>
NameImports == Naming("imports", "exports", ImportIat)
NameExports == Naming("exports", "pdb", Export)
NamePdb == Naming("pdb", "subs", Pdb)

\* The next row of a loop over the index, or the stage after the loop.
AtRow(s) == stage = s /\ row <= Len(code)
NextRow == row' = row + 1 /\ UNCHANGED <<stage, code, status>>
AfterRows(s, next) ==
    /\ stage = s /\ row > Len(code)
    /\ GoTo(next)
    /\ UNCHANGED <<vars, code, to, status>>

\* Call targets without a name get one made up.  Mutant: of all branches.
NamesTargetOfBranch(in) == in.decodes /\ IsBranch(in.category) /\ in.imm # None
NamesTarget(in) == in.decodes /\ in.category = "CALL" /\ in.imm # None
NameSubs ==
    \/ AfterRows("subs", "xrefs")
    \/ /\ AtRow("subs") /\ NextRow
       /\ UNCHANGED to
       /\ IF NamesTarget(code[row]) /\ ~HasSymbol(code[row].imm)
          THEN EnsureSub(code[row].imm) ELSE UNCHANGED vars

BuildXrefs ==
    \/ AfterRows("xrefs", "place")
    \/ /\ AtRow("xrefs") /\ NextRow
       /\ to' = AddRefs(to, code[row])
       /\ UNCHANGED vars

\* The selection is placed on the entry point; the tab can be opened.
Place ==
    /\ stage = "place"
    /\ GoTo("loaded") /\ status' = "Loaded"
    /\ UNCHANGED <<vars, code, to>>

\* Every load is into a Document of its own: a failed one is destroyed by
\* open_document, and nothing here happens to a loaded one.
LoadEnded == Ended /\ UNCHANGED <<vars, docVars>>

DocNext ==
    \/ LoadImage \/ InitEngine \/ NameImports \/ NameExports \/ NamePdb
    \/ NameSubs \/ BuildXrefs \/ Place \/ LoadEnded

DocSpec == DocInit /\ [][DocNext]_<<vars, docVars>>

-----------------------------------------------------------------------------
\* Types, also of the SymbolStore whose entries point into its storage.
DocTypeOK ==
    /\ TypeOK
    /\ stage \in Range(Stages) \cup {"loaded", "failed"}
    /\ row \in 1..(Len(code) + 1)
    /\ DOMAIN to \subseteq Addr
    /\ \A a \in DOMAIN to : to[a] \in Seq([from : Addr, kind : Kind]) /\ to[a] # <<>>

\* The two loops over the index agree: every address the xrefs window lists a
\* call to has a name, and a made-up name is only ever of such a target that
\* nothing else named.
CallsNamed ==
    stage = "loaded" =>
        /\ \A a \in DOMAIN to : (\E r \in Range(to[a]) : r.kind = "Call") => HasSymbol(a)
        /\ \A a \in DOMAIN map : map[a].src = AutoSource =>
               \E r \in Range(RefsTo(to, a)) : r.kind = "Call"

\* The references to an address are all those the decoded instructions make,
\* none twice, in the order of the code.
References(a) ==
    UNION {{<<i, k>> : k \in {x \in DOMAIN RefsOf(code[i]) : RefsOf(code[i])[x][1] = a}} :
           i \in 1..Len(code)}
RefsComplete ==
    stage = "loaded" => \A a \in Addr :
        LET refs == RefsTo(to, a)
            makes == {in \in Range(code) : in.decodes /\
                         (\/ IsBranch(in.category) /\ in.imm = a
                          \/ \E m \in Range(in.mem) : m.target = a)}
        IN  /\ {r.from : r \in Range(refs)} = {in.addr : in \in makes}
            /\ Len(refs) = Cardinality(References(a))
            /\ \A i, j \in 1..Len(refs) : i < j => refs[i].from <= refs[j].from
=============================================================================
