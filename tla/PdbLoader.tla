----------------------------- MODULE PdbLoader -----------------------------
(***************************************************************************)
(* pe::PdbLoader (pe/Pdb.cpp): one loader per open document, all of them   *)
(* sharing dbghelp's one module table of the process, keyed by base.       *)
(***************************************************************************)
EXTENDS Integers, FiniteSets

CONSTANTS Doc,        \* documents, each the image of some file
          FileOf,     \* file of each document; the same file may be open twice
          BaseOf,     \* preferred base of each file, not 0; bases may coincide
          Matching    \* files with a matching PDB around

ImageFile == {FileOf[d] : d \in Doc}
ASSUME ImagesAssumption == BaseOf \in [ImageFile -> Nat \ {0}] /\ Matching \subseteq ImageFile

VARIABLES open,      \* documents that are loaded
          modules,   \* dbghelp (external): base -> the file loaded there
          base,      \* m_module_base of each loader, 0 when it holds no module
          named      \* documents that received their PDB's symbols
pdbVars == <<open, modules, base, named>>

PdbInit == open = {} /\ modules = [b \in {} |-> ""] /\ base = [d \in Doc |-> 0] /\ named = {}

\* SymLoadModuleExW (external) answers the base, or 0 when a module is loaded
\* there already, the same one included; it may also fail, but not on a file
\* that has a matching PDB.
Taken(b) == b \in DOMAIN modules
LoadedAt(b, f) == [x \in DOMAIN modules \cup {b} |-> IF x = b THEN f ELSE modules[x]]
Without(b) == [x \in DOMAIN modules \ {b} |-> modules[x]]

\* What the loader remembers of the answer.  Mutant: the base it asked for.
HeldAsked(answer, asked) == asked
Held(answer, asked) == answer

\* load: on 0 it returns false without a module, else it names the symbols.
Load(d) ==
    LET f == FileOf[d]
        b == BaseOf[f]
    IN  /\ d \notin open
        /\ open' = open \cup {d}
        /\ \/ /\ Taken(b) \/ f \notin Matching
              /\ base' = [base EXCEPT ![d] = Held(0, b)]
              /\ UNCHANGED <<modules, named>>
           \/ /\ ~Taken(b)
              /\ modules' = LoadedAt(b, f)
              /\ base' = [base EXCEPT ![d] = Held(b, b)]
              /\ named' = IF f \in Matching THEN named \cup {d} ELSE named

\* unload, from the destructor of a closed document's loader.  Mutant: the
\* module is forgotten, not unloaded.
ReleaseNothing(b) == UNCHANGED modules
Release(b) == modules' = Without(b)

Unload(d) ==
    /\ d \in open
    /\ open' = open \ {d}
    /\ named' = named \ {d}
    /\ IF base[d] = 0 THEN UNCHANGED <<modules, base>>
       ELSE Release(base[d]) /\ base' = [base EXCEPT ![d] = 0]

PdbNext == \E d \in Doc : Load(d) \/ Unload(d)
PdbSpec == PdbInit /\ [][PdbNext]_pdbVars

-----------------------------------------------------------------------------
\* A loader that holds a module is the only one holding it, and it is the one
\* of its own file: closing a tab never unloads another tab's module.
OwnModule ==
    \A d \in Doc : base[d] # 0 =>
        /\ d \in open /\ Taken(base[d]) /\ modules[base[d]] = FileOf[d]
        /\ \A e \in Doc : base[e] = base[d] => e = d

\* No module outlives its documents, however loads and closes interleave.
NoLeak == DOMAIN modules \subseteq {base[d] : d \in open} \ {0}

\* README.md:39 has PDB symbols when a matching one is around: an open
\* document with a matching PDB has its symbols.  Two tabs of one file are one
\* module to dbghelp; the second load is answered 0 and names nothing.
MatchingNamed == \A d \in open : FileOf[d] \in Matching => d \in named
=============================================================================
