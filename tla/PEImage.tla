------------------------------ MODULE PEImage ------------------------------
(***************************************************************************)
(* pe::PEImage::load (pe/PEImage.cpp), one action per parser.  A file is   *)
(* [size, full, at, text]: at[type] gives the structure of a type that the *)
(* linker placed at an offset, text[offset] the string there as [of,       *)
(* chars]; every other byte is zero.  A file cut short has size < full.    *)
(* The lists found are operators on the file, so that the listing of a cut *)
(* file can be compared with that of the whole one.                        *)
(***************************************************************************)
EXTENDS PEAddress, Selection

CONSTANTS Files,     \* files to load
          Width,     \* sizeof of each structure, by type
          MaxName,   \* longest string read, 0x1000
          W16        \* 2^16, a smaller power in the runs

VARIABLES file,      \* m_file
          step,      \* the parser that runs next
          hdr,       \* fields of the headers: is64, base, dirs, first section header, count
          sections,  \* m_sections
          imports,   \* m_imports
          exports,   \* m_exports
          pdb        \* pdb_guid with pdb_age and m_pdb_path
peVars == <<file, step, hdr, sections, imports, exports, pdb>>

-----------------------------------------------------------------------------
\* read_at: a structure that does not fit is not read.
Zero == [descriptor |-> [int |-> 0, dll |-> 0, iat |-> 0], thunk |-> [byOrdinal |-> FALSE, value |-> 0],
         rva |-> 0, ordinal |-> 0, hint |-> 0,
         dos |-> [mz |-> FALSE, lfanew |-> 0], sig |-> FALSE, magic |-> 0,
         debug |-> [codeview |-> FALSE, raw |-> 0], codeview |-> [rsds |-> FALSE, guid |-> 0],
         exports |-> [functions |-> 0, names |-> 0, ordinals |-> 0, nFuncs |-> 0, nNames |-> 0,
                      base |-> 0]]
\* The structures parsers follow have unsigned fields, a string its length; the
\* format has 16 directories.
Structures == [descriptor |-> [int : Nat, dll : Nat, iat : Nat],
               thunk |-> [byOrdinal : BOOLEAN, value : Nat], rva |-> Nat, ordinal |-> Nat,
               debug |-> [codeview : BOOLEAN, raw : Nat],
               exports |-> [functions : Nat, names : Nat, ordinals : Nat, nFuncs : Nat, nNames : Nat,
                            base : Nat]]
Directories == [rva : Nat, size : Nat]
ASSUME WidthAssumption ==
    /\ MaxName \in Nat
    /\ \A type \in {"descriptor", "thunk32", "thunk64", "rva", "ordinal", "hint", "exports",
                 "debug", "codeview"} :
           Width[type] \in Nat \ {0}
ASSUME FilesAssumption ==
    \A f \in Files :
        /\ f = [size |-> f.size, full |-> f.full, at |-> f.at, text |-> f.text]
        /\ f.size \in Nat /\ f.full \in Nat /\ f.size <= f.full
        /\ \A kind \in DOMAIN Structures : \A at \in DOMAIN f.at[kind] : f.at[kind][at] \in Structures[kind]
        /\ \A at \in DOMAIN f.text : f.text[at] \in [of : STRING, chars : Nat]
        /\ \A at \in DOMAIN f.at["opt"] :
               /\ f.at["opt"][at].base \in Nat
               /\ f.at["opt"][at].dirs \in Seq(Directories) /\ Len(f.at["opt"][at].dirs) <= 16
Fits(f, type, at) == at + Width[type] <= f.size
Placed(f, kind, at) == IF at \in DOMAIN f.at[kind] THEN f.at[kind][at] ELSE Zero[kind]

\* read_cstr: up to the terminator, the end of the file or MaxName characters.
NoText == [of |-> "", chars |-> 0]
ReadStr(f, at) ==
    IF at >= f.size \/ at \notin DOMAIN f.text THEN NoText
    ELSE [f.text[at] EXCEPT !.chars = Min({@, f.size - at, MaxName})]

Add32(a, b) == (a + b) % W32

-----------------------------------------------------------------------------
\* parse_headers: everything it asks of the file, in order.
Lfanew(f) == Placed(f, "dos", 0).lfanew
FileHeader(f) == Add32(Lfanew(f), Width["sig"])
OptHeader(f) == FileHeader(f) + Width["file"]
Magic(f) == Placed(f, "magic", OptHeader(f))
OptType(f) == IF Magic(f) = 64 THEN "opt64" ELSE "opt32"
HeadersGood(f) ==
    /\ Fits(f, "dos", 0) /\ Placed(f, "dos", 0).mz
    /\ Fits(f, "sig", Lfanew(f)) /\ Placed(f, "sig", Lfanew(f))
    /\ Fits(f, "file", FileHeader(f))
    /\ Fits(f, "magic", OptHeader(f)) /\ Magic(f) \in {32, 64}
    /\ Fits(f, OptType(f), OptHeader(f))
Header(f) ==
    [is64 |-> Magic(f) = 64,
     base |-> f.at["opt"][OptHeader(f)].base,
     dirs |-> f.at["opt"][OptHeader(f)].dirs,
     table |-> OptHeader(f) + f.at["file"][FileHeader(f)].optSize,
     count |-> f.at["file"][FileHeader(f)].sections]
ASSUME HeadersPlaced == \A f \in Files : HeadersGood(f) => OptHeader(f) \in DOMAIN f.at["opt"]

\* parse_sections: section headers up to the first that does not fit.
SectionAt(h, i) == h.table + (i - 1) * Width["section"]
SectionList(f, h) ==
    LET fit == {i \in 1..h.count : \A j \in 1..i : Fits(f, "section", SectionAt(h, j))}
    IN  [i \in fit |-> f.at["section"][SectionAt(h, i)]]

Parsed(f) == HeadersGood(f) /\ Len(SectionList(f, Header(f))) = Header(f).count

\* A directory of the optional header, if it has one at all.
Dir(h, d) == IF Len(h.dirs) <= d THEN [rva |-> 0, size |-> 0] ELSE h.dirs[d + 1]
DirOffset(h, secs, d) ==
    IF Dir(h, d).rva = 0 \/ Dir(h, d).size = 0 THEN None ELSE RvaToFileOffset(secs, Dir(h, d).rva)
ExportDir == 0
ImportDir == 1
DebugDir == 6

-----------------------------------------------------------------------------
\* The loops of parse_imports count entries up to the first that is not there.
CountWhile(f, there) ==
    LET Count[k \in 0..(f.size + 1)] == IF k \in there THEN Count[k + 1] ELSE k IN Count[0]
Indices(n) == [i \in 1..n |-> i - 1]

\* The string an RVA leads to, behind skip bytes.
TextAt(f, secs, rva, skip) ==
    LET at == RvaToFileOffset(secs, rva) IN IF at = None THEN NoText ELSE ReadStr(f, Add32(at, skip))

ThunkType(h) == IF h.is64 THEN "thunk64" ELSE "thunk32"
Stride(h) == Width[ThunkType(h)]

\* A thunk as ImportFunction: by ordinal, or by name behind a hint.
Imported(f, secs, thunk, va) ==
    LET at == RvaToFileOffset(secs, thunk.value % W32)
    IN  IF thunk.byOrdinal
        THEN [name |-> NoText, ordinal |-> thunk.value % W16, hint |-> 0, iat_va |-> va]
        ELSE [name |-> TextAt(f, secs, thunk.value % W32, Width["hint"]), ordinal |-> 0,
              hint |-> IF at # None /\ Fits(f, "hint", at) THEN Placed(f, "hint", at) ELSE 0,
              iat_va |-> va]

\* Address of import slot k of a module.  Mutant: the 32-bit stride in all images.
SlotVaNarrow(h, iat, k) == h.base + iat + k * Width["thunk32"]
SlotVa(h, iat, k) == h.base + iat + k * Stride(h)

\* The table the names are read from: OriginalFirstThunk, FirstThunk without one.
NameTable(desc) == IF desc.int # 0 THEN desc.int ELSE desc.iat
ThunkAt(f, h, first, k) == Placed(f, "thunk", first + k * Stride(h))
Thunks(f, h, first) ==
    {k \in 0..f.size : Fits(f, ThunkType(h), first + k * Stride(h)) /\ ThunkAt(f, h, first, k) # Zero["thunk"]}
Functions(f, h, secs, desc) ==
    LET first == RvaToFileOffset(secs, NameTable(desc))
    IN  [k \in 1..CountWhile(f, Thunks(f, h, first)) |->
            Imported(f, secs, ThunkAt(f, h, first, k - 1), SlotVa(h, desc.iat, k - 1))]

\* parse_imports: a module whose names are not in the file is left out.
DescAt(first, k) == first + k * Width["descriptor"]
Desc(f, first, k) == Placed(f, "descriptor", DescAt(first, k))
Descs(f, first) ==
    {k \in 0..f.size : /\ Fits(f, "descriptor", DescAt(first, k))
                       /\ ~(Desc(f, first, k).dll = 0 /\ Desc(f, first, k).iat = 0)}
Modules(f, secs, first) ==
    Kept(Indices(CountWhile(f, Descs(f, first))),
         {k \in Nat : RvaToFileOffset(secs, NameTable(Desc(f, first, k))) # None})
Module(f, h, secs, desc) ==
    [dll |-> TextAt(f, secs, desc.dll, 0), functions |-> Functions(f, h, secs, desc)]
ImportList(f, h, secs) ==
    LET first == DirOffset(h, secs, ImportDir)
        listed == Modules(f, secs, first)
    IN  IF first = None THEN <<>>
        ELSE [k \in 1..Len(listed) |-> Module(f, h, secs, Desc(f, first, listed[k]))]

-----------------------------------------------------------------------------
\* parse_exports.  Array element i of a table of rvas or ordinals.
Element(at, type, i) == Add32(at, i * Width[type])

\* name_by_ord: what can be read of the name table, as <<index, name>>, the
\* name empty if it lies behind the end of the file.  Mutant: such a name is
\* left out.
ReadableName(f, secs, rvaAt, ordAt) ==
    /\ Fits(f, "rva", rvaAt) /\ Fits(f, "ordinal", ordAt)
    /\ RvaToFileOffset(secs, Placed(f, "rva", rvaAt)) \in 0..(f.size - 1)
Readable(f, secs, rvaAt, ordAt) ==
    /\ Fits(f, "rva", rvaAt) /\ Fits(f, "ordinal", ordAt)
    /\ RvaToFileOffset(secs, Placed(f, "rva", rvaAt)) # None
RvaAt(secs, ed, i) == Element(RvaToFileOffset(secs, ed.names), "rva", i)
OrdAt(secs, ed, i) == Element(RvaToFileOffset(secs, ed.ordinals), "ordinal", i)
Named(f, secs, ed) ==
    Kept(Indices(ed.nNames), {i \in Nat : Readable(f, secs, RvaAt(secs, ed, i), OrdAt(secs, ed, i))})
NamesByOrd(f, secs, ed) ==
    LET listed == Named(f, secs, ed)
    IN  IF RvaToFileOffset(secs, ed.names) = None \/ RvaToFileOffset(secs, ed.ordinals) = None THEN <<>>
        ELSE [k \in 1..Len(listed) |->
                 <<Placed(f, "ordinal", OrdAt(secs, ed, listed[k])),
                   TextAt(f, secs, Placed(f, "rva", RvaAt(secs, ed, listed[k])), 0)>>]

\* Names belong to indices into the function table.  Mutant: to ordinals.
NamesOrdinal(nb, i, ed) == nb[1] = ed.base + i
NamesIndex(nb, i, ed) == nb[1] = i
NameOf(byOrd, i, ed) ==
    LET hits == {k \in 1..Len(byOrd) : NamesIndex(byOrd[k], i, ed)}
    IN  IF hits = {} THEN NoText ELSE byOrd[Min(hits)][2]

FunctionAt(secs, ed, i) == Element(RvaToFileOffset(secs, ed.functions), "rva", i)
FunctionRva(f, secs, ed, i) == Placed(f, "rva", FunctionAt(secs, ed, i))
Exported(f, secs, ed) ==
    Kept(Indices(ed.nFuncs),
         {i \in Nat : Fits(f, "rva", FunctionAt(secs, ed, i)) /\ FunctionRva(f, secs, ed, i) # 0})
Forwards(dir, rva) == dir.rva <= rva /\ rva < Add32(dir.rva, dir.size)
Export(f, secs, dir, ed, i) ==
    LET rva == FunctionRva(f, secs, ed, i)
    IN  [ordinal |-> (ed.base + i) % W16, rva |-> rva,
         name |-> NameOf(NamesByOrd(f, secs, ed), i, ed),
         forwarder |-> IF Forwards(dir, rva) THEN TextAt(f, secs, rva, 0) ELSE NoText]
ExportDirectory(f, h, secs) == Placed(f, "exports", DirOffset(h, secs, ExportDir))
ExportList(f, h, secs) ==
    LET at == DirOffset(h, secs, ExportDir)
        ed == ExportDirectory(f, h, secs)
        listed == Exported(f, secs, ed)
    IN  IF at = None \/ ~Fits(f, "exports", at) \/ RvaToFileOffset(secs, ed.functions) = None THEN <<>>
        ELSE [k \in 1..Len(listed) |-> Export(f, secs, Dir(h, ExportDir), ed, listed[k])]

\* parse_debug: the first CodeView entry that is an RSDS record.
NoPdb == [guid |-> 0, path |-> NoText]
DebugAt(first, i) == first + i * Width["debug"]
RawAt(f, first, i) == Placed(f, "debug", DebugAt(first, i)).raw
IsRsds(f, first, i) ==
    /\ Fits(f, "debug", DebugAt(first, i)) /\ Placed(f, "debug", DebugAt(first, i)).codeview
    /\ Fits(f, "codeview", RawAt(f, first, i)) /\ Placed(f, "codeview", RawAt(f, first, i)).rsds
RsdsAt(f, raw) ==
    [guid |-> Placed(f, "codeview", raw).guid, path |-> ReadStr(f, raw + Width["codeview"])]
RsdsList(f, h, secs) ==
    LET first == DirOffset(h, secs, DebugDir)
        found == Kept(Indices(Dir(h, DebugDir).size \div Width["debug"]), {i \in Nat : IsRsds(f, first, i)})
    IN  IF first = None THEN <<>>
        ELSE [k \in 1..Len(found) |-> RsdsAt(f, RawAt(f, first, found[k]))]

-----------------------------------------------------------------------------
(* What a linker writes.  Every import has a slot of its own, mapped to a    *)
(* copy of the thunk it is read from.  The tables of the export names do not *)
(* wrap around the address space, and each name belongs to a function.       *)
ASSUME SlotsLinked ==
    \A f \in Files : Parsed(f) =>
        LET h == Header(f)
            secs == SectionList(f, h)
            first == DirOffset(h, secs, ImportDir)
            Table(m) == RvaToFileOffset(secs, NameTable(Desc(f, first, m)))
            slots == {x \in Range(Modules(f, secs, first)) \X (0..f.size) :
                          x[2] < CountWhile(f, Thunks(f, h, Table(x[1])))}
            SlotRva(x) == Desc(f, first, x[1]).iat + x[2] * Stride(h)
        IN  first # None =>
                /\ \A x \in slots :
                       /\ SlotRva(x) < W32
                       /\ Placed(f, "thunk", RvaToFileOffset(secs, SlotRva(x)))
                              = ThunkAt(f, h, Table(x[1]), x[2])
                /\ \A x, y \in slots : SlotRva(x) = SlotRva(y) => x = y
ASSUME NamesLinked ==
    \A f \in Files : Parsed(f) =>
        LET h == Header(f)
            secs == SectionList(f, h)
            ed == ExportDirectory(f, h, secs)
        IN  /\ RvaToFileOffset(secs, ed.names) + ed.nNames * Width["rva"] <= W32
            /\ RvaToFileOffset(secs, ed.ordinals) + ed.nNames * Width["ordinal"] <= W32
            /\ f.size = f.full =>
                   \A nb \in Range(NamesByOrd(f, secs, ed)) : nb[1] \in Range(Exported(f, secs, ed))

-----------------------------------------------------------------------------
PEInit ==
    /\ file \in Files /\ step = "open"
    /\ hdr = [is64 |-> FALSE, base |-> 0, dirs |-> <<>>, table |-> 0, count |-> 0]
    /\ sections = <<>> /\ imports = <<>> /\ exports = <<>> /\ pdb = NoPdb

OpenFile ==
    /\ step = "open" /\ step' \in {"headers", "failed"}
    /\ UNCHANGED <<file, hdr, sections, imports, exports, pdb>>
ParseHeaders ==
    /\ step = "headers"
    /\ IF HeadersGood(file) THEN step' = "sections" /\ hdr' = Header(file)
                            ELSE step' = "failed" /\ UNCHANGED hdr
    /\ UNCHANGED <<file, sections, imports, exports, pdb>>
ParseSections ==
    /\ step = "sections"
    /\ sections' = SectionList(file, hdr)
    /\ step' = IF Len(sections') = hdr.count THEN "imports" ELSE "failed"
    /\ UNCHANGED <<file, hdr, imports, exports, pdb>>
ParseImports ==
    /\ step = "imports" /\ step' = "exports"
    /\ imports' = ImportList(file, hdr, sections)
    /\ UNCHANGED <<file, hdr, sections, exports, pdb>>
ParseExports ==
    /\ step = "exports" /\ step' = "debug"
    /\ exports' = ExportList(file, hdr, sections)
    /\ UNCHANGED <<file, hdr, sections, imports, pdb>>
ParseDebug ==
    /\ step = "debug" /\ step' = "loaded"
    /\ LET rsds == RsdsList(file, hdr, sections) IN pdb' = IF rsds = <<>> THEN pdb ELSE Head(rsds)
    /\ UNCHANGED <<file, hdr, sections, imports, exports>>

Load == OpenFile \/ ParseHeaders \/ ParseSections \/ ParseImports \/ ParseExports \/ ParseDebug

-----------------------------------------------------------------------------
Loaded == step = "loaded"
Listing == {e \in (1..Len(imports)) \X (1..file.size) : e[2] <= Len(imports[e[1]].functions)}

\* The IAT slot an import is listed at is the loader's: as linked, the slot holds
\* the thunk the import was read from, though that is read from another table
\* and slots are 4 or 8 bytes; and no two imports are listed at one slot.
SlotsHoldThunks ==
    Loaded =>
        /\ \A e \in Listing :
               LET fn == imports[e[1]].functions[e[2]]
                   at == RvaToFileOffset(sections, VaToRva(hdr.base, fn.iat_va))
               IN  Fits(file, ThunkType(hdr), at) =>
                       fn = Imported(file, sections, Placed(file, "thunk", at), fn.iat_va)
        /\ Cardinality({imports[e[1]].functions[e[2]].iat_va : e \in Listing}) = Cardinality(Listing)

\* Names resolve as they do for GetProcAddress, from the name through the
\* ordinal table to the function, although exports are listed the other way
\* round: each name of the file leads to an export at that address (under the
\* first name, if it has several), each name listed back to its address.
NamesResolve ==
    Loaded /\ file.size = file.full /\ exports # <<>> =>
        LET ed == ExportDirectory(file, hdr, sections)
            names == NamesByOrd(file, sections, ed)
            Address(nb) == FunctionRva(file, sections, ed, nb[1])
        IN  /\ \A nb \in Range(names) : \E e \in Range(exports) :
                   /\ e.rva = Address(nb) /\ e.ordinal = (ed.base + nb[1]) % W16
                   /\ \E first \in Range(names) : first = <<nb[1], e.name>>
            /\ \A e \in Range(exports) : e.name # NoText =>
                   \E nb \in Range(names) : nb[2] = e.name /\ Address(nb) = e.rva

\* A file cut short is listed as far as it goes and never differently: what is
\* listed is listed of the whole file too, at the same slots and ordinals, with
\* names at most cut off.
Cut(t, whole) == t.chars <= whole.chars /\ (t.chars # 0 => t.of = whole.of)
Whole(f) == [f EXCEPT !.size = f.full]
CutListing ==
    Loaded =>
        LET whole == Whole(file)
            all == ImportList(whole, hdr, sections)
        IN  /\ Len(imports) <= Len(all)
            /\ \A e \in Listing :
                   LET fn == imports[e[1]].functions[e[2]]
                       of == all[e[1]].functions[e[2]]
                   IN  /\ fn.iat_va = of.iat_va /\ fn.ordinal = of.ordinal
                       /\ Cut(fn.name, of.name) /\ Cut(imports[e[1]].dll, all[e[1]].dll)
            /\ \A e \in Range(exports) : \E of \in Range(ExportList(whole, hdr, sections)) :
                   /\ e.rva = of.rva /\ e.ordinal = of.ordinal
                   /\ Cut(e.name, of.name) /\ Cut(e.forwarder, of.forwarder)
            /\ pdb # NoPdb => \E of \in Range(RsdsList(whole, hdr, sections)) :
                                  pdb.guid = of.guid /\ Cut(pdb.path, of.path)
=============================================================================
