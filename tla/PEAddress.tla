------------------------------ MODULE PEAddress ------------------------------
(***************************************************************************)
(* The address arithmetic of pe::PEImage (pe/PEImage.cpp) over its section *)
(* table: a sequence of records [va, vsize, raw, rsize, exec].  uint32_t   *)
(* sums wrap at W32.  None stands for std::nullopt and nullptr.            *)
(***************************************************************************)
EXTENDS Integers, SequencesExt

CONSTANT W32     \* 2^32, a smaller power in the runs
None == -1

\* First address behind a section; a zero virtual_size means raw_size.
VEnd(s) == (s.va + (IF s.vsize = 0 THEN s.rsize ELSE s.vsize)) % W32

\* find_section_by_rva: index of the first section that holds rva, or None.
Holds(s, rva) == s.va <= rva /\ rva < VEnd(s)
FindSection(table, rva) == LET at == SelectInSeq(table, LAMBDA s : Holds(s, rva))
                           IN  IF at = 0 THEN None ELSE at

\* va_to_rva
VaToRva(base, va) == IF va < base \/ va - base >= W32 THEN None ELSE va - base

\* rva_to_file_offset; an rva before the first section lies in the headers.
\* Mutants: sections are flat-mapped too; the uninitialized part is mapped.
FirstRva(table) == IF table = <<>> THEN W32 - 1 ELSE table[1].va
InFileFlat(s, rva) == rva
InFile(s, rva) == (s.raw + (rva - s.va)) % W32
RvaToFileOffsetLoose(table, rva) ==
    LET i == FindSection(table, rva)
    IN  IF i # None THEN InFile(table[i], rva)
        ELSE IF rva < FirstRva(table) THEN rva ELSE None
RvaToFileOffset(table, rva) ==
    LET i == FindSection(table, rva)
    IN  IF i # None
        THEN IF rva - table[i].va >= table[i].rsize THEN None ELSE InFile(table[i], rva)
        ELSE IF rva < FirstRva(table) THEN rva ELSE None
=============================================================================
