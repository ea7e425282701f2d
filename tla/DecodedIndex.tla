---------------------------- MODULE DecodedIndex ----------------------------
(***************************************************************************)
(* disasm::DecodedIndex (disasm/DecodedIndex.cpp): the linear sweep of     *)
(* build over the executable sections, one decoded instruction per step,   *)
(* and the two binary searches over its rows.                              *)
(***************************************************************************)
EXTENDS PEAddress

CONSTANTS Tables,      \* section tables of the images that are loaded
          Base,        \* image base
          MaxLength    \* longest instruction, 15 on x86

\* What the PE format asks of a section table: ascending by address, and the
\* raw bytes of a section, mapped from its start, end before the next one.  Each
\* section has its own raw bytes in the file.
Ordered(t) == \A i, j \in 1..Len(t) :
                  i < j => t[i].va + t[i].rsize <= t[j].va /\ t[i].va + t[i].vsize <= t[j].va
Apart(t) == \A i, j \in 1..Len(t) :
                i # j => \/ t[i].rsize = 0 \/ t[i].raw + t[i].rsize <= t[j].raw
                         \/ t[j].rsize = 0 \/ t[j].raw + t[j].rsize <= t[i].raw
Sections == [va : Nat, vsize : Nat, raw : Nat, rsize : Nat, exec : BOOLEAN]
Narrow(s) == /\ s.va + s.vsize < W32 /\ s.va + s.rsize < W32
             /\ s.raw + s.rsize < W32

ASSUME W32Assumption == W32 \in Nat \ {0}
ASSUME TablesAssumption ==
    \A t \in Tables : /\ t \in Seq(Sections) /\ Ordered(t) /\ Apart(t)
                       /\ \A i \in 1..Len(t) : Narrow(t[i])
ASSUME NumberAssumption == Base \in Nat /\ MaxLength \in Nat \ {0}

VARIABLES table,      \* image.sections(), fixed once loaded
          sec,        \* the section the outer loop is at
          off,        \* i of the inner loop: offset into that section
          entries     \* m_entries
vars == <<table, sec, off, entries>>

Rows == [addr : Nat, file_off : Nat, length : Nat \ {0}]

Done == sec > Len(table)
Swept(s) == s.exec /\ s.rsize # 0

Init == table \in Tables /\ sec = 1 /\ off = 0 /\ entries = <<>>

\* The next iteration of the outer loop: the section is not swept, or swept.
\* Mutants: the offset is not started over; the last section is never left.
StartLastAgain == sec' = (IF sec < Len(table) THEN sec + 1 ELSE sec) /\ off' = 0
Keep == sec' = sec + 1 /\ off' = off
StartOver == sec' = sec + 1 /\ off' = 0
NextSection ==
    /\ ~Done
    /\ Swept(table[sec]) => off >= table[sec].rsize
    /\ StartOver
    /\ UNCHANGED <<table, entries>>

\* Length of the row for a decoder that found n bytes, 0 when it failed: the
\* byte becomes a "db" row.
RowLength(n) == IF n = 0 THEN 1 ELSE n

\* p and i go on by the length of the row.  Mutant: by one byte.
AdvanceByte(n) == off + 1
Advance(n) == off + RowLength(n)

\* One instruction: the decoder is given the bytes up to the section's end and
\* fails or finds an instruction within them.
Decode(n) ==
    /\ ~Done /\ Swept(table[sec])
    /\ off < table[sec].rsize
    /\ n <= table[sec].rsize - off
    /\ entries' = Append(entries, [addr |-> Base + table[sec].va + off,
                                   file_off |-> (table[sec].raw + off) % W32,
                                   length |-> RowLength(n)])
    /\ off' = Advance(n)
    /\ UNCHANGED <<table, sec>>

\* build has returned.
Built == Done /\ UNCHANGED vars

Next == NextSection \/ (\E n \in 0..MaxLength : Decode(n)) \/ Built

\* build is a sequential loop: while it has a step to take it takes it.
Spec == Init /\ [][Next]_vars /\ WF_vars(NextSection \/ \E n \in 0..MaxLength : Decode(n))

-----------------------------------------------------------------------------
(* std::lower_bound (external) with the comparison both queries use, on      *)
(* 0-based row numbers: the range [first, last) is halved until it is empty. *)
(* Mutant: the comparison lets an equal row pass.                            *)
BeforeOrAt(e, va) == e.addr <= va
Before(e, va) == e.addr < va

LowerBound(rows, va) ==
    LET Search[range \in (0..Len(rows)) \X (0..Len(rows))] ==
            LET first == range[1]
                last == range[2]
                it == first + (last - first) \div 2
            IN  IF first >= last THEN first
                ELSE IF Before(rows[it + 1], va) THEN Search[<<it + 1, last>>]
                ELSE Search[<<first, it>>]
    IN  Search[<<0, Len(rows)>>]

\* find_by_va; None is SIZE_MAX.
FindByVa(rows, va) ==
    LET row == LowerBound(rows, va)
    IN  IF row = Len(rows) \/ rows[row + 1].addr # va THEN None ELSE row

-----------------------------------------------------------------------------
\* Types, and how far the sweep may be within its section.
TypeOK ==
    /\ table \in Tables
    /\ sec \in 1..(Len(table) + 1)
    /\ off \in Nat
    /\ ~Done => off <= table[sec].rsize
    /\ entries \in Seq(Rows)

\* Rows ascend and no two share a byte, across sections too: what the binary
\* searches and the views rely on, and what build never sorts for.
Ascending ==
    \A i, j \in 1..Len(entries) :
        i < j => entries[i].addr + entries[i].length <= entries[j].addr

\* No byte of an executable section is left out or shown twice: the rows'
\* bytes are exactly those the sweep has passed.
Bytes(from, n) == {Base + from + k : k \in 0..(n - 1)}
Passed ==
    (UNION {Bytes(table[i].va, table[i].rsize) : i \in {k \in 1..(sec - 1) : Swept(table[k])}})
        \cup (IF Done THEN {} ELSE Bytes(table[sec].va, off))
Tiles == UNION {Bytes(e.addr - Base, e.length) : e \in Range(entries)} = Passed

\* A row's precomputed file offset is the one PEImage maps its address to; the
\* mapping has none only for the padding behind a section's virtual size.
OffsetsAgree ==
    \A i \in 1..Len(entries) :
        LET rva == entries[i].addr - Base
        IN  \/ RvaToFileOffset(table, rva) = entries[i].file_off
            \/ \E s \in Range(table) : Swept(s) /\ rva \in VEnd(s)..(s.va + s.rsize - 1)

\* The binary searches answer what DecodedIndex.h:28-31 says, for every address:
\* the first row at or after it, and the row at it.
SearchesAgree ==
    Done => \A va \in Base..(Base + W32) :
        LET row == LowerBound(entries, va)
        IN  /\ \A i \in 1..Len(entries) : entries[i].addr < va <=> i <= row
            /\ IF \E e \in Range(entries) : e.addr = va
               THEN entries[FindByVa(entries, va) + 1].addr = va
               ELSE FindByVa(entries, va) = None

\* The uninitialized part of a section has no bytes in the file, every other
\* mapped address has its own.
OffsetsInjective ==
    LET mapped == {a \in 0..(W32 - 1) : FindSection(table, a) # None}
        backed == {a \in mapped : a - table[FindSection(table, a)].va
                                     < table[FindSection(table, a)].rsize}
    IN  /\ \A a \in mapped : RvaToFileOffset(table, a) # None <=> a \in backed
        /\ Cardinality({RvaToFileOffset(table, a) : a \in backed}) = Cardinality(backed)
=============================================================================
