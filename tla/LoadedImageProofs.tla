------------------------- MODULE LoadedImageProofs -------------------------
(***************************************************************************)
(* The load of an image, for every file a linker can have written, whole   *)
(* or cut short anywhere.  The sweep of DecodedIndex, for every section    *)
(* table in the order the PE format asks for: types, rows that ascend      *)
(* without sharing a byte, tile the code and have the file offsets PEImage *)
(* maps their addresses to, the binary searches over them.  The parsers of *)
(* PEImage: what is listed of a cut file is listed of the whole one, names *)
(* resolve, and imports have the slots of their thunks.                    *)
(***************************************************************************)
EXTENDS LoadedImage, FiniteSetTheorems, SequenceLemmas

\* The row a Decode step appends.
NewRow(n) == [addr |-> Base + table[sec].va + off,
              file_off |-> (table[sec].raw + off) % W32,
              length |-> RowLength(n)]

\* No row reaches past the place the sweep is at.
Behind == ~Done => \A i \in 1..Len(entries) :
                       entries[i].addr + entries[i].length <= Base + table[sec].va + off

\* The inductive invariant: Ascending alone is not inductive, a row is appended
\* behind the others only because they all end at or before the sweep.
IInv == TypeOK /\ Ascending /\ Behind

LEMMA ModBound == \A a \in Nat : a % W32 \in Nat
  BY W32Assumption

\* Rows stay behind the sweep when it goes further on in its section.
LEMMA FurtherOn == \A a, l, b, v, o, k \in Nat :
                       a + l <= b + v + o => a + l <= b + v + (o + k)
  OBVIOUS

\* What TypeOK says of the section the sweep is at.
LEMMA Current == ASSUME TypeOK, ~Done
                 PROVE /\ sec \in 1..Len(table) /\ sec \in Nat /\ Len(table) \in Nat
                       /\ table[sec] \in Sections
                       /\ Ordered(table)
                       /\ table \in Seq(Sections)
  <1>1. table \in Seq(Sections) /\ Ordered(table)
    BY TablesAssumption DEF TypeOK
  <1>2. Len(table) \in Nat /\ sec \in 1..Len(table)
    BY <1>1 DEF TypeOK, Done
  <1>3. table[sec] \in Sections
    BY <1>1, <1>2
  <1> QED BY <1>1, <1>2, <1>3

LEMMA LengthNat == ASSUME NEW n \in 0..MaxLength
                   PROVE RowLength(n) \in Nat \ {0} /\ (n # 0 => RowLength(n) = n)
                         /\ (n = 0 => RowLength(n) = 1)
  BY NumberAssumption DEF RowLength

LEMMA NewRowType == ASSUME TypeOK, ~Done, NEW n \in 0..MaxLength
                    PROVE NewRow(n) \in Rows
  <1>1. table[sec].va \in Nat /\ table[sec].raw \in Nat
    BY Current DEF Sections
  <1>2. off \in Nat /\ Base \in Nat
    BY NumberAssumption DEF TypeOK
  <1>3. (table[sec].raw + off) % W32 \in Nat
    BY <1>1, <1>2, ModBound
  <1> QED BY <1>1, <1>2, <1>3, LengthNat DEF NewRow, Rows

LEMMA InitIInv == Init => IInv
  <1> SUFFICES ASSUME Init PROVE IInv
    OBVIOUS
  <1>1. table \in Seq(Sections)
    BY TablesAssumption DEF Init
  <1>2. TypeOK
    <2>1. ~Done => table[sec] \in Sections
      BY <1>1 DEF Init, Done
    <2> QED BY <1>1, <2>1 DEF Init, TypeOK, Sections, Done
  <1>3. Ascending /\ Behind
    BY DEF Init, Ascending, Behind
  <1> QED BY <1>2, <1>3 DEF IInv

LEMMA StepIInv == IInv /\ [Next]_vars => IInv'
  <1> SUFFICES ASSUME IInv, [Next]_vars PROVE IInv'
    OBVIOUS
  <1> USE DEF IInv
  <1>1. CASE NextSection
    <2>1. ~Done /\ sec' = sec + 1 /\ off' = 0 /\ table' = table /\ entries' = entries
      BY <1>1 DEF NextSection, StartOver
    <2>2. sec \in 1..Len(table) /\ sec \in Nat /\ Len(table) \in Nat /\ table[sec] \in Sections
      BY <2>1, Current
    <2>3. TypeOK'
      <3>1. ~Done' => table'[sec'] \in Sections
        BY <2>1, <2>2, Current DEF Done
      <3>2. ~Done' => off' <= table'[sec'].rsize
        BY <2>1, <3>1 DEF Sections
      <3> QED BY <2>1, <2>2, <3>2 DEF TypeOK
    <2>4. Ascending'
      BY <2>1 DEF Ascending
    <2>5. Behind'
      <3> SUFFICES ASSUME ~Done', NEW i \in 1..Len(entries)
                   PROVE entries[i].addr + entries[i].length <= Base + table[sec + 1].va + 0
        BY <2>1 DEF Behind
      <3>1. sec + 1 \in 1..Len(table) /\ sec < sec + 1
        BY <2>1, <2>2 DEF Done
      <3>2. table[sec].va + table[sec].rsize <= table[sec + 1].va
        BY <2>1, <2>2, <3>1, Current DEF Ordered
      <3>3. table[sec + 1] \in Sections
        BY <2>1, <3>1, Current
      <3>4. entries[i].addr + entries[i].length <= Base + table[sec].va + off
        BY <2>1 DEF Behind
      <3>5. off <= table[sec].rsize /\ off \in Nat
        BY <2>1 DEF TypeOK
      <3>6. entries[i].addr \in Nat /\ entries[i].length \in Nat
        <4>1. entries[i] \in Rows
          BY DEF TypeOK
        <4> QED BY <4>1 DEF Rows
      <3>7. /\ Base \in Nat /\ table[sec].va \in Nat /\ table[sec].rsize \in Nat
            /\ table[sec + 1].va \in Nat
        BY <2>2, <3>3, NumberAssumption DEF Sections
      <3>8. \A o, v, r, w, b \in Nat : o <= r /\ v + r <= w => b + v + o <= b + w
        OBVIOUS
      <3>9. Base + table[sec].va + off <= Base + table[sec + 1].va
        BY <3>2, <3>5, <3>7, <3>8
      <3>10. \A x, y, z \in Nat : x <= y /\ y <= z => x <= z + 0
        OBVIOUS
      <3>11. entries[i].addr + entries[i].length \in Nat
        BY <3>6
      <3>12. Base + table[sec].va + off \in Nat /\ Base + table[sec + 1].va \in Nat
        <4>1. \A x, y \in Nat : x + y \in Nat
          OBVIOUS
        <4>2. Base + table[sec].va \in Nat
          BY <3>7, <4>1
        <4>3. Base + table[sec].va + off \in Nat
          BY <3>5, <4>1, <4>2
        <4>4. Base + table[sec + 1].va \in Nat
          BY <3>7, <4>1
        <4> QED BY <4>3, <4>4
      <3> QED BY <3>4, <3>9, <3>10, <3>11, <3>12
    <2> QED BY <2>3, <2>4, <2>5
  <1>2. ASSUME NEW n \in 0..MaxLength, Decode(n) PROVE IInv'
    <2>1. /\ ~Done /\ sec' = sec /\ table' = table
          /\ off' = off + RowLength(n)
          /\ entries' = Append(entries, NewRow(n))
          /\ off < table[sec].rsize /\ n <= table[sec].rsize - off
      BY <1>2 DEF Decode, NewRow, Advance
    <2>2. table[sec] \in Sections /\ off \in Nat /\ entries \in Seq(Rows)
      BY <2>1, Current DEF TypeOK
    <2>3. RowLength(n) \in Nat \ {0} /\ off' \in Nat /\ off' <= table[sec].rsize
      BY <2>1, <2>2, LengthNat, SMTT(30) DEF Sections
    <2>4. NewRow(n) \in Rows
      BY <2>1, NewRowType
    <2>5. /\ entries' \in Seq(Rows)
          /\ Len(entries') = Len(entries) + 1
          /\ \A i \in 1..Len(entries) : entries'[i] = entries[i]
          /\ entries'[Len(entries) + 1] = NewRow(n)
      BY <2>1, <2>2, <2>4
    <2>6. TypeOK'
      BY <2>1, <2>3, <2>5 DEF TypeOK, Done
    <2>7. /\ NewRow(n).addr = Base + table[sec].va + off
          /\ NewRow(n).length = RowLength(n)
      BY DEF NewRow
    <2>8. \A i \in 1..Len(entries) : /\ entries[i] \in Rows
                                     /\ entries[i].addr + entries[i].length <= NewRow(n).addr
      BY <2>1, <2>2, <2>7 DEF Behind
    <2>9. Ascending'
      <3> SUFFICES ASSUME NEW i \in 1..Len(entries'), NEW j \in 1..Len(entries'), i < j
                   PROVE entries'[i].addr + entries'[i].length <= entries'[j].addr
        BY DEF Ascending
      <3>1. Len(entries) \in Nat /\ i \in 1..Len(entries)
        BY <2>2, <2>5
      <3>2. CASE j \in 1..Len(entries)
        BY <2>5, <3>1, <3>2 DEF Ascending
      <3>3. CASE j = Len(entries) + 1
        BY <2>5, <2>8, <3>1, <3>3
      <3> QED BY <2>5, <3>1, <3>2, <3>3
    <2>10. Behind'
      <3> SUFFICES ASSUME NEW i \in 1..Len(entries')
                   PROVE entries'[i].addr + entries'[i].length <= Base + table[sec].va + off'
        BY <2>1 DEF Behind
      <3>1. Base \in Nat /\ table[sec].va \in Nat
        BY <2>2, NumberAssumption DEF Sections
      <3>2. CASE i \in 1..Len(entries)
        <4>1. entries'[i].addr + entries'[i].length <= Base + table[sec].va + off
          BY <2>5, <2>7, <2>8, <3>2
        <4>2. entries'[i].addr \in Nat /\ entries'[i].length \in Nat
          BY <2>5, <2>8, <3>2 DEF Rows
        <4>3. off \in Nat /\ RowLength(n) \in Nat /\ off' = off + RowLength(n)
          BY <2>1, <2>2, <2>3
        <4> QED BY <3>1, <4>1, <4>2, <4>3, FurtherOn
      <3>3. CASE i = Len(entries) + 1
        <4>1. entries'[i].addr = Base + table[sec].va + off /\ entries'[i].length = RowLength(n)
          BY <2>5, <2>7, <3>3
        <4> QED BY <2>1, <2>2, <2>3, <3>1, <4>1, SMTT(30)
      <3> QED BY <2>2, <2>5, <3>2, <3>3
    <2> QED BY <2>6, <2>9, <2>10
  <1>3. CASE UNCHANGED vars
    BY <1>3 DEF vars, TypeOK, Ascending, Behind, Done
  <1> QED BY <1>1, <1>2, <1>3 DEF Next, Built

\* Every row is well formed and the sweep never leaves its section: a decoded
\* instruction ends within the section's raw bytes.
THEOREM TypeCorrect == Spec => []TypeOK
  <1>1. IInv => TypeOK
    BY DEF IInv
  <1> QED BY <1>1, InitIInv, StepIInv, PTL DEF Spec

\* The rows ascend and are disjoint at every moment of the sweep, so the binary
\* searches of find_by_va and lower_bound_va run over a sorted vector.
THEOREM AscendingCorrect == Spec => []Ascending
  <1>1. IInv => Ascending
    BY DEF IInv
  <1> QED BY <1>1, InitIInv, StepIInv, PTL DEF Spec

-----------------------------------------------------------------------------
\* The bytes of two neighbouring rows.
LEMMA BytesSplit == \A f, a, b \in Nat : Bytes(f, a + b) = Bytes(f, a) \cup Bytes(f + a, b)
  <1> SUFFICES ASSUME NEW f \in Nat, NEW a \in Nat, NEW b \in Nat
               PROVE Bytes(f, a + b) = Bytes(f, a) \cup Bytes(f + a, b)
    OBVIOUS
  <1>0. Base \in Nat
    BY NumberAssumption
  <1>1. ASSUME NEW k \in 0..(a + b - 1) PROVE Base + f + k \in Bytes(f, a) \cup Bytes(f + a, b)
    <2>1. CASE k < a
      <3>1. k \in 0..(a - 1)
        BY <2>1
      <3> QED BY <3>1 DEF Bytes
    <2>2. CASE ~(k < a)
      <3>1. k - a \in 0..(b - 1) /\ Base + f + k = Base + (f + a) + (k - a)
        BY <1>0, <2>2
      <3> QED BY <3>1 DEF Bytes
    <2> QED BY <2>1, <2>2
  <1>2. ASSUME NEW k \in 0..(a - 1) PROVE Base + f + k \in Bytes(f, a + b)
    <2>1. k \in 0..(a + b - 1)
      OBVIOUS
    <2> QED BY <2>1 DEF Bytes
  <1>3. ASSUME NEW k \in 0..(b - 1) PROVE Base + (f + a) + k \in Bytes(f, a + b)
    <2>1. a + k \in 0..(a + b - 1) /\ Base + (f + a) + k = Base + f + (a + k)
      BY <1>0
    <2> QED BY <2>1 DEF Bytes
  <1>4. Bytes(f, a + b) \subseteq Bytes(f, a) \cup Bytes(f + a, b)
    BY <1>1 DEF Bytes
  <1>5. Bytes(f, a) \subseteq Bytes(f, a + b)
    BY <1>2 DEF Bytes
  <1>6. Bytes(f + a, b) \subseteq Bytes(f, a + b)
    BY <1>3 DEF Bytes
  <1> QED BY <1>4, <1>5, <1>6

\* Between the sections that are not swept the offset stays 0.
OffIdle == ~Done /\ ~Swept(table[sec]) => off = 0
TInv == Tiles /\ OffIdle

LEMMA NoBytes == \A f : Bytes(f, 0) = {}
  <1>1. 0..(0 - 1) = {}
    OBVIOUS
  <1> QED BY <1>1 DEF Bytes

\* The bytes of the sections before the n-th that are swept, and of rows.
Left(t, n) == UNION {Bytes(t[i].va, t[i].rsize) : i \in {k \in 1..(n - 1) : Swept(t[k])}}
Shown(rows) == UNION {Bytes(e.addr - Base, e.length) : e \in Range(rows)}

LEMMA LeftNext ==
    ASSUME NEW t, NEW n \in Nat \ {0}
    PROVE Left(t, n + 1) = Left(t, n) \cup (IF Swept(t[n]) THEN Bytes(t[n].va, t[n].rsize) ELSE {})
  <1>1. \A m, x : x \in Left(t, m) <=> \E k \in 1..(m - 1) : Swept(t[k]) /\ x \in Bytes(t[k].va, t[k].rsize)
    BY DEF Left
  <1>2. \A k : k \in 1..(n + 1 - 1) <=> k \in 1..(n - 1) \/ k = n
    <2>1. n + 1 - 1 = n /\ n - 1 \in Nat
      OBVIOUS
    <2> QED BY <2>1
  <1>3. \A x : x \in Left(t, n + 1) <=>
                   x \in Left(t, n) \/ (Swept(t[n]) /\ x \in Bytes(t[n].va, t[n].rsize))
    BY <1>1, <1>2
  <1> QED BY <1>3

\* Tiles in these words, now and after a step.
LEMMA TilesForm ==
    Tiles <=> Shown(entries) = Left(table, sec)
                  \cup (IF sec > Len(table) THEN {} ELSE Bytes(table[sec].va, off))
  BY DEF Tiles, Passed, Shown, Left, Done

LEMMA TilesFormNext ==
    Tiles' <=> Shown(entries') = Left(table', sec')
                  \cup (IF sec' > Len(table') THEN {} ELSE Bytes(table'[sec'].va, off'))
  BY DEF Tiles, Passed, Shown, Left, Done, Bytes, Swept

LEMMA TilesStep == IInv /\ TInv /\ [Next]_vars => TInv'
  <1> SUFFICES ASSUME IInv, TInv, [Next]_vars PROVE TInv'
    OBVIOUS
  <1>0. ~Done => Shown(entries) = Left(table, sec) \cup Bytes(table[sec].va, off)
    BY TilesForm DEF TInv, Done
  <1>1. CASE NextSection
    <2>1. ~Done /\ sec' = sec + 1 /\ off' = 0 /\ table' = table /\ entries' = entries
      BY <1>1 DEF NextSection, StartOver
    <2>2. sec \in 1..Len(table) /\ sec \in Nat \ {0} /\ Len(table) \in Nat /\ table[sec] \in Sections
      <3>1. sec \in 1..Len(table) /\ Len(table) \in Nat /\ table[sec] \in Sections
        BY <2>1, Current DEF IInv
      <3> QED BY <3>1
    <2>3. Swept(table[sec]) => off = table[sec].rsize
      <3>1. Swept(table[sec]) => off >= table[sec].rsize
        BY <1>1 DEF NextSection
      <3>2. off \in Nat /\ off <= table[sec].rsize /\ table[sec].rsize \in Nat
        BY <2>1, <2>2 DEF IInv, TypeOK, Sections
      <3> QED BY <3>1, <3>2
    <2>4. ~Swept(table[sec]) => Bytes(table[sec].va, off) = {}
      BY <2>1, NoBytes DEF TInv, OffIdle
    <2>5. Shown(entries) = Left(table, sec + 1)
      BY <1>0, <2>1, <2>2, <2>3, <2>4, LeftNext
    <2>6. Shown(entries') = Left(table', sec')
              \cup (IF sec' > Len(table') THEN {} ELSE Bytes(table'[sec'].va, off'))
      BY <2>1, <2>5, NoBytes
    <2> QED BY <2>1, <2>6, TilesFormNext DEF TInv, OffIdle
  <1>2. ASSUME NEW n \in 0..MaxLength, Decode(n) PROVE TInv'
    <2>1. /\ ~Done /\ sec' = sec /\ table' = table /\ Swept(table[sec])
          /\ off' = off + RowLength(n)
          /\ entries' = Append(entries, NewRow(n))
      BY <1>2 DEF Decode, NewRow, Advance
    <2>2. table[sec] \in Sections /\ off \in Nat /\ entries \in Seq(Rows) /\ RowLength(n) \in Nat
      BY <2>1, Current, LengthNat DEF TypeOK, IInv
    <2>3. Range(entries') = Range(entries) \cup {NewRow(n)}
      <3>1. /\ Len(entries') = Len(entries) + 1 /\ Len(entries) \in Nat
            /\ \A i \in 1..Len(entries) : entries'[i] = entries[i]
            /\ entries'[Len(entries) + 1] = NewRow(n)
            /\ DOMAIN entries = 1..Len(entries) /\ DOMAIN entries' = 1..(Len(entries) + 1)
        BY <2>1, <2>2, NewRowType DEF IInv
      <3>2. 1..(Len(entries) + 1) = 1..Len(entries) \cup {Len(entries) + 1}
        BY <3>1
      <3> QED BY <3>1, <3>2 DEF Range
    <2>4. Shown(entries') = Shown(entries) \cup Bytes(table[sec].va + off, RowLength(n))
      <3>1. NewRow(n).addr - Base = table[sec].va + off /\ NewRow(n).length = RowLength(n)
        <4>1. Base \in Nat /\ table[sec].va \in Nat
          BY <2>2, NumberAssumption DEF Sections
        <4>2. \A b, v, o \in Nat : (b + v + o) - b = v + o
          OBVIOUS
        <4> QED BY <2>2, <4>1, <4>2 DEF NewRow
      <3> QED BY <2>3, <3>1 DEF Shown
    <2>5. Bytes(table[sec].va, off + RowLength(n)) =
              Bytes(table[sec].va, off) \cup Bytes(table[sec].va + off, RowLength(n))
      <3>1. table[sec].va \in Nat
        BY <2>2 DEF Sections
      <3> DEFINE va == table[sec].va
      <3> DEFINE len == RowLength(n)
      <3>2. va \in Nat /\ len \in Nat /\ off \in Nat
        BY <2>2, <3>1
      <3>3. Bytes(va, off + len) = Bytes(va, off) \cup Bytes(va + off, len)
        <4> HIDE DEF va, len
        <4>1. \A a, b \in Nat : Bytes(va, a + b) = Bytes(va, a) \cup Bytes(va + a, b)
          BY <3>2, BytesSplit, Zenon
        <4>2. \A b \in Nat : Bytes(va, off + b) = Bytes(va, off) \cup Bytes(va + off, b)
          BY <3>2, <4>1, Zenon
        <4> QED BY <3>2, <4>2, Zenon
      <3> QED BY <3>3
    <2>6. Shown(entries') = Left(table', sec')
              \cup (IF sec' > Len(table') THEN {} ELSE Bytes(table'[sec'].va, off'))
      <3>1. Shown(entries') = Left(table, sec) \cup Bytes(table[sec].va, off')
        BY <1>0, <2>1, <2>4, <2>5
      <3> QED BY <2>1, <3>1 DEF Done
    <2> QED BY <2>1, <2>6, TilesFormNext DEF TInv, OffIdle, Done
  <1>3. CASE UNCHANGED vars
    <2>1. table' = table /\ sec' = sec /\ off' = off /\ entries' = entries
      BY <1>3 DEF vars
    <2>2. Tiles'
      BY <2>1, TilesForm, TilesFormNext DEF TInv
    <2> QED BY <2>1, <2>2 DEF TInv, OffIdle, Done
  <1> QED BY <1>1, <1>2, <1>3 DEF Next, Built

LEMMA InitTInv == Init => TInv
  <1> SUFFICES ASSUME Init PROVE TInv
    OBVIOUS
  <1>1. Range(entries) = {}
    BY DEF Init, Range
  <1>2. 1..(sec - 1) = {}
    BY DEF Init
  <1>3. Passed = {}
    BY <1>2, NoBytes DEF Passed, Init
  <1> QED BY <1>1, <1>3 DEF TInv, Tiles, OffIdle, Init

LEMMA TInvHolds == TInv => Tiles
  BY DEF TInv

\* No byte of an executable section is left out or shown twice, for every section
\* table and whatever the decoder answers.
THEOREM TilesCorrect == Spec => []Tiles
  <1> QED BY InitTInv, TInvHolds, InitIInv, StepIInv, TilesStep, PTL DEF Spec

-----------------------------------------------------------------------------
\* The section a row was decoded in, and the offset its bytes have there.
DecodedAt(t, e, k, o) ==
    /\ Swept(t[k]) /\ o < t[k].rsize
    /\ e.addr = Base + t[k].va + o
    /\ e.file_off = (t[k].raw + o) % W32
FromSection(t, e) == \E k \in 1..Len(t), o \in Nat : DecodedAt(t, e, k, o)
RowsPlaced == \A i \in 1..Len(entries) : FromSection(table, entries[i])

LEMMA NoWrap == \A a \in Nat : a < W32 => a % W32 = a
  BY W32Assumption

\* A narrow section ends where its sizes say.
LEMMA EndOf == ASSUME NEW s \in Sections, Narrow(s)
               PROVE VEnd(s) = s.va + (IF s.vsize = 0 THEN s.rsize ELSE s.vsize)
  <1>1. s.va \in Nat /\ s.vsize \in Nat /\ s.rsize \in Nat
    BY DEF Sections
  <1>2. CASE s.vsize = 0
    <2>1. s.va + s.rsize \in Nat /\ s.va + s.rsize < W32
      BY <1>1 DEF Narrow
    <2> QED BY <1>2, <2>1, NoWrap DEF VEnd
  <1>3. CASE s.vsize # 0
    <2>1. s.va + s.vsize \in Nat /\ s.va + s.vsize < W32
      BY <1>1 DEF Narrow
    <2> QED BY <1>3, <2>1, NoWrap DEF VEnd
  <1> QED BY <1>2, <1>3

\* Only one section of an ordered table holds an address.
LEMMA OnlyHolder ==
    ASSUME NEW t \in Seq(Sections), Ordered(t), \A i \in 1..Len(t) : Narrow(t[i]),
           NEW k \in 1..Len(t), NEW a \in Nat,
           t[k].va <= a, a < t[k].va + t[k].rsize, a < VEnd(t[k])
    PROVE {i \in 1..Len(t) : Holds(t[i], a)} = {k}
  <1>1. Holds(t[k], a)
    BY DEF Holds
  <1>2. ASSUME NEW j \in 1..Len(t), Holds(t[j], a) PROVE j = k
    <2>1. t[j] \in Sections /\ t[k] \in Sections /\ Narrow(t[j]) /\ Narrow(t[k])
      OBVIOUS
    <2>2. /\ t[j].va \in Nat /\ t[j].vsize \in Nat /\ t[j].rsize \in Nat
          /\ t[k].va \in Nat /\ t[k].vsize \in Nat /\ t[k].rsize \in Nat
      BY <2>1 DEF Sections
    <2>3. t[j].va <= a /\ a < t[j].va + (IF t[j].vsize = 0 THEN t[j].rsize ELSE t[j].vsize)
      BY <1>2, <2>1, EndOf DEF Holds
    <2>4. ~(j < k)
      <3> SUFFICES ASSUME j < k PROVE FALSE
        OBVIOUS
      <3>1. t[j].va + t[j].rsize <= t[k].va /\ t[j].va + t[j].vsize <= t[k].va
        BY DEF Ordered
      <3> QED BY <2>2, <2>3, <3>1
    <2>5. ~(k < j)
      <3> SUFFICES ASSUME k < j PROVE FALSE
        OBVIOUS
      <3>1. t[k].va + t[k].rsize <= t[j].va
        BY DEF Ordered
      <3> QED BY <2>2, <2>3, <3>1
    <2>6. j \in Int /\ k \in Int
      OBVIOUS
    <2> QED BY <2>4, <2>5, <2>6
  <1> QED BY <1>1, <1>2

LEMMA SectionIs ==
    ASSUME NEW t \in Seq(Sections), Ordered(t), \A i \in 1..Len(t) : Narrow(t[i]),
           NEW k \in 1..Len(t), NEW a \in Nat,
           t[k].va <= a, a < t[k].va + t[k].rsize, a < VEnd(t[k])
    PROVE FindSection(t, a) = k
  <1>1. {i \in 1..Len(t) : Holds(t[i], a)} = {k}
    BY OnlyHolder
  <1>2. Min({k}) = k
    <2>1. k \in Int
      OBVIOUS
    <2>2. \E x \in {k} : \A y \in {k} : x <= y
      BY <2>1
    <2> QED BY <2>2 DEF Min
  <1>3. SelectInSeq(t, LAMBDA s : Holds(s, a)) = k
    BY <1>1, <1>2 DEF SelectInSeq
  <1>4. k # 0
    OBVIOUS
  <1> QED BY <1>3, <1>4 DEF FindSection

\* A placed row has the offset its address is mapped to.
LEMMA PlacedAgrees ==
    ASSUME NEW t \in Seq(Sections), Ordered(t), \A i \in 1..Len(t) : Narrow(t[i]),
           NEW e, FromSection(t, e)
    PROVE \/ RvaToFileOffset(t, e.addr - Base) = e.file_off
          \/ \E s \in Range(t) : Swept(s) /\ e.addr - Base \in VEnd(s)..(s.va + s.rsize - 1)
  <1>1. PICK k \in 1..Len(t), o \in Nat : DecodedAt(t, e, k, o)
    BY DEF FromSection
  <1>2. t[k] \in Sections /\ Narrow(t[k])
    OBVIOUS
  <1>3. t[k].va \in Nat /\ t[k].vsize \in Nat /\ t[k].rsize \in Nat /\ t[k].raw \in Nat
    BY <1>2 DEF Sections
  <1>4. o \in Nat /\ o < t[k].rsize /\ Swept(t[k]) /\ e.file_off = (t[k].raw + o) % W32
    BY <1>1 DEF DecodedAt
  <1>5. e.addr - Base = t[k].va + o
    <2>1. \A b, v, x \in Nat : (b + v + x) - b = v + x
      OBVIOUS
    <2>2. e.addr = Base + t[k].va + o
      BY <1>1 DEF DecodedAt
    <2>3. Base \in Nat /\ t[k].va \in Nat /\ o \in Nat
      BY <1>3, <1>4, NumberAssumption
    <2>4. (Base + t[k].va + o) - Base = t[k].va + o
      BY <2>1, <2>3, Zenon
    <2> QED BY <2>2, <2>4, Zenon
  <1>6. CASE t[k].va + o < VEnd(t[k])
    <2>1. FindSection(t, t[k].va + o) = k
      <3> DEFINE a == t[k].va + o
      <3>1. a \in Nat /\ t[k].va <= a /\ a < t[k].va + t[k].rsize /\ a < VEnd(t[k])
        BY <1>3, <1>4, <1>6
      <3> HIDE DEF a
      <3>2. FindSection(t, a) = k
        BY <3>1, SectionIs
      <3> QED BY <3>2 DEF a
    <2>2. (t[k].va + o) - t[k].va = o /\ ~(o >= t[k].rsize)
      BY <1>3, <1>4
    <2>3. k # None
      BY DEF None
    <2>4. RvaToFileOffset(t, t[k].va + o) = (t[k].raw + o) % W32
      BY <2>1, <2>2, <2>3 DEF RvaToFileOffset, InFile
    <2> QED BY <1>4, <1>5, <2>4
  <1>7. CASE ~(t[k].va + o < VEnd(t[k]))
    <2>1. VEnd(t[k]) \in Nat
      BY <1>2, <1>3, EndOf, SMTT(30)
    <2>2. t[k].va + o \in VEnd(t[k])..(t[k].va + t[k].rsize - 1)
      BY <1>3, <1>4, <1>7, <2>1, SMTT(30)
    <2>3. t[k] \in Range(t)
      BY DEF Range
    <2> QED BY <1>4, <1>5, <2>2, <2>3
  <1> QED BY <1>6, <1>7

LEMMA PlacedStep == IInv /\ RowsPlaced /\ [Next]_vars => RowsPlaced'
  <1> SUFFICES ASSUME IInv, RowsPlaced, [Next]_vars PROVE RowsPlaced'
    OBVIOUS
  <1>1. ASSUME table' = table, entries' = entries PROVE RowsPlaced'
    BY <1>1 DEF RowsPlaced, FromSection, DecodedAt, Swept
  <1>2. ASSUME NEW n \in 0..MaxLength, Decode(n) PROVE RowsPlaced'
    <2>1. /\ ~Done /\ table' = table /\ Swept(table[sec]) /\ off < table[sec].rsize
          /\ entries' = Append(entries, NewRow(n))
      BY <1>2 DEF Decode, NewRow
    <2>2. entries \in Seq(Rows) /\ off \in Nat /\ sec \in 1..Len(table)
      BY <2>1, Current DEF IInv, TypeOK
    <2>3. DecodedAt(table, NewRow(n), sec, off)
      BY <2>1 DEF DecodedAt, NewRow
    <2>4. FromSection(table, NewRow(n))
      BY <2>2, <2>3 DEF FromSection
    <2>5. /\ Len(entries') = Len(entries) + 1 /\ Len(entries) \in Nat
          /\ \A i \in 1..Len(entries) : entries'[i] = entries[i]
          /\ entries'[Len(entries) + 1] = NewRow(n)
      BY <2>1, <2>2, NewRowType DEF IInv
    <2>6. \A i \in 1..(Len(entries) + 1) : i \in 1..Len(entries) \/ i = Len(entries) + 1
      BY <2>5
    <2>7. \A i \in 1..Len(entries') : FromSection(table, entries'[i])
      BY <2>4, <2>5, <2>6 DEF RowsPlaced
    <2> QED BY <2>1, <2>7 DEF RowsPlaced, FromSection, DecodedAt, Swept
  <1> QED BY <1>1, <1>2 DEF Next, Built, NextSection, StartOver, vars

LEMMA InitPlaced == Init => RowsPlaced
  BY DEF Init, RowsPlaced

LEMMA PlacedHolds == IInv /\ RowsPlaced => OffsetsAgree
  <1> SUFFICES ASSUME IInv, RowsPlaced, NEW i \in 1..Len(entries)
               PROVE \/ RvaToFileOffset(table, entries[i].addr - Base) = entries[i].file_off
                     \/ \E s \in Range(table) : Swept(s)
                            /\ entries[i].addr - Base \in VEnd(s)..(s.va + s.rsize - 1)
    BY DEF OffsetsAgree
  <1>1. table \in Seq(Sections) /\ Ordered(table) /\ \A k \in 1..Len(table) : Narrow(table[k])
    BY TablesAssumption DEF IInv, TypeOK
  <1> QED BY <1>1, PlacedAgrees DEF RowsPlaced

\* Jumping to a row's bytes in the hex view and mapping its address through the
\* section table lead to the same place in the file, for every section table.
THEOREM OffsetsAgreeCorrect == Spec => []OffsetsAgree
  <1> QED BY InitPlaced, PlacedHolds, InitIInv, StepIInv, PlacedStep, PTL DEF Spec
-----------------------------------------------------------------------------
\* The rows' addresses strictly ascend.
SortedRows(rows) == \A i, j \in 1..Len(rows) : i < j => rows[i].addr < rows[j].addr

\* The number of the first row that is not before an address: the rows before it
\* are before the address, the others are not.
LEMMA SplitPoint ==
    ASSUME NEW rows \in Seq(Rows), SortedRows(rows), NEW va \in Nat
    PROVE  \E p \in 0..Len(rows) : \A i \in 1..Len(rows) : rows[i].addr < va <=> i <= p
  <1>0. Len(rows) \in Nat /\ \A i \in 1..Len(rows) : rows[i].addr \in Nat
    <2>1. \A i \in 1..Len(rows) : rows[i] \in Rows
      OBVIOUS
    <2> QED BY <2>1 DEF Rows
  <1> DEFINE S == {p \in 0..Len(rows) : \A i \in 1..Len(rows) : i > p => ~(rows[i].addr < va)}
  <1>1. Len(rows) \in S
    BY <1>0
  <1>2. S \in SUBSET Nat
    BY <1>0
  <1>3. PICK p \in S : \A y \in S : p <= y
    BY <1>1, <1>2, LeastNatural
  <1>4. ASSUME NEW i \in 1..Len(rows), i <= p PROVE rows[i].addr < va
    <2>0. p \in 0..Len(rows) /\ \A j \in 1..Len(rows) : j > p => ~(rows[j].addr < va)
      BY <1>3
    <2>1. p - 1 \in 0..Len(rows) /\ ~(p <= p - 1)
      BY <1>0, <1>4, <2>0
    <2>2. PICK j \in 1..Len(rows) : j > p - 1 /\ rows[j].addr < va
      BY <1>3, <2>1
    <2>3. j = p
      BY <1>0, <2>0, <2>2
    <2>4. i = j \/ rows[i].addr < rows[j].addr
      BY <1>0, <1>4, <2>3 DEF SortedRows
    <2> QED BY <1>0, <2>2, <2>4
  <1>5. p \in 0..Len(rows) /\ \A i \in 1..Len(rows) : i > p => ~(rows[i].addr < va)
    BY <1>3
  <1>6. \A i \in 1..Len(rows) : rows[i].addr < va <=> i <= p
    BY <1>0, <1>4, <1>5
  <1> QED BY <1>5, <1>6

\* The middle of a range that is not empty lies in it, and both halves are shorter.
LEMMA HalfOfRange ==
    ASSUME NEW a \in Nat, NEW b \in Nat, a < b
    PROVE  LET h == a + (b - a) \div 2
           IN  h \in Nat /\ a <= h /\ h < b /\ b - (h + 1) < b - a /\ h - a < b - a
  <1> DEFINE q == (b - a) \div 2
  <1>1. q \in Nat /\ q < b - a
    OBVIOUS
  <1> HIDE DEF q
  <1>2. a + q \in Nat /\ a <= a + q /\ a + q < b /\ b - (a + q + 1) < b - a /\ (a + q) - a < b - a
    BY <1>1
  <1> QED BY <1>2 DEF q

\* The halving search of lower_bound finds that row.
LEMMA LowerBoundIs ==
    ASSUME NEW rows \in Seq(Rows), NEW va \in Nat, NEW p \in 0..Len(rows),
           \A i \in 1..Len(rows) : rows[i].addr < va <=> i <= p
    PROVE  LowerBound(rows, va) = p
  <1> DEFINE n == Len(rows)
             D == (0..n) \X (0..n)
             Half(r) == r[1] + (r[2] - r[1]) \div 2
             Step(f, r) == IF r[1] >= r[2] THEN r[1]
                           ELSE IF Before(rows[Half(r) + 1], va) THEN f[<<Half(r) + 1, r[2]>>]
                           ELSE f[<<r[1], Half(r)>>]
             Is(f) == f = [r \in D |-> Step(f, r)]
             Search == CHOOSE f : Is(f)
             Clip(r) == IF r[1] >= r[2] \/ p < r[1] THEN r[1] ELSE IF p > r[2] THEN r[2] ELSE p
             W == [r \in D |-> Clip(r)]
  <1>0. n \in Nat /\ p \in 0..n
    OBVIOUS
  <1>1. LowerBound(rows, va) = Search[<<0, n>>]
    BY DEF LowerBound
  <1>2. \A r \in D : r[1] < r[2] => /\ Half(r) \in Int /\ r[1] <= Half(r) /\ Half(r) < r[2]
                                     /\ Half(r) + 1 \in 1..n
                                     /\ <<Half(r) + 1, r[2]>> \in D /\ <<r[1], Half(r)>> \in D
                                     /\ r[2] - (Half(r) + 1) < r[2] - r[1]
                                     /\ Half(r) - r[1] < r[2] - r[1]
    <2> SUFFICES ASSUME NEW r \in D, r[1] < r[2]
                 PROVE  /\ Half(r) \in Int /\ r[1] <= Half(r) /\ Half(r) < r[2]
                        /\ Half(r) + 1 \in 1..n
                        /\ <<Half(r) + 1, r[2]>> \in D /\ <<r[1], Half(r)>> \in D
                        /\ r[2] - (Half(r) + 1) < r[2] - r[1]
                        /\ Half(r) - r[1] < r[2] - r[1]
      OBVIOUS
    <2>1. r[1] \in Nat /\ r[2] \in Nat /\ r[2] <= n
      BY <1>0
    <2>2. /\ Half(r) \in Nat /\ r[1] <= Half(r) /\ Half(r) < r[2]
          /\ r[2] - (Half(r) + 1) < r[2] - r[1] /\ Half(r) - r[1] < r[2] - r[1]
      BY <2>1, HalfOfRange
    <2> HIDE DEF Half
    <2>3. Half(r) + 1 \in 1..n /\ Half(r) \in 0..n /\ Half(r) + 1 \in 0..n
      BY <1>0, <2>1, <2>2
    <2> QED BY <2>1, <2>2, <2>3
  <1>3. \A r \in D : r[1] < r[2] => (Before(rows[Half(r) + 1], va) <=> Half(r) + 1 <= p)
    BY <1>2 DEF Before
  <1>4. Is(W)
    <2> SUFFICES ASSUME NEW r \in D PROVE Clip(r) = Step(W, r)
      OBVIOUS
    <2>1. CASE r[1] >= r[2]
      BY <2>1
    <2>2. CASE r[1] < r[2]
      <3>1. /\ Half(r) \in Int /\ r[1] <= Half(r) /\ Half(r) < r[2]
            /\ <<Half(r) + 1, r[2]>> \in D /\ <<r[1], Half(r)>> \in D
            /\ Before(rows[Half(r) + 1], va) <=> Half(r) + 1 <= p
        BY <1>2, <1>3, <2>2
      <3> HIDE DEF Half
      <3> QED BY <1>0, <2>2, <3>1
    <2> QED BY <2>1, <2>2
  <1>5. Is(Search)
    BY <1>4
  <1>6. \A r \in D : Search[r] = Step(Search, r)
    BY <1>5
  <1> HIDE DEF Search, W
  <1> DEFINE Bad == {k \in Nat : \E r \in D : r[1] <= p /\ p <= r[2] /\ r[2] - r[1] = k /\ Search[r] # p}
  <1>7. Bad = {}
    <2> SUFFICES ASSUME Bad # {} PROVE FALSE
      OBVIOUS
    <2>1. PICK k \in Bad : \A y \in Bad : k <= y
      BY LeastNatural
    <2>2. PICK r \in D : r[1] <= p /\ p <= r[2] /\ r[2] - r[1] = k /\ Search[r] # p
      BY <2>1
    <2>3. r[1] < r[2]
      <3> SUFFICES ASSUME r[1] >= r[2] PROVE FALSE
        BY <1>0
      <3>1. Search[r] = r[1]
        BY <1>6
      <3> QED BY <1>0, <2>2, <3>1
    <2>4. /\ Half(r) \in Int /\ r[1] <= Half(r) /\ Half(r) < r[2]
          /\ <<Half(r) + 1, r[2]>> \in D /\ <<r[1], Half(r)>> \in D
          /\ Before(rows[Half(r) + 1], va) <=> Half(r) + 1 <= p
          /\ Search[r] = Step(Search, r)
          /\ r[2] - (Half(r) + 1) < k /\ Half(r) - r[1] < k
      BY <1>2, <1>3, <1>6, <2>2, <2>3
    <2> HIDE DEF Half
    <2>5. \A q \in D : q[1] <= p /\ p <= q[2] /\ q[2] - q[1] < k => Search[q] = p
      <3> SUFFICES ASSUME NEW q \in D, q[1] <= p, p <= q[2], q[2] - q[1] < k, Search[q] # p
                   PROVE  FALSE
        OBVIOUS
      <3>1. q[1] \in Int /\ q[2] \in Int /\ p \in Int
        BY <1>0
      <3>2. q[2] - q[1] \in Nat
        BY <3>1, SMTT(30)
      <3>3. q[2] - q[1] \in Bad
        BY <3>2
      <3>4. k <= q[2] - q[1] /\ k \in Int
        BY <2>1, <3>3, SMTT(30)
      <3> QED BY <3>1, <3>4, SMTT(30)
    <2>6. CASE Half(r) + 1 <= p
      <3>1. Half(r) + 1 <= p /\ p <= r[2] /\ r[2] - (Half(r) + 1) < k
        BY <2>2, <2>4, <2>6
      <3>2. Search[<<Half(r) + 1, r[2]>>] = p
        BY <2>2, <2>4, <2>5, <3>1
      <3> QED BY <2>2, <2>3, <2>4, <2>6, <3>2, SMTT(30)
    <2>7. CASE ~(Half(r) + 1 <= p)
      <3>1. p <= Half(r) /\ Half(r) - r[1] < k
        BY <1>0, <2>4, <2>7
      <3>2. Search[<<r[1], Half(r)>>] = p
        BY <2>2, <2>4, <2>5, <3>1
      <3> QED BY <2>2, <2>3, <2>4, <2>7, <3>2, SMTT(30)
    <2> QED BY <2>6, <2>7
  <1>8. <<0, n>> \in D /\ <<0, n>>[1] <= p /\ p <= <<0, n>>[2] /\ <<0, n>>[2] - <<0, n>>[1] \in Nat
    BY <1>0
  <1>9. Search[<<0, n>>] = p
    BY <1>7, <1>8
  <1> QED BY <1>1, <1>9

\* The rows of a sweep are sorted: each ends at or before the next and has a byte.
LEMMA SweptRowsSorted == IInv => SortedRows(entries)
  <1> SUFFICES ASSUME IInv, NEW i \in 1..Len(entries), NEW j \in 1..Len(entries), i < j
               PROVE entries[i].addr < entries[j].addr
    BY DEF SortedRows
  <1>1. entries[i] \in Rows /\ entries[j] \in Rows
    BY DEF IInv, TypeOK
  <1>2. entries[i].addr + entries[i].length <= entries[j].addr
    BY DEF IInv, Ascending
  <1> QED BY <1>1, <1>2 DEF Rows

\* lower_bound_va answers the first row at or after an address, and find_by_va the
\* row at it or none.
LEMMA SearchFacts ==
    ASSUME NEW rows \in Seq(Rows), SortedRows(rows), NEW va \in Nat
    PROVE  /\ \A i \in 1..Len(rows) : rows[i].addr < va <=> i <= LowerBound(rows, va)
           /\ IF \E e \in Range(rows) : e.addr = va
              THEN rows[FindByVa(rows, va) + 1].addr = va
              ELSE FindByVa(rows, va) = None
  <1>1. PICK p \in 0..Len(rows) : \A i \in 1..Len(rows) : rows[i].addr < va <=> i <= p
    BY SplitPoint
  <1>2. LowerBound(rows, va) = p
    BY <1>1, LowerBoundIs
  <1>3. FindByVa(rows, va) = IF p = Len(rows) \/ rows[p + 1].addr # va THEN None ELSE p
    BY <1>2 DEF FindByVa
  <1>4. Len(rows) \in Nat /\ \A i \in 1..Len(rows) : rows[i].addr \in Nat
    <2>1. \A i \in 1..Len(rows) : rows[i] \in Rows
      OBVIOUS
    <2> QED BY <2>1 DEF Rows
  <1>5. CASE \E e \in Range(rows) : e.addr = va
    <2>1. PICK i \in 1..Len(rows) : rows[i].addr = va
      BY <1>5 DEF Range
    <2>2. ~(i <= p) /\ p + 1 \in 1..Len(rows)
      BY <1>1, <1>4, <2>1
    <2>3. ~(rows[p + 1].addr < va)
      BY <1>1, <1>4, <2>2
    <2>4. p + 1 = i \/ rows[p + 1].addr < rows[i].addr
      BY <1>4, <2>2 DEF SortedRows
    <2>5. rows[p + 1].addr = va
      BY <1>4, <2>1, <2>2, <2>3, <2>4
    <2> QED BY <1>1, <1>2, <1>3, <1>4, <1>5, <2>2, <2>5
  <1>6. CASE ~ \E e \in Range(rows) : e.addr = va
    <2>1. p = Len(rows) \/ rows[p + 1].addr # va
      BY <1>4, <1>6 DEF Range
    <2> QED BY <1>1, <1>2, <1>3, <1>6, <2>1
  <1> QED BY <1>5, <1>6

\* Whatever was swept, an address typed, clicked or followed is looked up right.
LEMMA SearchesHold == IInv => SearchesAgree
  <1> SUFFICES ASSUME IInv PROVE SearchesAgree
    OBVIOUS
  <1>1. entries \in Seq(Rows) /\ SortedRows(entries)
    BY SweptRowsSorted DEF IInv, TypeOK
  <1>2. \A va \in Base..(Base + W32) : va \in Nat
    BY NumberAssumption, W32Assumption
  <1> QED BY <1>1, <1>2, SearchFacts DEF SearchesAgree

\* The binary searches answer what DecodedIndex.h says of them, for every address
\* and every image: the sweep leaves them a vector that is sorted.
THEOREM SearchesAgreeCorrect == Spec => []SearchesAgree
  <1> QED BY SearchesHold, InitIInv, StepIInv, PTL DEF Spec

-----------------------------------------------------------------------------
\* A section that is found holds the address.
LEMMA FindHolds ==
    ASSUME NEW t, NEW a, Len(t) \in Nat, FindSection(t, a) # None
    PROVE  FindSection(t, a) \in 1..Len(t) /\ Holds(t[FindSection(t, a)], a)
  <1> DEFINE I == {i \in 1..Len(t) : Holds(t[i], a)}
  <1>1. SelectInSeq(t, LAMBDA s : Holds(s, a)) = IF I # {} THEN Min(I) ELSE 0
    BY DEF SelectInSeq
  <1>2. I # {}
    BY <1>1 DEF FindSection
  <1>3. I \in SUBSET Nat
    OBVIOUS
  <1>4. Min(I) \in I
    <2>1. \E m \in I : \A y \in I : m <= y
      BY <1>2, <1>3, LeastNatural
    <2> QED BY <2>1 DEF Min
  <1>5. FindSection(t, a) = Min(I)
    <2>1. Min(I) # 0
      BY <1>4
    <2> QED BY <1>1, <1>2, <2>1 DEF FindSection
  <1> QED BY <1>4, <1>5

\* The addresses that a section holds and has bytes for.
Mapped(t) == {a \in 0..(W32 - 1) : FindSection(t, a) # None}
Backed(t) == {a \in Mapped(t) : a - t[FindSection(t, a)].va < t[FindSection(t, a)].rsize}
WellFormed(t) == /\ t \in Seq(Sections) /\ Ordered(t) /\ Apart(t)
                 /\ \A i \in 1..Len(t) : Narrow(t[i])

\* Where the bytes of such an address are.
LEMMA BackedFacts ==
    ASSUME NEW t, WellFormed(t), NEW a \in Backed(t)
    PROVE  LET i == FindSection(t, a)
           IN  /\ i \in 1..Len(t) /\ a \in Nat
               /\ t[i].va \in Nat /\ t[i].raw \in Nat /\ t[i].rsize \in Nat
               /\ t[i].va <= a /\ a - t[i].va < t[i].rsize
               /\ RvaToFileOffset(t, a) = t[i].raw + (a - t[i].va)
  <1> DEFINE i == FindSection(t, a)
  <1>1. a \in Nat /\ i # None /\ a - t[i].va < t[i].rsize
    BY W32Assumption DEF Backed, Mapped
  <1>2. t \in Seq(Sections) /\ Len(t) \in Nat
    BY DEF WellFormed
  <1>3. i \in 1..Len(t) /\ Holds(t[i], a)
    BY <1>1, <1>2, FindHolds
  <1> HIDE DEF i
  <1>4. t[i] \in Sections /\ Narrow(t[i])
    BY <1>2, <1>3 DEF WellFormed
  <1>5. /\ t[i].va \in Nat /\ t[i].raw \in Nat /\ t[i].rsize \in Nat
        /\ t[i].va <= a /\ t[i].raw + t[i].rsize < W32
    BY <1>3, <1>4 DEF Sections, Narrow, Holds
  <1>6. (t[i].raw + (a - t[i].va)) % W32 = t[i].raw + (a - t[i].va)
    <2> DEFINE o == t[i].raw + (a - t[i].va)
    <2>1. o \in Nat /\ o < W32
      BY <1>1, <1>5, W32Assumption
    <2> HIDE DEF o
    <2>2. o % W32 = o
      BY <2>1, NoWrap
    <2> QED BY <2>2 DEF o
  <1>7. ~(a - t[i].va >= t[i].rsize)
    BY <1>1, <1>5
  <1>8. RvaToFileOffset(t, a) = t[i].raw + (a - t[i].va)
    BY <1>1, <1>6, <1>7 DEF RvaToFileOffset, InFile, i
  <1> QED BY <1>1, <1>3, <1>5, <1>8 DEF i

\* No two addresses share a byte of the file.
LEMMA OwnOffset ==
    ASSUME NEW t, WellFormed(t), NEW a \in Backed(t), NEW b \in Backed(t),
           RvaToFileOffset(t, a) = RvaToFileOffset(t, b)
    PROVE  a = b
  <1> DEFINE i == FindSection(t, a)
             j == FindSection(t, b)
  <1>1. /\ i \in 1..Len(t) /\ a \in Nat
        /\ t[i].va \in Nat /\ t[i].raw \in Nat /\ t[i].rsize \in Nat
        /\ t[i].va <= a /\ a - t[i].va < t[i].rsize
        /\ RvaToFileOffset(t, a) = t[i].raw + (a - t[i].va)
    BY BackedFacts
  <1>2. /\ j \in 1..Len(t) /\ b \in Nat
        /\ t[j].va \in Nat /\ t[j].raw \in Nat /\ t[j].rsize \in Nat
        /\ t[j].va <= b /\ b - t[j].va < t[j].rsize
        /\ RvaToFileOffset(t, b) = t[j].raw + (b - t[j].va)
    BY BackedFacts
  <1>0. t[i].raw + (a - t[i].va) = t[j].raw + (b - t[j].va)
    BY <1>1, <1>2
  <1> HIDE DEF i, j
  <1>3. CASE i = j
    <2>1. \A r, v \in Nat : r + (a - v) = r + (b - v) => a = b
      BY <1>1, <1>2
    <2> QED BY <1>0, <1>1, <1>3, <2>1
  <1>4. CASE i # j
    <2>1. \/ t[i].rsize = 0 \/ t[i].raw + t[i].rsize <= t[j].raw
          \/ t[j].rsize = 0 \/ t[j].raw + t[j].rsize <= t[i].raw
      BY <1>1, <1>2, <1>4 DEF WellFormed, Apart
    <2>2. \A r, v, n, s, w, m \in Nat :
              v <= a /\ a - v < n /\ w <= b /\ b - w < m /\ r + (a - v) = s + (b - w)
              => ~(n = 0 \/ r + n <= s \/ m = 0 \/ s + m <= r)
      <3>1. a \in Nat /\ b \in Nat
        BY <1>1, <1>2
      <3> QED BY <3>1
    <2>3. ~(\/ t[i].rsize = 0 \/ t[i].raw + t[i].rsize <= t[j].raw
            \/ t[j].rsize = 0 \/ t[j].raw + t[j].rsize <= t[i].raw)
      BY <1>0, <1>1, <1>2, <2>2
    <2> QED BY <2>1, <2>3
  <1> QED BY <1>3, <1>4

\* Exactly the addresses with bytes are mapped into the file.
LEMMA BackedIsMapped ==
    ASSUME NEW t, WellFormed(t), NEW a \in Mapped(t)
    PROVE  RvaToFileOffset(t, a) # None <=> a \in Backed(t)
  <1>1. CASE a \in Backed(t)
    <2>1. RvaToFileOffset(t, a) \in Nat
      BY <1>1, BackedFacts
    <2> QED BY <1>1, <2>1 DEF None
  <1>2. CASE a \notin Backed(t)
    <2> DEFINE i == FindSection(t, a)
    <2>1. i # None /\ a \in Nat /\ ~(a - t[i].va < t[i].rsize)
      BY <1>2, W32Assumption DEF Mapped, Backed
    <2>2. i \in 1..Len(t) /\ t \in Seq(Sections)
      BY <2>1, FindHolds DEF WellFormed
    <2>3. t[i].va \in Nat /\ t[i].rsize \in Nat
      <3> HIDE DEF i
      <3>1. t[i] \in Sections
        BY <2>2
      <3> QED BY <3>1 DEF Sections
    <2>4. a - t[i].va >= t[i].rsize
      BY <2>1, <2>3
    <2>5. RvaToFileOffset(t, a) = None
      BY <2>1, <2>4 DEF RvaToFileOffset
    <2> QED BY <1>2, <2>5
  <1> QED BY <1>1, <1>2

LEMMA InjectiveHolds == ASSUME WellFormed(table) PROVE OffsetsInjective
  <1> DEFINE F(a) == RvaToFileOffset(table, a)
             B == Backed(table)
             T == {F(a) : a \in B}
             f == [a \in B |-> F(a)]
  <1>1. IsFiniteSet(B)
    <2>1. IsFiniteSet(0..(W32 - 1))
      BY FS_Interval, W32Assumption
    <2>2. B \in SUBSET (0..(W32 - 1))
      BY DEF Backed, Mapped
    <2> HIDE DEF B
    <2> QED BY <2>1, <2>2, FS_Subset
  <1>2. \A a, b \in B : F(a) = F(b) => a = b
    BY OwnOffset
  <1>3. \A a \in Mapped(table) : F(a) # None <=> a \in B
    BY BackedIsMapped
  <1> HIDE DEF B, F
  <1>4. f \in Surjection(B, T) /\ f \in Injection(B, T)
    BY <1>2 DEF Surjection, Injection, IsInjective
  <1> HIDE DEF f, T
  <1>5. Cardinality(T) = Cardinality(B)
    BY <1>1, <1>4, FS_Surjection
  <1> QED BY <1>3, <1>5 DEF OffsetsInjective, B, F, T, Backed, Mapped

LEMMA TableHolds == IInv => OffsetsInjective
  BY InjectiveHolds, TablesAssumption DEF IInv, TypeOK, WellFormed

\* Exactly the addresses with raw bytes are mapped into the file, each to a byte of
\* its own, for every section table.
THEOREM OffsetsInjectiveCorrect == Spec => []OffsetsInjective
  <1> QED BY TableHolds, InitIInv, StepIInv, PTL DEF Spec

-----------------------------------------------------------------------------
\* What the loop over 0..(n - 1) goes through.
LEMMA IndicesAre ==
    ASSUME NEW n \in Nat
    PROVE  /\ Indices(n) \in Seq(Nat) /\ Len(Indices(n)) = n
           /\ \A i \in 1..n : Indices(n)[i] = i - 1
  <1>1. \A i \in 1..n : i - 1 \in Nat
    OBVIOUS
  <1> QED BY <1>1 DEF Indices

LEMMA IndicesSplit ==
    ASSUME NEW m \in Nat, NEW n \in Nat, m <= n
    PROVE  \E t \in Seq(Nat) : /\ Indices(n) = Indices(m) \o t
                               /\ \A k \in 1..Len(t) : t[k] \in m..(n - 1)
  <1> DEFINE t == [k \in 1..(n - m) |-> m + (k - 1)]
  <1>1. n - m \in Nat /\ \A k \in 1..(n - m) : m + (k - 1) \in Nat /\ m + (k - 1) \in m..(n - 1)
    OBVIOUS
  <1>2. t \in Seq(Nat) /\ Len(t) = n - m /\ \A k \in 1..(n - m) : t[k] = m + (k - 1)
    BY <1>1
  <1> HIDE DEF t
  <1>3. /\ Indices(m) \in Seq(Nat) /\ Len(Indices(m)) = m /\ \A i \in 1..m : Indices(m)[i] = i - 1
        /\ Indices(n) \in Seq(Nat) /\ Len(Indices(n)) = n /\ \A i \in 1..n : Indices(n)[i] = i - 1
    BY IndicesAre
  <1> DEFINE a == Indices(m)
             b == Indices(n)
             c == a \o t
  <1> HIDE DEF a, b
  <1>4. /\ a \in Seq(Nat) /\ Len(a) = m /\ \A i \in 1..m : a[i] = i - 1
        /\ b \in Seq(Nat) /\ Len(b) = n /\ \A i \in 1..n : b[i] = i - 1
    BY <1>3 DEF a, b
  <1>5. c \in Seq(Nat) /\ Len(c) = m + (n - m)
        /\ \A i \in 1..(m + (n - m)) : c[i] = IF i <= m THEN a[i] ELSE t[i - m]
    <2>1. /\ c \in Seq(Nat) /\ Len(c) = Len(a) + Len(t)
          /\ \A i \in 1..(Len(a) + Len(t)) : c[i] = IF i <= Len(a) THEN a[i] ELSE t[i - Len(a)]
      <3>1. a \in Seq(Nat) /\ t \in Seq(Nat)
        BY <1>2, <1>4
      <3> QED BY <3>1, ConcatProperties
    <2> HIDE DEF c
    <2> QED BY <1>2, <1>4, <2>1
  <1> HIDE DEF c
  <1>6. Len(c) = n
    BY <1>5
  <1>7. ASSUME NEW i \in 1..n PROVE b[i] = c[i]
    <2>1. c[i] = IF i <= m THEN a[i] ELSE t[i - m]
      BY <1>5
    <2>2. i <= m => i \in 1..m
      OBVIOUS
    <2>3. ~(i <= m) => i - m \in 1..(n - m) /\ m + ((i - m) - 1) = i - 1
      OBVIOUS
    <2> QED BY <1>2, <1>4, <2>1, <2>2, <2>3
  <1>8. b = c
    BY <1>4, <1>5, <1>6, <1>7, SameSequence
  <1> QED BY <1>1, <1>2, <1>8 DEF a, b, c

\* What is kept of them: the indices in K, in ascending order.
Ascends(s) == \A a, b \in 1..Len(s) : a < b => s[a] < s[b]
LEMMA IndicesKept ==
    ASSUME NEW n \in Nat, NEW K
    PROVE  /\ Kept(Indices(n), K) \in Seq((0..(n - 1)) \cap K)
           /\ \A i \in (0..(n - 1)) \cap K : \E k \in 1..Len(Kept(Indices(n), K)) : Kept(Indices(n), K)[k] = i
           /\ Ascends(Kept(Indices(n), K))
  <1> DEFINE L(m) == Kept(Indices(m), K)
             All(s, m) == \A i \in (0..(m - 1)) \cap K : \E k \in 1..Len(s) : s[k] = i
             Good(m) == L(m) \in Seq((0..(m - 1)) \cap K) /\ All(L(m), m) /\ Ascends(L(m))
             Bad == {m \in Nat : ~Good(m)}
  <1>1. Good(0)
    <2>1. Indices(0) = <<>>
      BY IndicesAre, EmptySeq
    <2>2. L(0) = <<>>
      BY <2>1, KeptOfNone
    <2>3. 0..(0 - 1) = {} /\ 1..Len(<<>>) = {} /\ <<>> \in Seq((0..(0 - 1)) \cap K)
      BY EmptySeq
    <2> QED BY <2>2, <2>3 DEF Ascends
  <1>2. ASSUME NEW m \in Nat, Good(m) PROVE Good(m + 1)
    <2> DEFINE s == L(m)
               u == L(m + 1)
               A == (0..(m - 1)) \cap K
               B == (0..((m + 1) - 1)) \cap K
    <2>1. u = IF m \in K THEN Append(s, m) ELSE s
      <3>1. Indices(m + 1) = Append(Indices(m), m)
        <4> DEFINE a == Indices(m)
                   b == Indices(m + 1)
                   c == Append(a, m)
        <4>1. /\ a \in Seq(Nat) /\ Len(a) = m /\ \A i \in 1..m : a[i] = i - 1
              /\ b \in Seq(Nat) /\ Len(b) = m + 1 /\ \A i \in 1..(m + 1) : b[i] = i - 1
          BY IndicesAre
        <4> HIDE DEF a, b
        <4>2. c \in Seq(Nat) /\ Len(c) = m + 1 /\ (\A i \in 1..m : c[i] = a[i]) /\ c[m + 1] = m
          BY <4>1, AppendProperties
        <4> HIDE DEF c
        <4>3. ASSUME NEW i \in 1..(m + 1) PROVE b[i] = c[i]
          <5>1. i \in 1..m \/ i = m + 1
            OBVIOUS
          <5> QED BY <4>1, <4>2, <5>1
        <4>4. b = c
          BY <4>1, <4>2, <4>3, SameSequence
        <4> QED BY <4>4 DEF a, b, c
      <3>2. Indices(m) \in Seq(Nat)
        BY IndicesAre
      <3> QED BY <3>1, <3>2, KeptOfMore
    <2>2. s \in Seq(A) /\ All(s, m) /\ Ascends(s)
      BY <1>2
    <2>3. A \subseteq B /\ \A i \in B : i \in A \/ (i = m /\ m \in K)
      OBVIOUS
    <2>4. m \in K => m \in B
      OBVIOUS
    <2>5. \A i \in A : i < m
      OBVIOUS
    <2> HIDE DEF s, u
    <2>6. s \in Seq(B) /\ Len(s) \in Nat /\ \A k \in 1..Len(s) : s[k] \in A
      BY <2>2, <2>3, LenProperties, ElementOfSeq
    <2>7. CASE m \notin K
      <3>1. u = s
        BY <2>1, <2>7
      <3>2. All(s, m + 1)
        BY <2>2, <2>3, <2>7
      <3> QED BY <2>2, <2>6, <3>1, <3>2 DEF u
    <2>8. CASE m \in K
      <3>1. u = Append(s, m) /\ m \in B
        BY <2>1, <2>4, <2>8
      <3> HIDE DEF A, B
      <3>2. u \in Seq(B) /\ Len(u) = Len(s) + 1 /\ (\A k \in 1..Len(s) : u[k] = s[k]) /\ u[Len(s) + 1] = m
        BY <2>6, <3>1, AppendProperties
      <3> DEFINE n1 == Len(s)
      <3>3. n1 \in Nat /\ Len(u) = n1 + 1 /\ (\A k \in 1..n1 : u[k] = s[k] /\ s[k] \in A /\ s[k] < m)
            /\ u[n1 + 1] = m
        BY <2>5, <2>6, <3>2
      <3>4. Len(s) = n1
        OBVIOUS
      <3> HIDE DEF n1
      <3>5. \A k \in 1..(n1 + 1) : k \in 1..n1 \/ k = n1 + 1
        BY <3>3
      <3>6. 1..n1 \subseteq 1..(n1 + 1) /\ n1 + 1 \in 1..(n1 + 1)
        BY <3>3
      <3>7. \A i \in B : \E k \in 1..Len(u) : u[k] = i
        <4> TAKE i \in B
        <4>1. CASE i \in A
          <5>1. PICK k \in 1..n1 : s[k] = i
            BY <2>2, <3>4, <4>1 DEF A
          <5> QED BY <3>3, <3>6, <5>1
        <4>2. CASE i = m
          BY <3>3, <3>6, <4>2
        <4> QED BY <2>3, <4>1, <4>2
      <3>8. Ascends(u)
        <4> SUFFICES ASSUME NEW a \in 1..(n1 + 1), NEW b \in 1..(n1 + 1), a < b PROVE u[a] < u[b]
          BY <3>3 DEF Ascends
        <4>1. a \in 1..n1
          BY <3>3
        <4>2. CASE b \in 1..n1
          BY <2>2, <3>3, <3>4, <4>1, <4>2 DEF Ascends
        <4>3. CASE b = n1 + 1
          BY <3>3, <4>1, <4>3
        <4> QED BY <3>5, <4>2, <4>3
      <3> QED BY <3>2, <3>7, <3>8 DEF u, B
    <2> QED BY <2>7, <2>8
  <1> HIDE DEF Good
  <1>3. Bad \in SUBSET Nat /\ \A m : m \in Bad <=> m \in Nat /\ ~Good(m)
    OBVIOUS
  <1> HIDE DEF Bad
  <1>4. Bad = {}
    <2> SUFFICES ASSUME Bad # {} PROVE FALSE
      OBVIOUS
    <2>1. PICK m \in Bad : \A y \in Bad : m <= y
      BY <1>3, LeastNatural
    <2>2. m \in Nat /\ ~Good(m) /\ m # 0
      BY <1>1, <1>3, <2>1
    <2>3. m - 1 \in Nat /\ (m - 1) + 1 = m /\ m - 1 < m
      BY <2>2
    <2>4. m - 1 \notin Bad
      BY <2>1, <2>2, <2>3
    <2> QED BY <1>2, <1>3, <2>2, <2>3, <2>4
  <1>5. Good(n)
    BY <1>3, <1>4
  <1> QED BY <1>5 DEF Good

\* A list that goes on as another one ends with.
IsStart(s, t) == Len(s) <= Len(t) /\ \A k \in 1..Len(s) : s[k] = t[k]
LEMMA KeptStart ==
    ASSUME NEW m \in Nat, NEW n \in Nat, m <= n, NEW K
    PROVE  IsStart(Kept(Indices(m), K), Kept(Indices(n), K))
  <1>1. PICK t \in Seq(Nat) : Indices(n) = Indices(m) \o t
    BY IndicesSplit
  <1> DEFINE a == Kept(Indices(m), K)
             b == Kept(t, K)
             c == a \o b
  <1>2. Indices(m) \in Seq(Nat)
    BY IndicesAre
  <1>3. a \in Seq(Nat) /\ b \in Seq(Nat) /\ Kept(Indices(n), K) = c
    <2>1. a \in Seq(Nat) /\ b \in Seq(Nat)
      BY <1>2, KeptElements
    <2>2. Kept(Indices(m) \o t, K) = c
      BY <1>2, KeptConcat
    <2> QED BY <1>1, <2>1, <2>2
  <1> HIDE DEF a, b
  <1>4. Len(a) \in Nat /\ Len(b) \in Nat
    BY <1>3, LenProperties
  <1>5. /\ Len(c) = Len(a) + Len(b)
        /\ \A i \in 1..(Len(a) + Len(b)) : c[i] = IF i <= Len(a) THEN a[i] ELSE b[i - Len(a)]
    BY <1>3, ConcatProperties
  <1> HIDE DEF c
  <1>6. Len(a) <= Len(c) /\ \A k \in 1..Len(a) : k \in 1..(Len(a) + Len(b)) /\ k <= Len(a)
    BY <1>4, <1>5
  <1>7. \A k \in 1..Len(a) : a[k] = c[k]
    BY <1>5, <1>6
  <1>8. IsStart(a, c)
    BY <1>6, <1>7 DEF IsStart
  <1> QED BY <1>3, <1>8 DEF a, c

-----------------------------------------------------------------------------
\* An RVA leads to an offset, a natural, or to nothing.
LEMMA OffsetTyped ==
    ASSUME NEW t \in Seq(Sections), NEW a \in Nat
    PROVE  RvaToFileOffset(t, a) \in Nat \cup {None}
  <1>1. Len(t) \in Nat
    BY LenProperties
  <1>2. CASE FindSection(t, a) # None
    <2> DEFINE i == FindSection(t, a)
               s == t[i]
    <2>1. i \in 1..Len(t) /\ Holds(s, a)
      BY <1>1, <1>2, FindHolds
    <2>2. s \in Sections
      <3> HIDE DEF i
      <3> QED BY <2>1, ElementOfSeq
    <2> HIDE DEF s, i
    <2>3. s.raw \in Nat /\ s.va \in Nat /\ a - s.va \in Nat
      <3>1. s.raw \in Nat /\ s.va \in Nat
        BY <2>2 DEF Sections
      <3>2. s.va <= a
        BY <2>1 DEF Holds
      <3> QED BY <3>1, <3>2
    <2>4. InFile(s, a) \in Nat
      <3>1. \A x \in Nat : x % W32 \in Nat
        BY W32Assumption
      <3> DEFINE x == s.raw + (a - s.va)
      <3>2. x \in Nat
        BY <2>3
      <3> HIDE DEF x
      <3>3. x % W32 \in Nat
        BY <3>1, <3>2
      <3> QED BY <3>3 DEF InFile, x
    <2> QED BY <1>2, <2>4 DEF RvaToFileOffset, i, s
  <1>3. CASE FindSection(t, a) = None
    BY <1>3 DEF RvaToFileOffset
  <1> QED BY <1>2, <1>3

LEMMA NoneIsNoOffset == None \notin Nat
  BY DEF None

LEMMA Add32Typed == \A a, b \in Nat : Add32(a, b) \in Nat
  <1>1. \A x \in Nat : x % W32 \in Nat
    BY W32Assumption
  <1> QED BY <1>1 DEF Add32

-----------------------------------------------------------------------------
\* A file and one that has the same structures and strings but is no shorter.
IsCut(f, g) ==
    /\ f.at = g.at /\ f.text = g.text
    /\ f.size \in Nat /\ g.size \in Nat /\ f.size <= g.size
    /\ \A kind \in DOMAIN Structures : \A at \in DOMAIN f.at[kind] : f.at[kind][at] \in Structures[kind]
    /\ \A at \in DOMAIN f.text : f.text[at] \in [of : STRING, chars : Nat]

LEMMA WholeIs ==
    ASSUME NEW f \in Files
    PROVE  IsCut(f, Whole(f)) /\ (f.size = f.full => Whole(f) = f)
  <1> DEFINE g == Whole(f)
  <1>1. f = [size |-> f.size, full |-> f.full, at |-> f.at, text |-> f.text]
    BY FilesAssumption
  <1> DEFINE s == f.size
             u == f.full
             a == f.at
             x == f.text
  <1>2. f = [size |-> s, full |-> u, at |-> a, text |-> x]
    BY <1>1
  <1> HIDE DEF s, u, a, x
  <1>3. g = [size |-> u, full |-> u, at |-> a, text |-> x]
    <2>1. g = [f EXCEPT !.size = u]
      BY DEF Whole, u
    <2> QED BY <1>2, <2>1
  <1>4. g.size = f.full /\ g.at = f.at /\ g.text = f.text
    BY <1>3 DEF a, u, x
  <1>5. f.size = f.full => g = f
    BY <1>2, <1>3 DEF s, u
  <1> HIDE DEF g
  <1>6. IsCut(f, g)
    BY <1>4, FilesAssumption DEF IsCut
  <1> QED BY <1>5, <1>6 DEF g

LEMMA CutOfItself == ASSUME NEW f, NEW g, IsCut(f, g) PROVE IsCut(f, f) /\ IsCut(g, g)
  BY DEF IsCut

LEMMA KindsAre == DOMAIN Structures = {"descriptor", "thunk", "rva", "ordinal", "debug", "exports"}
  BY DEF Structures

\* What is read of a structure the parsers follow.
LEMMA PlacedTyped ==
    ASSUME NEW f, NEW g, IsCut(f, g), NEW kind \in DOMAIN Structures, NEW at
    PROVE  Placed(f, kind, at) \in Structures[kind]
  <1>1. Zero[kind] \in Structures[kind]
    <2>1. kind \in {"descriptor", "thunk", "rva", "ordinal", "debug", "exports"}
      BY KindsAre
    <2>2. CASE kind = "descriptor"
      BY <2>2 DEF Zero, Structures
    <2>3. CASE kind = "thunk"
      BY <2>3 DEF Zero, Structures
    <2>4. CASE kind \in {"rva", "ordinal"}
      BY <2>4 DEF Zero, Structures
    <2>5. CASE kind = "debug"
      BY <2>5 DEF Zero, Structures
    <2>6. CASE kind = "exports"
      BY <2>6 DEF Zero, Structures
    <2> QED BY <2>1, <2>2, <2>3, <2>4, <2>5, <2>6
  <1> QED BY <1>1 DEF Placed, IsCut

LEMMA PlacedSame ==
    ASSUME NEW f, NEW g, IsCut(f, g), NEW kind, NEW at
    PROVE  Placed(f, kind, at) = Placed(g, kind, at)
  BY DEF Placed, IsCut

LEMMA FitsMore ==
    ASSUME NEW f, NEW g, IsCut(f, g), NEW type, Width[type] \in Nat, NEW at \in Int, Fits(f, type, at)
    PROVE  Fits(g, type, at)
  BY DEF Fits, IsCut

LEMMA NoTextIs == NoText.chars = 0 /\ NoText.chars \in Nat
  BY DEF NoText

LEMMA NoTextCut == ASSUME NEW t, t.chars \in Nat PROVE Cut(NoText, t)
  BY NoTextIs DEF Cut

-----------------------------------------------------------------------------
\* Strings read of a cut file are those of the whole one, at most cut off.
LEMMA MinOfThree ==
    ASSUME NEW a \in Nat, NEW b \in Nat, NEW c \in Nat
    PROVE  /\ Min({a, b, c}) \in Nat
           /\ Min({a, b, c}) \in {a, b, c}
           /\ Min({a, b, c}) <= a /\ Min({a, b, c}) <= b /\ Min({a, b, c}) <= c
  <1> DEFINE S == {a, b, c}
  <1>1. S \in SUBSET Nat /\ S # {}
    OBVIOUS
  <1>2. \E m \in S : \A y \in S : m <= y
    <2> HIDE DEF S
    <2> QED BY <1>1, LeastNatural
  <1>3. Min(S) \in S /\ \A y \in S : Min(S) <= y
    BY <1>2 DEF Min
  <1> QED BY <1>1, <1>3

LEMMA ReadStrIs ==
    ASSUME NEW f, NEW g, IsCut(f, g), NEW at \in Nat
    PROVE  /\ ReadStr(f, at).chars \in Nat
           /\ at < f.size /\ at \in DOMAIN f.text =>
                  /\ ReadStr(f, at).of = f.text[at].of
                  /\ ReadStr(f, at).chars = Min({f.text[at].chars, f.size - at, MaxName})
           /\ ~(at < f.size /\ at \in DOMAIN f.text) => ReadStr(f, at) = NoText
  <1>0. f.size \in Nat
    BY DEF IsCut
  <1>1. CASE at < f.size /\ at \in DOMAIN f.text
    <2> DEFINE x == f.text[at]
               n == Min({x.chars, f.size - at, MaxName})
    <2>1. x \in [of : STRING, chars : Nat] /\ f.size - at \in Nat /\ MaxName \in Nat
      BY <1>0, <1>1, WidthAssumption DEF IsCut
    <2>2. n \in Nat
      <3>1. x.chars \in Nat
        BY <2>1
      <3> QED BY <2>1, <3>1, MinOfThree
    <2>3. ReadStr(f, at) = [x EXCEPT !.chars = n]
      BY <1>0, <1>1 DEF ReadStr
    <2> HIDE DEF n
    <2>4. ReadStr(f, at).chars = n /\ ReadStr(f, at).of = x.of
      <3> HIDE DEF x
      <3> QED BY <2>1, <2>3
    <2> QED BY <1>1, <2>2, <2>4 DEF n
  <1>2. CASE ~(at < f.size /\ at \in DOMAIN f.text)
    <2>1. ReadStr(f, at) = NoText
      BY <1>0, <1>2 DEF ReadStr
    <2> QED BY <1>2, <2>1, NoTextIs
  <1> QED BY <1>1, <1>2

LEMMA ReadStrCut ==
    ASSUME NEW f, NEW g, IsCut(f, g), NEW at \in Nat
    PROVE  Cut(ReadStr(f, at), ReadStr(g, at)) /\ ReadStr(f, at).chars \in Nat
  <1>1. IsCut(g, g) /\ f.size \in Nat /\ g.size \in Nat /\ f.size <= g.size /\ f.text = g.text
    BY DEF IsCut
  <1>2. ReadStr(f, at).chars \in Nat /\ ReadStr(g, at).chars \in Nat
    BY <1>1, ReadStrIs
  <1>3. CASE at < f.size /\ at \in DOMAIN f.text
    <2> DEFINE c == f.text[at].chars
               m == f.size - at
               n == g.size - at
    <2>1. c \in Nat /\ m \in Nat /\ n \in Nat /\ m <= n /\ MaxName \in Nat /\ at < g.size
      BY <1>1, <1>3, WidthAssumption DEF IsCut
    <2>2. ReadStr(f, at).of = f.text[at].of /\ ReadStr(f, at).chars = Min({c, m, MaxName})
      BY <1>3, ReadStrIs
    <2>3. ReadStr(g, at).of = g.text[at].of /\ ReadStr(g, at).chars = Min({c, n, MaxName})
      BY <1>1, <1>3, <2>1, ReadStrIs
    <2> HIDE DEF c, m, n
    <2> DEFINE x == Min({c, m, MaxName})
               y == Min({c, n, MaxName})
    <2>4. x \in Nat /\ x <= c /\ x <= m /\ x <= MaxName
      BY <2>1, MinOfThree
    <2>5. y \in {c, n, MaxName}
      BY <2>1, MinOfThree
    <2> HIDE DEF x, y
    <2>6. x <= y
      BY <2>1, <2>4, <2>5
    <2> QED BY <1>1, <1>2, <2>2, <2>3, <2>6 DEF Cut, x, y
  <1>4. CASE ~(at < f.size /\ at \in DOMAIN f.text)
    <2>1. ReadStr(f, at) = NoText
      BY <1>4, ReadStrIs
    <2> QED BY <1>2, <2>1, NoTextCut
  <1> QED BY <1>2, <1>3, <1>4

LEMMA TextAtCut ==
    ASSUME NEW f, NEW g, IsCut(f, g), NEW secs \in Seq(Sections), NEW rva \in Nat, NEW skip \in Nat
    PROVE  Cut(TextAt(f, secs, rva, skip), TextAt(g, secs, rva, skip))
           /\ TextAt(f, secs, rva, skip).chars \in Nat
  <1> DEFINE at == RvaToFileOffset(secs, rva)
  <1>1. at \in Nat \cup {None}
    BY OffsetTyped
  <1>2. CASE at = None
    <2>1. TextAt(f, secs, rva, skip) = NoText /\ TextAt(g, secs, rva, skip) = NoText
      BY <1>2 DEF TextAt
    <2> QED BY <2>1, NoTextIs, NoTextCut
  <1>3. CASE at # None
    <2>1. Add32(at, skip) \in Nat
      BY <1>1, <1>3, Add32Typed
    <2>2. /\ TextAt(f, secs, rva, skip) = ReadStr(f, Add32(at, skip))
          /\ TextAt(g, secs, rva, skip) = ReadStr(g, Add32(at, skip))
      BY <1>3 DEF TextAt
    <2> QED BY <2>1, <2>2, ReadStrCut
  <1> QED BY <1>2, <1>3

-----------------------------------------------------------------------------
\* The loop that counts stops at the first entry that is not there.
LEMMA CountIs ==
    ASSUME NEW f, f.size \in Nat, NEW there \in SUBSET (0..f.size)
    PROVE  /\ CountWhile(f, there) \in 0..(f.size + 1) /\ CountWhile(f, there) \notin there
           /\ \A k \in 0..(CountWhile(f, there) - 1) : k \in there
  <1> DEFINE n == f.size + 1
             count == CHOOSE c : StopsOf(c, n, 1, there)
  <1>1. n \in Nat /\ there \in SUBSET (0..(n - 1)) /\ 1 \in {1, 2}
    <2>1. n \in Nat /\ n - 1 = f.size
      OBVIOUS
    <2> HIDE DEF n
    <2> QED BY <2>1
  <1>2. CountWhile(f, there) = count[0]
    BY DEF CountWhile, StopsOf
  <1> HIDE DEF n
  <1>3. StopsOf(count, n, 1, there)
    BY <1>1, StopExists
  <1> HIDE DEF count
  <1>4. \A q \in 0..n : EndsAt(q, count[q], n, 1, there)
    BY <1>1, <1>3, StopFacts
  <1> DEFINE e == count[0]
  <1>5. EndsAt(0, e, n, 1, there)
    BY <1>1, <1>4
  <1> HIDE DEF e
  <1>6. e \in 0..n /\ e \notin there /\ \A k \in 0..(e - 1) : (k - 0) % 1 = 0 => k \in there
    BY <1>5 DEF EndsAt
  <1>7. \A k \in 0..(e - 1) : (k - 0) % 1 = 0
    OBVIOUS
  <1> QED BY <1>2, <1>6, <1>7 DEF e, n

LEMMA CountMore ==
    ASSUME NEW f, NEW g, f.size \in Nat, g.size \in Nat, NEW S \in SUBSET (0..f.size),
           NEW T \in SUBSET (0..g.size), S \subseteq T
    PROVE  CountWhile(f, S) <= CountWhile(g, T)
  <1> DEFINE c == CountWhile(f, S)
             d == CountWhile(g, T)
  <1>1. c \in Nat /\ \A k \in 0..(c - 1) : k \in S
    BY CountIs
  <1>2. d \in Nat /\ d \notin T
    BY CountIs
  <1> HIDE DEF c, d
  <1>3. c <= d
    <2> SUFFICES ASSUME ~(c <= d) PROVE FALSE
      OBVIOUS
    <2>1. d \in 0..(c - 1)
      BY <1>1, <1>2
    <2> QED BY <1>1, <1>2, <2>1
  <1> QED BY <1>3 DEF c, d

-----------------------------------------------------------------------------
\* The header's fields the parsers follow.
HeaderTyped(h) == h.base \in Nat /\ h.dirs \in Seq(Directories)

LEMMA DirTyped ==
    ASSUME NEW h, HeaderTyped(h), NEW d \in Nat
    PROVE  Dir(h, d).rva \in Nat /\ Dir(h, d).size \in Nat
  <1> DEFINE ds == h.dirs
  <1>1. ds \in Seq(Directories) /\ Len(ds) \in Nat
    BY LenProperties DEF HeaderTyped
  <1>2. CASE Len(ds) <= d
    BY <1>2 DEF Dir
  <1>3. CASE ~(Len(ds) <= d)
    <2>1. d + 1 \in 1..Len(ds)
      BY <1>1, <1>3
    <2> HIDE DEF ds
    <2>2. ds[d + 1] \in Directories
      BY <1>1, <2>1, ElementOfSeq
    <2>3. Dir(h, d) = ds[d + 1]
      BY <1>3 DEF Dir, ds
    <2> QED BY <2>2, <2>3 DEF Directories
  <1> QED BY <1>2, <1>3

LEMMA DirOffsetTyped ==
    ASSUME NEW h, HeaderTyped(h), NEW secs \in Seq(Sections), NEW d \in Nat
    PROVE  DirOffset(h, secs, d) \in Nat \cup {None}
  BY DirTyped, OffsetTyped DEF DirOffset

LEMMA WidthsAre ==
    /\ \A h : Stride(h) \in Nat /\ Stride(h) # 0 /\ Width[ThunkType(h)] \in Nat
    /\ \A type \in {"descriptor", "rva", "ordinal", "hint", "exports", "debug", "codeview"} :
           Width[type] \in Nat /\ Width[type] # 0
  <1>1. \A h : ThunkType(h) \in {"thunk32", "thunk64"}
    BY DEF ThunkType
  <1>2. \A type \in {"descriptor", "thunk32", "thunk64", "rva", "ordinal", "hint", "exports",
                  "debug", "codeview"} :
            Width[type] \in Nat /\ Width[type] # 0
    BY WidthAssumption
  <1> QED BY <1>1, <1>2 DEF Stride

-----------------------------------------------------------------------------
\* A cut file has the thunks of the whole one.
LEMMA ThunkSame ==
    ASSUME NEW f, NEW g, IsCut(f, g), NEW h, NEW first, NEW k
    PROVE  ThunkAt(f, h, first, k) = ThunkAt(g, h, first, k) /\ ThunkAt(f, h, first, k) \in Structures["thunk"]
  <1>1. ThunkAt(f, h, first, k) = ThunkAt(g, h, first, k)
    BY PlacedSame DEF ThunkAt
  <1>2. ThunkAt(f, h, first, k) \in Structures["thunk"]
    BY PlacedTyped, KindsAre DEF ThunkAt
  <1> QED BY <1>1, <1>2

\* The loops that count them find at least as many in the whole file.
LEMMA ThunksMore ==
    ASSUME NEW f, NEW g, IsCut(f, g), NEW h, NEW first \in Nat
    PROVE  /\ Thunks(f, h, first) \in SUBSET (0..f.size) /\ Thunks(g, h, first) \in SUBSET (0..g.size)
           /\ Thunks(f, h, first) \subseteq Thunks(g, h, first)
  <1>1. \A k : ThunkAt(f, h, first, k) = ThunkAt(g, h, first, k)
    BY ThunkSame
  <1>2. ASSUME NEW k \in Thunks(f, h, first) PROVE k \in Thunks(g, h, first)
    <2>1. k \in 0..f.size /\ Fits(f, ThunkType(h), first + k * Stride(h)) /\ ThunkAt(f, h, first, k) # Zero["thunk"]
      BY DEF Thunks
    <2>2. k \in 0..g.size
      BY <2>1 DEF IsCut
    <2>3. first + k * Stride(h) \in Int
      <3>1. \A a, b, c \in Nat : a + b * c \in Int
        OBVIOUS
      <3> QED BY <2>1, <3>1, WidthsAre
    <2>4. Fits(g, ThunkType(h), first + k * Stride(h))
      BY <2>1, <2>3, WidthsAre, FitsMore
    <2> QED BY <1>1, <2>1, <2>2, <2>4 DEF Thunks
  <1> QED BY <1>2 DEF Thunks

LEMMA DescsMore ==
    ASSUME NEW f, NEW g, IsCut(f, g), NEW first \in Nat
    PROVE  /\ Descs(f, first) \in SUBSET (0..f.size) /\ Descs(g, first) \in SUBSET (0..g.size)
           /\ Descs(f, first) \subseteq Descs(g, first)
           /\ \A k : Desc(f, first, k) = Desc(g, first, k)
           /\ \A k : Desc(f, first, k) \in Structures["descriptor"]
  <1>1. \A k : Desc(f, first, k) = Desc(g, first, k)
    BY PlacedSame DEF Desc
  <1>2. ASSUME NEW k \in Descs(f, first) PROVE k \in Descs(g, first)
    <2>1. /\ k \in 0..f.size /\ Fits(f, "descriptor", DescAt(first, k))
          /\ ~(Desc(f, first, k).dll = 0 /\ Desc(f, first, k).iat = 0)
      BY DEF Descs
    <2>2. k \in 0..g.size
      BY <2>1 DEF IsCut
    <2>3. DescAt(first, k) \in Int
      <3>1. \A a, b, c \in Nat : a + b * c \in Int
        OBVIOUS
      <3> QED BY <2>1, <3>1, WidthsAre DEF DescAt
    <2>4. Fits(g, "descriptor", DescAt(first, k))
      BY <2>1, <2>3, WidthsAre, FitsMore
    <2> QED BY <1>1, <2>1, <2>2, <2>4 DEF Descs
  <1>3. \A k : Desc(f, first, k) \in Structures["descriptor"]
    BY PlacedTyped, KindsAre DEF Desc
  <1> QED BY <1>1, <1>2, <1>3 DEF Descs

LEMMA DescFields ==
    ASSUME NEW desc \in Structures["descriptor"]
    PROVE  desc.dll \in Nat /\ desc.iat \in Nat /\ NameTable(desc) \in Nat
  BY DEF Structures, NameTable

LEMMA ThunkFields ==
    ASSUME NEW thunk \in Structures["thunk"]
    PROVE  thunk.value \in Nat /\ thunk.value % W32 \in Nat
  <1>1. thunk.value \in Nat
    BY DEF Structures
  <1>2. \A x \in Nat : x % W32 \in Nat
    BY W32Assumption
  <1> QED BY <1>1, <1>2

\* An import listed for a cut file and the same import of the whole one.
SameImport(fn, of) == fn.iat_va = of.iat_va /\ fn.ordinal = of.ordinal /\ Cut(fn.name, of.name)

LEMMA ImportedCut ==
    ASSUME NEW f, NEW g, IsCut(f, g), NEW secs \in Seq(Sections), NEW thunk \in Structures["thunk"], NEW va
    PROVE  SameImport(Imported(f, secs, thunk, va), Imported(g, secs, thunk, va))
  <1> DEFINE a == Imported(f, secs, thunk, va)
             b == Imported(g, secs, thunk, va)
  <1>1. CASE thunk.byOrdinal
    <2>1. a = [name |-> NoText, ordinal |-> thunk.value % W16, hint |-> 0, iat_va |-> va] /\ b = a
      BY <1>1 DEF Imported
    <2>2. Cut(NoText, NoText)
      BY NoTextIs, NoTextCut
    <2> QED BY <2>1, <2>2 DEF SameImport
  <1>2. CASE ~thunk.byOrdinal
    <2> DEFINE x == TextAt(f, secs, thunk.value % W32, Width["hint"])
               y == TextAt(g, secs, thunk.value % W32, Width["hint"])
    <2>1. Cut(x, y)
      BY ThunkFields, WidthsAre, TextAtCut
    <2>2. a.name = x /\ a.ordinal = 0 /\ a.iat_va = va
      BY <1>2 DEF Imported
    <2>3. b.name = y /\ b.ordinal = 0 /\ b.iat_va = va
      BY <1>2 DEF Imported
    <2> QED BY <2>1, <2>2, <2>3 DEF SameImport
  <1> QED BY <1>1, <1>2

\* The functions of a module.
First(secs, desc) == RvaToFileOffset(secs, NameTable(desc))
Function(f, h, secs, desc, k) ==
    Imported(f, secs, ThunkAt(f, h, First(secs, desc), k - 1), SlotVa(h, desc.iat, k - 1))

LEMMA FunctionsAre ==
    ASSUME NEW f, NEW g, IsCut(f, g), NEW h, NEW secs, NEW desc, First(secs, desc) \in Nat
    PROVE  /\ CountWhile(f, Thunks(f, h, First(secs, desc))) \in Nat
           /\ Len(Functions(f, h, secs, desc)) = CountWhile(f, Thunks(f, h, First(secs, desc)))
           /\ \A k \in 1..Len(Functions(f, h, secs, desc)) :
                  Functions(f, h, secs, desc)[k] = Function(f, h, secs, desc, k)
  <1> DEFINE n == CountWhile(f, Thunks(f, h, First(secs, desc)))
             s == Functions(f, h, secs, desc)
  <1>1. n \in Nat
    <2>1. Thunks(f, h, First(secs, desc)) \in SUBSET (0..f.size) /\ f.size \in Nat
      BY ThunksMore DEF IsCut
    <2> QED BY <2>1, CountIs
  <1>2. s = [k \in 1..n |-> Function(f, h, secs, desc, k)]
    BY DEF Functions, First, Function
  <1> HIDE DEF n, s
  <1>3. Len(s) = n
    BY <1>1, <1>2, ListIs
  <1> QED BY <1>1, <1>2, <1>3 DEF n, s

LEMMA FunctionsCut ==
    ASSUME NEW f, NEW g, IsCut(f, g), NEW h, NEW secs \in Seq(Sections),
           NEW desc \in Structures["descriptor"], First(secs, desc) # None
    PROVE  LET s == Functions(f, h, secs, desc)
               t == Functions(g, h, secs, desc)
           IN  Len(s) \in Nat /\ Len(s) <= Len(t) /\ \A k \in 1..Len(s) : SameImport(s[k], t[k])
  <1> DEFINE s == Functions(f, h, secs, desc)
             t == Functions(g, h, secs, desc)
             first == First(secs, desc)
  <1>1. first \in Nat
    BY DescFields, OffsetTyped DEF First
  <1> HIDE DEF first
  <1>2. IsCut(g, g) /\ f.size \in Nat /\ g.size \in Nat
    BY DEF IsCut
  <1>3. /\ Len(s) = CountWhile(f, Thunks(f, h, first))
        /\ Len(t) = CountWhile(g, Thunks(g, h, first))
        /\ Len(s) \in Nat /\ Len(t) \in Nat
        /\ \A k \in 1..Len(s) : s[k] = Function(f, h, secs, desc, k)
        /\ \A k \in 1..Len(t) : t[k] = Function(g, h, secs, desc, k)
    BY <1>1, <1>2, FunctionsAre DEF first
  <1> HIDE DEF s, t
  <1>4. Len(s) <= Len(t)
    BY <1>1, <1>2, <1>3, ThunksMore, CountMore
  <1>5. ASSUME NEW k \in 1..Len(s) PROVE SameImport(s[k], t[k])
    <2>1. k \in 1..Len(t)
      BY <1>3, <1>4
    <2> DEFINE thunk == ThunkAt(f, h, first, k - 1)
               va == SlotVa(h, desc.iat, k - 1)
    <2>2. thunk \in Structures["thunk"] /\ thunk = ThunkAt(g, h, first, k - 1)
      BY ThunkSame
    <2>3. s[k] = Imported(f, secs, thunk, va) /\ t[k] = Imported(g, secs, thunk, va)
      BY <1>3, <2>1, <2>2 DEF Function, first
    <2> HIDE DEF thunk, va
    <2> QED BY <2>2, <2>3, ImportedCut
  <1> QED BY <1>3, <1>4, <1>5 DEF s, t

-----------------------------------------------------------------------------
\* The modules that are listed: their descriptors' indices, in order.
LEMMA ModulesAre ==
    ASSUME NEW f, NEW g, IsCut(f, g), NEW secs \in Seq(Sections), NEW first \in Nat
    PROVE  /\ Modules(f, secs, first) \in Seq(Nat) /\ Ascends(Modules(f, secs, first))
           /\ \A k \in 1..Len(Modules(f, secs, first)) :
                  First(secs, Desc(f, first, Modules(f, secs, first)[k])) # None
           /\ IsStart(Modules(f, secs, first), Modules(g, secs, first))
  <1> DEFINE K == {k \in Nat : First(secs, Desc(f, first, k)) # None}
             m == CountWhile(f, Descs(f, first))
             n == CountWhile(g, Descs(g, first))
             s == Modules(f, secs, first)
  <1>1. m \in Nat /\ n \in Nat /\ m <= n
    <2>1. f.size \in Nat /\ g.size \in Nat
      BY DEF IsCut
    <2>2. m \in Nat /\ n \in Nat
      BY <2>1, DescsMore, CountIs
    <2>3. m <= n
      BY <2>1, DescsMore, CountMore
    <2> QED BY <2>2, <2>3
  <1>2. s = Kept(Indices(m), K) /\ Modules(g, secs, first) = Kept(Indices(n), K)
    <2>1. \A k : Desc(f, first, k) = Desc(g, first, k)
      BY DescsMore
    <2>2. K = {k \in Nat : First(secs, Desc(g, first, k)) # None}
      BY <2>1
    <2> QED BY <2>2 DEF Modules, First
  <1>3. \A k \in K : k \in Nat /\ First(secs, Desc(f, first, k)) # None
    OBVIOUS
  <1> HIDE DEF m, n, K, s
  <1>4. IsStart(s, Modules(g, secs, first))
    BY <1>1, <1>2, KeptStart
  <1>5. s \in Seq((0..(m - 1)) \cap K) /\ Ascends(s)
    BY <1>1, <1>2, IndicesKept
  <1>6. s \in Seq(Nat) /\ \A k \in 1..Len(s) : s[k] \in K
    <2> DEFINE A == (0..(m - 1)) \cap K
    <2>1. \A k \in A : k \in Nat /\ k \in K
      BY <1>3
    <2>2. s \in Seq(A)
      BY <1>5
    <2> HIDE DEF A
    <2>3. \A k \in 1..Len(s) : s[k] \in A
      BY <2>2, ElementOfSeq
    <2>4. s \in Seq(Nat)
      BY <2>1, <2>2
    <2> QED BY <2>1, <2>3, <2>4
  <1> QED BY <1>3, <1>4, <1>5, <1>6 DEF s

LEMMA ImportsAre ==
    ASSUME NEW f, NEW g, IsCut(f, g), NEW h, HeaderTyped(h), NEW secs \in Seq(Sections)
    PROVE  LET first == DirOffset(h, secs, ImportDir)
               listed == Modules(f, secs, first)
               s == ImportList(f, h, secs)
           IN  /\ Len(s) \in Nat
               /\ first = None => Len(s) = 0
               /\ first # None =>
                      /\ first \in Nat /\ Len(s) = Len(listed)
                      /\ \A k \in 1..Len(s) : s[k] = Module(f, h, secs, Desc(f, first, listed[k]))
  <1> DEFINE first == DirOffset(h, secs, ImportDir)
             listed == Modules(f, secs, first)
             s == ImportList(f, h, secs)
  <1>1. first \in Nat \cup {None}
    BY DirOffsetTyped DEF ImportDir
  <1>2. CASE first = None
    <2>1. s = <<>>
      BY <1>2 DEF ImportList
    <2> QED BY <1>2, <2>1
  <1>3. CASE first # None
    <2> DEFINE n == Len(listed)
    <2>1. n \in Nat
      <3>1. listed \in Seq(Nat)
        BY <1>1, <1>3, ModulesAre
      <3> QED BY <3>1, LenProperties
    <2>2. s = [k \in 1..n |-> Module(f, h, secs, Desc(f, first, listed[k]))]
      BY <1>3 DEF ImportList
    <2> HIDE DEF s, listed, n, first
    <2>3. Len(s) = n
      BY <2>1, <2>2, ListIs
    <2>4. \A k \in 1..Len(s) : s[k] = Module(f, h, secs, Desc(f, first, listed[k]))
      BY <2>2, <2>3
    <2> QED BY <1>1, <1>3, <2>1, <2>3, <2>4 DEF s, listed, n, first
  <1> QED BY <1>2, <1>3

\* The imports of a cut file are imports of the whole one.
LEMMA ModuleCut ==
    ASSUME NEW f, NEW g, IsCut(f, g), NEW h, NEW secs \in Seq(Sections),
           NEW desc \in Structures["descriptor"], First(secs, desc) # None
    PROVE  LET a == Module(f, h, secs, desc)
               b == Module(g, h, secs, desc)
           IN  /\ Cut(a.dll, b.dll)
               /\ Len(a.functions) \in Nat /\ Len(a.functions) <= Len(b.functions)
               /\ \A k \in 1..Len(a.functions) : SameImport(a.functions[k], b.functions[k])
  <1> DEFINE a == Module(f, h, secs, desc)
             b == Module(g, h, secs, desc)
  <1>1. Cut(TextAt(f, secs, desc.dll, 0), TextAt(g, secs, desc.dll, 0))
    BY DescFields, TextAtCut
  <1>2. a.dll = TextAt(f, secs, desc.dll, 0) /\ a.functions = Functions(f, h, secs, desc)
    BY DEF Module
  <1>3. b.dll = TextAt(g, secs, desc.dll, 0) /\ b.functions = Functions(g, h, secs, desc)
    BY DEF Module
  <1> HIDE DEF a, b
  <1>4. LET s == Functions(f, h, secs, desc)
            t == Functions(g, h, secs, desc)
        IN  Len(s) \in Nat /\ Len(s) <= Len(t) /\ \A k \in 1..Len(s) : SameImport(s[k], t[k])
    BY FunctionsCut
  <1> QED BY <1>1, <1>2, <1>3, <1>4 DEF a, b

ImportsCut(s, t) ==
    /\ Len(s) <= Len(t)
    /\ \A i \in 1..Len(s) :
           /\ Cut(s[i].dll, t[i].dll)
           /\ \A k \in 1..Len(s[i].functions) : SameImport(s[i].functions[k], t[i].functions[k])

LEMMA ImportListCut ==
    ASSUME NEW f, NEW g, IsCut(f, g), NEW h, HeaderTyped(h), NEW secs \in Seq(Sections)
    PROVE  ImportsCut(ImportList(f, h, secs), ImportList(g, h, secs))
  <1> DEFINE first == DirOffset(h, secs, ImportDir)
             u == Modules(f, secs, first)
             v == Modules(g, secs, first)
             s == ImportList(f, h, secs)
             t == ImportList(g, h, secs)
  <1>1. IsCut(g, g)
    BY CutOfItself
  <1>2. Len(s) \in Nat /\ Len(t) \in Nat /\ (first = None => Len(s) = 0)
    BY <1>1, ImportsAre
  <1>3. first # None =>
            /\ first \in Nat /\ Len(s) = Len(u)
            /\ \A k \in 1..Len(s) : s[k] = Module(f, h, secs, Desc(f, first, u[k]))
    BY ImportsAre
  <1>4. first # None =>
            /\ Len(t) = Len(v)
            /\ \A k \in 1..Len(t) : t[k] = Module(g, h, secs, Desc(g, first, v[k]))
    BY <1>1, ImportsAre
  <1> HIDE DEF s, t, first
  <1>5. CASE first = None
    <2>1. Len(s) = 0 /\ 1..0 = {}
      BY <1>2, <1>5
    <2> QED BY <1>2, <2>1 DEF ImportsCut, s, t
  <1>6. CASE first # None
    <2>1. IsStart(u, v) /\ \A k \in 1..Len(u) : First(secs, Desc(f, first, u[k])) # None
      BY <1>3, <1>6, ModulesAre
    <2>2. \A k : Desc(f, first, k) = Desc(g, first, k)
      BY <1>3, <1>6, DescsMore
    <2>3. \A k : Desc(f, first, k) \in Structures["descriptor"]
      BY <1>3, <1>6, DescsMore
    <2> HIDE DEF u, v
    <2>4. Len(s) <= Len(t) /\ Len(s) = Len(u) /\ Len(t) = Len(v) /\ \A k \in 1..Len(u) : u[k] = v[k]
      BY <1>3, <1>4, <1>6, <2>1 DEF IsStart
    <2>5. ASSUME NEW i \in 1..Len(s)
          PROVE  /\ Cut(s[i].dll, t[i].dll)
                 /\ \A k \in 1..Len(s[i].functions) : SameImport(s[i].functions[k], t[i].functions[k])
      <3> DEFINE desc == Desc(f, first, u[i])
      <3>1. i \in 1..Len(t) /\ i \in 1..Len(u)
        BY <1>2, <2>4
      <3>2. desc = Desc(g, first, v[i]) /\ desc \in Structures["descriptor"] /\ First(secs, desc) # None
        BY <2>1, <2>2, <2>3, <2>4, <3>1
      <3>3. s[i] = Module(f, h, secs, desc)
        BY <1>3, <1>6
      <3>4. t[i] = Module(g, h, secs, desc)
        BY <1>4, <1>6, <3>1, <3>2
      <3> HIDE DEF desc
      <3>5. LET a == Module(f, h, secs, desc)
                b == Module(g, h, secs, desc)
            IN  /\ Cut(a.dll, b.dll)
                /\ \A k \in 1..Len(a.functions) : SameImport(a.functions[k], b.functions[k])
        BY <3>2, ModuleCut
      <3> QED BY <3>3, <3>4, <3>5
    <2> QED BY <2>4, <2>5 DEF ImportsCut, s, t
  <1> QED BY <1>5, <1>6

-----------------------------------------------------------------------------
\* Exports.
LEMMA ExportFields ==
    ASSUME NEW f, NEW g, IsCut(f, g), NEW h, NEW secs
    PROVE  /\ ExportDirectory(f, h, secs) = ExportDirectory(g, h, secs)
           /\ ExportDirectory(f, h, secs) \in Structures["exports"]
  <1>1. "exports" \in DOMAIN Structures
    BY KindsAre
  <1> QED BY <1>1, PlacedTyped, PlacedSame DEF ExportDirectory

LEMMA DirectoryFields ==
    ASSUME NEW ed \in Structures["exports"]
    PROVE  ed.functions \in Nat /\ ed.names \in Nat /\ ed.ordinals \in Nat /\ ed.nFuncs \in Nat
           /\ ed.nNames \in Nat /\ ed.base \in Nat
  BY DEF Structures

LEMMA RvaPlaced ==
    ASSUME NEW f, NEW g, IsCut(f, g), NEW at
    PROVE  Placed(f, "rva", at) = Placed(g, "rva", at) /\ Placed(f, "rva", at) \in Nat
  <1>1. Placed(f, "rva", at) \in Structures["rva"]
    BY PlacedTyped, KindsAre
  <1>2. Structures["rva"] = Nat
    BY DEF Structures
  <1> QED BY <1>1, <1>2, PlacedSame

LEMMA ElementTyped ==
    ASSUME NEW at \in Nat, NEW type \in {"rva", "ordinal"}, NEW i \in Nat
    PROVE  Element(at, type, i) \in Nat
  <1>1. i * Width[type] \in Nat
    <2>1. \A a, b \in Nat : a * b \in Nat
      OBVIOUS
    <2> QED BY <2>1, WidthsAre
  <1> QED BY <1>1, Add32Typed DEF Element

\* An export that is listed, with its index.
ListedAt(f, secs, ed, i) ==
    i \in Nat /\ i < ed.nFuncs /\ Fits(f, "rva", FunctionAt(secs, ed, i)) /\ FunctionRva(f, secs, ed, i) # 0

LEMMA ExportedAre ==
    ASSUME NEW f, NEW secs, NEW ed, ed.nFuncs \in Nat
    PROVE  LET s == Exported(f, secs, ed)
           IN  /\ Len(s) \in Nat /\ DOMAIN s = 1..Len(s)
               /\ \A k \in 1..Len(s) : ListedAt(f, secs, ed, s[k])
               /\ \A i : ListedAt(f, secs, ed, i) => \E k \in 1..Len(s) : s[k] = i
  <1> DEFINE K == {i \in Nat : Fits(f, "rva", FunctionAt(secs, ed, i)) /\ FunctionRva(f, secs, ed, i) # 0}
             n == ed.nFuncs
             s == Exported(f, secs, ed)
             A == (0..(n - 1)) \cap K
  <1>1. s = Kept(Indices(n), K)
    BY DEF Exported
  <1>2. \A i : i \in A <=> ListedAt(f, secs, ed, i)
    BY DEF ListedAt
  <1>0. n \in Nat
    OBVIOUS
  <1> HIDE DEF n, K, s
  <1>3. s \in Seq(A) /\ \A i \in A : \E k \in 1..Len(s) : s[k] = i
    <2> DEFINE x == Kept(Indices(n), K)
    <2>1. /\ x \in Seq((0..(n - 1)) \cap K)
          /\ \A i \in (0..(n - 1)) \cap K : \E k \in 1..Len(x) : x[k] = i
      BY <1>0, IndicesKept
    <2>2. s = x
      BY <1>1
    <2> HIDE DEF x
    <2> QED BY <2>1, <2>2
  <1> HIDE DEF A
  <1>4. Len(s) \in Nat /\ DOMAIN s = 1..Len(s) /\ \A k \in 1..Len(s) : s[k] \in A
    BY <1>3, LenProperties, ElementOfSeq
  <1> QED BY <1>2, <1>3, <1>4 DEF s

LEMMA ExportListIs ==
    ASSUME NEW f, NEW g, IsCut(f, g), NEW h, HeaderTyped(h), NEW secs \in Seq(Sections)
    PROVE  LET at == DirOffset(h, secs, ExportDir)
               ed == ExportDirectory(f, h, secs)
               there == at # None /\ Fits(f, "exports", at) /\ RvaToFileOffset(secs, ed.functions) # None
               s == ExportList(f, h, secs)
           IN  \A e : e \in Range(s) <=> there /\ \E i : /\ ListedAt(f, secs, ed, i)
                                                         /\ e = Export(f, secs, Dir(h, ExportDir), ed, i)
  <1> DEFINE at == DirOffset(h, secs, ExportDir)
             ed == ExportDirectory(f, h, secs)
             there == at # None /\ Fits(f, "exports", at) /\ RvaToFileOffset(secs, ed.functions) # None
             s == ExportList(f, h, secs)
             l == Exported(f, secs, ed)
             E(i) == Export(f, secs, Dir(h, ExportDir), ed, i)
  <1>1. ~there => s = <<>>
    BY DEF ExportList
  <1>2. there => s = [k \in 1..Len(l) |-> E(l[k])]
    BY DEF ExportList
  <1>3. /\ Len(l) \in Nat
        /\ \A k \in 1..Len(l) : ListedAt(f, secs, ed, l[k])
        /\ \A i : ListedAt(f, secs, ed, i) => \E k \in 1..Len(l) : l[k] = i
    <2>1. ed.nFuncs \in Nat
      BY ExportFields, DirectoryFields
    <2> QED BY <2>1, ExportedAre
  <1> HIDE DEF l, E, s, there, ed
  <1>4. ~there => \A e : e \notin Range(s)
    BY <1>1 DEF Range
  <1>5. there => \A e : e \in Range(s) <=> \E k \in 1..Len(l) : e = E(l[k])
    <2> SUFFICES ASSUME there PROVE \A e : e \in Range(s) <=> \E k \in 1..Len(l) : e = E(l[k])
      OBVIOUS
    <2>1. DOMAIN s = 1..Len(l) /\ \A k \in 1..Len(l) : s[k] = E(l[k])
      BY <1>2
    <2> QED BY <2>1 DEF Range
  <1> QED BY <1>3, <1>4, <1>5 DEF s, E, there, ed

-----------------------------------------------------------------------------
\* An array that does not wrap around.
LEMMA ElementIs ==
    ASSUME NEW at \in Nat, NEW type \in {"rva", "ordinal"}, NEW n \in Nat, at + n * Width[type] <= W32,
           NEW i \in Nat, i < n
    PROVE  Element(at, type, i) = at + i * Width[type]
  <1> DEFINE w == Width[type]
  <1>1. w \in Nat /\ w # 0
    BY WidthsAre
  <1> HIDE DEF w
  <1>2. i * w + w <= n * w /\ i * w \in Nat
    <2>1. \A a, d, x \in Nat : (a + d) * x = a * x + d * x /\ a * x \in Nat /\ d * x \in Nat
      OBVIOUS
    <2> DEFINE d == n - (i + 1)
    <2>2. d \in Nat /\ n = (i + 1) + d
      OBVIOUS
    <2> HIDE DEF d
    <2>3. n * w = (i + 1) * w + d * w /\ d * w \in Nat
      BY <1>1, <2>1, <2>2
    <2>4. (i + 1) * w = i * w + w /\ i * w \in Nat
      BY <1>1
    <2> QED BY <1>1, <2>3, <2>4
  <1>3. \A x \in Nat : x < W32 => x % W32 = x
    BY W32Assumption
  <1> DEFINE x == i * w
             y == n * w
  <1>4. x \in Nat /\ x + w <= y /\ at + y <= W32 /\ y \in Int
    <2>1. y \in Int
      BY <1>1
    <2> QED BY <1>2, <2>1 DEF w
  <1>5. Element(at, type, i) = (at + x) % W32
    BY DEF Element, Add32, w
  <1> HIDE DEF x, y
  <1>6. at + x \in Nat /\ at + x < W32
    BY <1>1, <1>4, W32Assumption
  <1>7. Element(at, type, i) = at + x
    BY <1>3, <1>5, <1>6
  <1> QED BY <1>7 DEF x, w

LEMMA FitsBelow ==
    ASSUME NEW f, f.size \in Nat, NEW at \in Nat, NEW type \in {"rva", "ordinal"}, NEW n \in Nat,
           at + n * Width[type] <= W32, NEW i \in Nat, NEW j \in Nat, j <= i, i < n,
           Fits(f, type, Element(at, type, i))
    PROVE  Fits(f, type, Element(at, type, j))
  <1> DEFINE w == Width[type]
  <1>1. w \in Nat /\ Element(at, type, i) = at + i * w /\ Element(at, type, j) = at + j * w
    BY WidthsAre, ElementIs
  <1> HIDE DEF w
  <1>2. j * w <= i * w /\ j * w \in Nat /\ i * w \in Nat
    <2>1. \A a, d, x \in Nat : (a + d) * x = a * x + d * x /\ a * x \in Nat /\ d * x \in Nat
      OBVIOUS
    <2> DEFINE d == i - j
    <2>2. d \in Nat /\ i = j + d
      OBVIOUS
    <2> HIDE DEF d
    <2>3. i * w = j * w + d * w /\ d * w \in Nat /\ j * w \in Nat
      BY <1>1, <2>1, <2>2
    <2> QED BY <1>1, <2>3
  <1> DEFINE x == j * w
             y == i * w
  <1>3. (at + y) + w <= f.size
    BY <1>1 DEF Fits, w
  <1> HIDE DEF x, y
  <1>4. (at + x) + w <= f.size
    BY <1>1, <1>2, <1>3 DEF x, y
  <1> QED BY <1>1, <1>4 DEF Fits, x, w

\* The tables of the names and their ordinals do not wrap around.
Unwrapped(secs, ed) ==
    /\ RvaToFileOffset(secs, ed.names) + ed.nNames * Width["rva"] <= W32
    /\ RvaToFileOffset(secs, ed.ordinals) + ed.nNames * Width["ordinal"] <= W32
BothFit(f, secs, ed, i) == Fits(f, "rva", RvaAt(secs, ed, i)) /\ Fits(f, "ordinal", OrdAt(secs, ed, i))
HasNames(secs, ed) == RvaToFileOffset(secs, ed.names) \in Nat /\ RvaToFileOffset(secs, ed.ordinals) \in Nat

\* What is there of the name tables of a cut file is their beginning.
LEMMA NamesEnd ==
    ASSUME NEW f, f.size \in Nat, NEW secs, NEW ed, ed.nNames \in Nat, Unwrapped(secs, ed), HasNames(secs, ed)
    PROVE  \E m \in Nat : /\ m <= ed.nNames
                          /\ \A i \in 0..(ed.nNames - 1) : BothFit(f, secs, ed, i) <=> i < m
  <1> DEFINE n == ed.nNames
             Bad == {i \in Nat : i >= n \/ ~BothFit(f, secs, ed, i)}
             a == RvaToFileOffset(secs, ed.names)
             b == RvaToFileOffset(secs, ed.ordinals)
  <1>1. a \in Nat /\ b \in Nat /\ n \in Nat /\ a + n * Width["rva"] <= W32 /\ b + n * Width["ordinal"] <= W32
    BY DEF Unwrapped, HasNames
  <1>2. ASSUME NEW i \in Nat, NEW j \in Nat, j <= i, i < n, BothFit(f, secs, ed, i)
        PROVE  BothFit(f, secs, ed, j)
    <2>1. Fits(f, "rva", Element(a, "rva", i)) /\ Fits(f, "ordinal", Element(b, "ordinal", i))
      BY <1>2 DEF BothFit, RvaAt, OrdAt
    <2> HIDE DEF a, b, n
    <2>2. Fits(f, "rva", Element(a, "rva", j))
      BY <1>1, <1>2, <2>1, FitsBelow
    <2>3. Fits(f, "ordinal", Element(b, "ordinal", j))
      BY <1>1, <1>2, <2>1, FitsBelow
    <2> QED BY <2>2, <2>3 DEF BothFit, RvaAt, OrdAt, a, b
  <1> HIDE DEF a, b
  <1>3. n \in Bad /\ Bad \in SUBSET Nat /\ \A i : i \in Bad <=> i \in Nat /\ (i >= n \/ ~BothFit(f, secs, ed, i))
    BY <1>1
  <1> HIDE DEF Bad
  <1>4. PICK m \in Bad : \A y \in Bad : m <= y
    BY <1>3, LeastNatural
  <1>5. m \in Nat /\ m <= n
    BY <1>3, <1>4
  <1> HIDE DEF n
  <1>6. ASSUME NEW i \in 0..(n - 1) PROVE BothFit(f, secs, ed, i) <=> i < m
    <2>1. i \in Nat /\ i < n
      BY <1>1
    <2>2. CASE i < m
      <3>1. i \notin Bad
        BY <1>3, <1>4, <1>5, <2>1, <2>2
      <3> QED BY <1>3, <2>1, <2>2, <3>1
    <2>3. CASE ~(i < m)
      <3>1. m <= i /\ m < n
        BY <1>1, <1>5, <2>1, <2>3
      <3>2. ~BothFit(f, secs, ed, m)
        BY <1>1, <1>3, <1>4, <1>5, <3>1
      <3> QED BY <1>2, <1>5, <2>1, <2>3, <3>1, <3>2
    <2> QED BY <2>2, <2>3
  <1> QED BY <1>5, <1>6 DEF n

LEMMA IndicesTyped == ASSUME NEW n \in Nat PROVE Indices(n) \in Seq(0..(n - 1))
  <1>1. \A i \in 1..n : i - 1 \in 0..(n - 1)
    OBVIOUS
  <1> QED BY <1>1 DEF Indices

LEMMA NamedStart ==
    ASSUME NEW f, NEW g, IsCut(f, g), NEW secs, NEW ed, ed.nNames \in Nat, Unwrapped(secs, ed), HasNames(secs, ed)
    PROVE  IsStart(Named(f, secs, ed), Named(g, secs, ed))
  <1> DEFINE n == ed.nNames
             K == {i \in Nat : Readable(f, secs, RvaAt(secs, ed, i), OrdAt(secs, ed, i))}
             L == {i \in Nat : Readable(g, secs, RvaAt(secs, ed, i), OrdAt(secs, ed, i))}
  <1>1. f.size \in Nat /\ g.size \in Nat /\ n \in Nat
    BY DEF IsCut
  <1>2. PICK m \in Nat : m <= n /\ \A i \in 0..(n - 1) : BothFit(f, secs, ed, i) <=> i < m
    BY <1>1, NamesEnd
  <1>3. Named(f, secs, ed) = Kept(Indices(n), K) /\ Named(g, secs, ed) = Kept(Indices(n), L)
    BY DEF Named
  <1>4. ASSUME NEW i \in 0..(m - 1) PROVE i \in K <=> i \in L
    <2>1. i \in 0..(n - 1) /\ i < m /\ i \in Nat
      BY <1>1, <1>2
    <2>2. BothFit(f, secs, ed, i)
      BY <1>2, <2>1
    <2>3. BothFit(g, secs, ed, i)
      <3>1. RvaAt(secs, ed, i) \in Int /\ OrdAt(secs, ed, i) \in Int
        BY <2>1, ElementTyped DEF RvaAt, OrdAt, HasNames
      <3> QED BY <2>2, <3>1, WidthsAre, FitsMore DEF BothFit
    <2>4. Placed(f, "rva", RvaAt(secs, ed, i)) = Placed(g, "rva", RvaAt(secs, ed, i))
      BY RvaPlaced
    <2> QED BY <2>1, <2>2, <2>3, <2>4 DEF Readable, BothFit
  <1>5. ASSUME NEW i \in m..(n - 1) PROVE i \notin K
    <2>1. i \in 0..(n - 1) /\ ~(i < m)
      BY <1>1, <1>2
    <2>2. ~BothFit(f, secs, ed, i)
      BY <1>2, <2>1
    <2> QED BY <2>2 DEF Readable, BothFit
  <1> HIDE DEF n, K, L
  <1>6. PICK t \in Seq(Nat) : Indices(n) = Indices(m) \o t /\ \A k \in 1..Len(t) : t[k] \in m..(n - 1)
    BY <1>1, <1>2, IndicesSplit
  <1> DEFINE S == m..(n - 1)
  <1>7. t \in Seq(S) /\ S \cap K = {}
    <2>1. S \cap K = {}
      BY <1>5
    <2>2. \A k \in 1..Len(t) : t[k] \in S
      BY <1>6
    <2> HIDE DEF S
    <2>3. t \in Seq(S)
      BY <2>2, SequenceOf
    <2> QED BY <2>1, <2>3
  <1> HIDE DEF S
  <1>8. Kept(t, K) = <<>>
    <2>1. Kept(t, K) \in Seq(S \cap K)
      BY <1>7, KeptElements
    <2>2. Kept(t, K) \in Seq({})
      BY <1>7, <2>1
    <2> QED BY <2>2
  <1>9. Kept(Indices(m), K) = Kept(Indices(m), L)
    <2>1. Indices(m) \in Seq(0..(m - 1))
      BY IndicesTyped
    <2> QED BY <1>4, <2>1, KeptSameSet
  <1>10. Kept(Indices(n), K) = Kept(Indices(m), L)
    <2>1. Indices(m) \in Seq(Nat) /\ Kept(Indices(m), K) \in Seq(Nat)
      BY IndicesAre, KeptElements
    <2>2. Kept(Indices(n), K) = Kept(Indices(m), K) \o Kept(t, K)
      BY <1>6, <2>1, KeptConcat
    <2>3. Kept(Indices(m), K) \o <<>> = Kept(Indices(m), K)
      BY <2>1, ConcatEmptySeq
    <2> QED BY <1>8, <1>9, <2>2, <2>3
  <1>11. IsStart(Kept(Indices(m), L), Kept(Indices(n), L))
    BY <1>1, <1>2, KeptStart
  <1> QED BY <1>3, <1>10, <1>11

\* The name table as it is read: what is named at each of its indices.
NameAt(f, secs, ed, i) ==
    <<Placed(f, "ordinal", OrdAt(secs, ed, i)), TextAt(f, secs, Placed(f, "rva", RvaAt(secs, ed, i)), 0)>>

LEMMA NamesAre ==
    ASSUME NEW f, f.size \in Nat, NEW secs \in Seq(Sections), NEW ed \in Structures["exports"]
    PROVE  LET s == NamesByOrd(f, secs, ed)
               l == Named(f, secs, ed)
           IN  /\ Len(s) \in Nat /\ DOMAIN s = 1..Len(s) /\ l \in Seq(Nat)
               /\ ~HasNames(secs, ed) => s = <<>>
               /\ HasNames(secs, ed) =>
                      Len(s) = Len(l) /\ \A k \in 1..Len(s) : s[k] = NameAt(f, secs, ed, l[k])
  <1> DEFINE s == NamesByOrd(f, secs, ed)
             l == Named(f, secs, ed)
             n == Len(l)
  <1>1. l \in Seq(Nat) /\ n \in Nat
    <2>1. l \in Seq(Nat)
      <3>1. ed.nNames \in Nat
        BY DirectoryFields
      <3>2. Indices(ed.nNames) \in Seq(Nat)
        BY <3>1, IndicesAre
      <3> QED BY <3>2, KeptElements DEF Named
    <2> HIDE DEF l
    <2> QED BY <2>1, LenProperties
  <1>2. HasNames(secs, ed) <=>
            RvaToFileOffset(secs, ed.names) # None /\ RvaToFileOffset(secs, ed.ordinals) # None
    <2>1. ed.names \in Nat /\ ed.ordinals \in Nat
      BY DirectoryFields
    <2>2. /\ RvaToFileOffset(secs, ed.names) \in Nat \cup {None}
          /\ RvaToFileOffset(secs, ed.ordinals) \in Nat \cup {None}
      BY <2>1, OffsetTyped
    <2> QED BY <2>2, NoneIsNoOffset DEF HasNames
  <1>3. ~HasNames(secs, ed) => s = <<>>
    BY <1>2 DEF NamesByOrd
  <1>4. HasNames(secs, ed) => s = [k \in 1..n |-> NameAt(f, secs, ed, l[k])]
    BY <1>2 DEF NamesByOrd, NameAt
  <1> HIDE DEF s, l
  <1>5. CASE ~HasNames(secs, ed)
    <2>1. Len(s) = 0 /\ DOMAIN s = 1..0
      BY <1>3, <1>5
    <2> QED BY <1>1, <1>3, <1>5, <2>1 DEF s, l
  <1>6. CASE HasNames(secs, ed)
    <2> HIDE DEF n
    <2>1. Len(s) = n /\ DOMAIN s = 1..n
      BY <1>1, <1>4, <1>6, ListIs
    <2>2. \A k \in 1..Len(s) : s[k] = NameAt(f, secs, ed, l[k])
      BY <1>4, <1>6, <2>1
    <2> QED BY <1>1, <1>6, <2>1, <2>2 DEF s, l, n
  <1> QED BY <1>5, <1>6

LEMMA NameAtCut ==
    ASSUME NEW f, NEW g, IsCut(f, g), NEW secs \in Seq(Sections), NEW ed, NEW i
    PROVE  /\ NameAt(f, secs, ed, i)[1] = NameAt(g, secs, ed, i)[1]
           /\ Cut(NameAt(f, secs, ed, i)[2], NameAt(g, secs, ed, i)[2])
           /\ NameAt(f, secs, ed, i)[2].chars \in Nat
  <1> DEFINE r == Placed(f, "rva", RvaAt(secs, ed, i))
             o == Placed(f, "ordinal", OrdAt(secs, ed, i))
  <1>1. r \in Nat /\ r = Placed(g, "rva", RvaAt(secs, ed, i))
    BY RvaPlaced
  <1>2. o = Placed(g, "ordinal", OrdAt(secs, ed, i))
    BY PlacedSame
  <1>3. NameAt(f, secs, ed, i) = <<o, TextAt(f, secs, r, 0)>> /\ NameAt(g, secs, ed, i) = <<o, TextAt(g, secs, r, 0)>>
    BY <1>1, <1>2 DEF NameAt
  <1> HIDE DEF r, o
  <1>4. Cut(TextAt(f, secs, r, 0), TextAt(g, secs, r, 0)) /\ TextAt(f, secs, r, 0).chars \in Nat
    BY <1>1, TextAtCut
  <1> QED BY <1>3, <1>4

\* The names of a cut file are the first ones of the whole file.
NamesCut(s, t) ==
    /\ Len(s) \in Nat /\ Len(t) \in Nat /\ Len(s) <= Len(t)
    /\ \A k \in 1..Len(s) : s[k][1] = t[k][1] /\ Cut(s[k][2], t[k][2])
    /\ \A k \in 1..Len(t) : t[k][2].chars \in Nat

LEMMA NamesByOrdCut ==
    ASSUME NEW f, NEW g, IsCut(f, g), NEW secs \in Seq(Sections), NEW ed \in Structures["exports"],
           Unwrapped(secs, ed)
    PROVE  NamesCut(NamesByOrd(f, secs, ed), NamesByOrd(g, secs, ed))
  <1> DEFINE s == NamesByOrd(f, secs, ed)
             t == NamesByOrd(g, secs, ed)
             l == Named(f, secs, ed)
             m == Named(g, secs, ed)
  <1>1. f.size \in Nat /\ g.size \in Nat /\ IsCut(g, g)
    BY DEF IsCut
  <1>2. /\ Len(s) \in Nat
        /\ ~HasNames(secs, ed) => s = <<>>
        /\ HasNames(secs, ed) => Len(s) = Len(l) /\ \A k \in 1..Len(s) : s[k] = NameAt(f, secs, ed, l[k])
    BY <1>1, NamesAre
  <1>3. /\ Len(t) \in Nat
        /\ ~HasNames(secs, ed) => t = <<>>
        /\ HasNames(secs, ed) => Len(t) = Len(m) /\ \A k \in 1..Len(t) : t[k] = NameAt(g, secs, ed, m[k])
    BY <1>1, NamesAre
  <1>4. HasNames(secs, ed) => IsStart(l, m)
    <2>1. ed.nNames \in Nat
      BY DirectoryFields
    <2> QED BY <2>1, NamedStart
  <1> HIDE DEF s, t, l, m
  <1>5. CASE ~HasNames(secs, ed)
    <2>1. Len(s) = 0 /\ Len(t) = 0 /\ 1..0 = {}
      BY <1>2, <1>3, <1>5
    <2> QED BY <2>1 DEF NamesCut, s, t
  <1>6. CASE HasNames(secs, ed)
    <2>1. Len(s) <= Len(t) /\ \A k \in 1..Len(s) : k \in 1..Len(t) /\ l[k] = m[k]
      BY <1>2, <1>3, <1>4, <1>6 DEF IsStart
    <2>2. \A k \in 1..Len(s) : s[k][1] = t[k][1] /\ Cut(s[k][2], t[k][2])
      BY <1>2, <1>3, <1>6, <2>1, NameAtCut
    <2>3. \A k \in 1..Len(t) : t[k][2].chars \in Nat
      BY <1>1, <1>3, <1>6, NameAtCut
    <2> QED BY <1>2, <1>3, <2>1, <2>2, <2>3 DEF NamesCut, s, t
  <1> QED BY <1>5, <1>6

\* The name of an index is the first one listed for it.
LEMMA NameOfIs ==
    ASSUME NEW s, Len(s) \in Nat, NEW i, NEW ed
    PROVE  \/ (\A k \in 1..Len(s) : s[k][1] # i) /\ NameOf(s, i, ed) = NoText
           \/ \E k \in 1..Len(s) : /\ s[k][1] = i /\ NameOf(s, i, ed) = s[k][2]
                                   /\ \A j \in 1..Len(s) : s[j][1] = i => k <= j
  <1> DEFINE H == {k \in 1..Len(s) : NamesIndex(s[k], i, ed)}
  <1>1. \A k : k \in H <=> k \in 1..Len(s) /\ s[k][1] = i
    BY DEF NamesIndex
  <1>2. H \in SUBSET Nat
    OBVIOUS
  <1>3. NameOf(s, i, ed) = IF H = {} THEN NoText ELSE s[Min(H)][2]
    BY DEF NameOf
  <1> HIDE DEF H
  <1>4. CASE H = {}
    BY <1>1, <1>3, <1>4
  <1>5. CASE H # {}
    <2>1. Min(H) \in H /\ \A y \in H : Min(H) <= y
      BY <1>2, <1>5, MinFacts
    <2> QED BY <1>1, <1>3, <1>5, <2>1
  <1> QED BY <1>4, <1>5

LEMMA NameOfCut ==
    ASSUME NEW s, NEW t, NamesCut(s, t), NEW i, NEW ed
    PROVE  Cut(NameOf(s, i, ed), NameOf(t, i, ed))
  <1>1. Len(s) \in Nat /\ Len(t) \in Nat /\ Len(s) <= Len(t)
    BY DEF NamesCut
  <1>2. \/ (\A k \in 1..Len(s) : s[k][1] # i) /\ NameOf(s, i, ed) = NoText
        \/ \E k \in 1..Len(s) : /\ s[k][1] = i /\ NameOf(s, i, ed) = s[k][2]
                                /\ \A j \in 1..Len(s) : s[j][1] = i => k <= j
    BY <1>1, NameOfIs
  <1>3. \/ (\A k \in 1..Len(t) : t[k][1] # i) /\ NameOf(t, i, ed) = NoText
        \/ \E k \in 1..Len(t) : /\ t[k][1] = i /\ NameOf(t, i, ed) = t[k][2]
                                /\ \A j \in 1..Len(t) : t[j][1] = i => k <= j
    BY <1>1, NameOfIs
  <1>4. CASE NameOf(s, i, ed) = NoText
    <2>1. NameOf(t, i, ed).chars \in Nat
      BY <1>3, NoTextIs DEF NamesCut
    <2> QED BY <1>4, <2>1, NoTextCut
  <1>5. CASE \E k \in 1..Len(s) : /\ s[k][1] = i /\ NameOf(s, i, ed) = s[k][2]
                                  /\ \A j \in 1..Len(s) : s[j][1] = i => k <= j
    <2>1. PICK k \in 1..Len(s) : /\ s[k][1] = i /\ NameOf(s, i, ed) = s[k][2]
                                 /\ \A j \in 1..Len(s) : s[j][1] = i => k <= j
      BY <1>5
    <2>2. k \in 1..Len(t) /\ t[k][1] = i /\ Cut(s[k][2], t[k][2])
      BY <1>1, <2>1 DEF NamesCut
    <2>3. PICK j \in 1..Len(t) : /\ t[j][1] = i /\ NameOf(t, i, ed) = t[j][2] /\ j <= k
      BY <1>3, <2>2
    <2>4. j \in 1..Len(s)
      BY <1>1, <2>1, <2>3
    <2>5. s[j][1] = i
      BY <2>3, <2>4 DEF NamesCut
    <2>6. k <= j
      BY <2>1, <2>4, <2>5
    <2>7. j = k
      BY <2>1, <2>3, <2>6
    <2> QED BY <2>1, <2>2, <2>3, <2>7
  <1> QED BY <1>2, <1>4, <1>5

\* The exports of a cut file are exports of the whole one.
SameExport(e, of) ==
    /\ e.rva = of.rva /\ e.ordinal = of.ordinal
    /\ Cut(e.name, of.name) /\ Cut(e.forwarder, of.forwarder)

LEMMA ExportCut ==
    ASSUME NEW f, NEW g, IsCut(f, g), NEW secs \in Seq(Sections), NEW ed \in Structures["exports"],
           Unwrapped(secs, ed), NEW dir, NEW i
    PROVE  SameExport(Export(f, secs, dir, ed, i), Export(g, secs, dir, ed, i))
  <1> DEFINE rva == FunctionRva(f, secs, ed, i)
             a == NameOf(NamesByOrd(f, secs, ed), i, ed)
             b == NameOf(NamesByOrd(g, secs, ed), i, ed)
             x == IF Forwards(dir, rva) THEN TextAt(f, secs, rva, 0) ELSE NoText
             y == IF Forwards(dir, rva) THEN TextAt(g, secs, rva, 0) ELSE NoText
             n == (ed.base + i) % W16
  <1>1. rva \in Nat /\ rva = FunctionRva(g, secs, ed, i)
    BY RvaPlaced DEF FunctionRva
  <1>2. Export(f, secs, dir, ed, i) = [ordinal |-> n, rva |-> rva, name |-> a, forwarder |-> x]
    BY DEF Export
  <1>3. Export(g, secs, dir, ed, i) = [ordinal |-> n, rva |-> rva, name |-> b, forwarder |-> y]
    BY <1>1 DEF Export
  <1>4. Cut(a, b)
    <2>1. NamesCut(NamesByOrd(f, secs, ed), NamesByOrd(g, secs, ed))
      BY NamesByOrdCut
    <2> QED BY <2>1, NameOfCut
  <1> HIDE DEF rva, a, b, n
  <1>5. Cut(x, y)
    <2>1. Cut(TextAt(f, secs, rva, 0), TextAt(g, secs, rva, 0))
      BY <1>1, TextAtCut
    <2>2. Cut(NoText, NoText)
      BY NoTextIs, NoTextCut
    <2> QED BY <2>1, <2>2
  <1> HIDE DEF x, y
  <1> QED BY <1>2, <1>3, <1>4, <1>5 DEF SameExport

LEMMA ExportListCut ==
    ASSUME NEW f, NEW g, IsCut(f, g), NEW h, HeaderTyped(h), NEW secs \in Seq(Sections),
           Unwrapped(secs, ExportDirectory(f, h, secs)), NEW e \in Range(ExportList(f, h, secs))
    PROVE  \E of \in Range(ExportList(g, h, secs)) : SameExport(e, of)
  <1> DEFINE at == DirOffset(h, secs, ExportDir)
             ed == ExportDirectory(f, h, secs)
             dir == Dir(h, ExportDir)
             there(x) == at # None /\ Fits(x, "exports", at) /\ RvaToFileOffset(secs, ed.functions) # None
  <1>1. IsCut(g, g) /\ ed = ExportDirectory(g, h, secs) /\ ed \in Structures["exports"]
    BY CutOfItself, ExportFields
  <1>2. there(f) /\ \E i : ListedAt(f, secs, ed, i) /\ e = Export(f, secs, dir, ed, i)
    BY ExportListIs
  <1>3. there(g) /\ (\E i : ListedAt(g, secs, ed, i) /\ Export(g, secs, dir, ed, i) = Export(g, secs, dir, ed, i))
        => \A i : ListedAt(g, secs, ed, i) => Export(g, secs, dir, ed, i) \in Range(ExportList(g, h, secs))
    <2>1. \A y : y \in Range(ExportList(g, h, secs)) <=>
                     there(g) /\ \E i : ListedAt(g, secs, ed, i) /\ y = Export(g, secs, dir, ed, i)
      BY <1>1, ExportListIs
    <2> HIDE DEF there, dir, ed
    <2> QED BY <2>1
  <1>4. PICK i : ListedAt(f, secs, ed, i) /\ e = Export(f, secs, dir, ed, i)
    BY <1>2
  <1>5. there(g)
    <2>1. at \in Nat
      <3>1. at \in Nat \cup {None}
        BY DirOffsetTyped DEF ExportDir
      <3> QED BY <1>2, <3>1
    <2>2. Fits(g, "exports", at)
      <3> HIDE DEF at, ed
      <3> QED BY <1>2, <2>1, WidthsAre, FitsMore
    <2> QED BY <1>2, <2>2
  <1> HIDE DEF there, dir, at
  <1>6. ListedAt(g, secs, ed, i)
    <2> DEFINE p == FunctionAt(secs, ed, i)
    <2>1. i \in Nat /\ i < ed.nFuncs /\ Fits(f, "rva", p) /\ FunctionRva(f, secs, ed, i) # 0
      BY <1>4 DEF ListedAt
    <2>2. p \in Nat
      <3>1. RvaToFileOffset(secs, ed.functions) \in Nat
        <4>1. RvaToFileOffset(secs, ed.functions) \in Nat \cup {None}
          BY <1>1, DirectoryFields, OffsetTyped
        <4> QED BY <1>2, <4>1 DEF there
      <3> QED BY <2>1, <3>1, ElementTyped DEF FunctionAt
    <2>3. FunctionRva(f, secs, ed, i) = FunctionRva(g, secs, ed, i)
      BY RvaPlaced DEF FunctionRva
    <2>4. Fits(g, "rva", p)
      <3> HIDE DEF p, ed
      <3> QED BY <2>1, <2>2, WidthsAre, FitsMore
    <2> QED BY <2>1, <2>3, <2>4 DEF ListedAt
  <1>7. SameExport(e, Export(g, secs, dir, ed, i))
    BY <1>1, <1>4, ExportCut
  <1>8. Export(g, secs, dir, ed, i) \in Range(ExportList(g, h, secs))
    BY <1>3, <1>5, <1>6
  <1> QED BY <1>7, <1>8

-----------------------------------------------------------------------------
\* The record that names the PDB.
RsdsThere(f, h, first, i) == i \in Nat /\ i < Dir(h, DebugDir).size \div Width["debug"] /\ IsRsds(f, first, i)

LEMMA RsdsListIs ==
    ASSUME NEW f, NEW h, HeaderTyped(h), NEW secs
    PROVE  LET first == DirOffset(h, secs, DebugDir)
               s == RsdsList(f, h, secs)
           IN  /\ \A e : e \in Range(s) <=> first # None /\ \E i : /\ RsdsThere(f, h, first, i)
                                                                   /\ e = RsdsAt(f, RawAt(f, first, i))
               /\ s # <<>> => Head(s) \in Range(s)
  <1> DEFINE first == DirOffset(h, secs, DebugDir)
             s == RsdsList(f, h, secs)
             n == Dir(h, DebugDir).size \div Width["debug"]
             K == {i \in Nat : IsRsds(f, first, i)}
             A == (0..(n - 1)) \cap K
             l == Kept(Indices(n), K)
             E(i) == RsdsAt(f, RawAt(f, first, i))
  <1>1. n \in Nat
    <2>1. Dir(h, DebugDir).size \in Nat
      BY DirTyped DEF DebugDir
    <2>2. \A a, b \in Nat : b # 0 => a \div b \in Nat
      OBVIOUS
    <2> QED BY <2>1, <2>2, WidthsAre
  <1>2. \A i : i \in A <=> RsdsThere(f, h, first, i)
    <2>1. \A i : i \in A <=> i \in Nat /\ i < n /\ IsRsds(f, first, i)
      BY <1>1
    <2> QED BY <2>1 DEF RsdsThere
  <1>3. first = None => s = <<>>
    BY DEF RsdsList
  <1>4. first # None => s = [k \in 1..Len(l) |-> E(l[k])]
    BY DEF RsdsList
  <1>5. l \in Seq(A) /\ \A i \in A : \E k \in 1..Len(l) : l[k] = i
    <2> HIDE DEF n, K
    <2> QED BY <1>1, IndicesKept
  <1> HIDE DEF n, K, A, l, E, s, first
  <1>6. Len(l) \in Nat /\ \A k \in 1..Len(l) : l[k] \in A
    BY <1>5, LenProperties, ElementOfSeq
  <1>7. CASE first = None
    <2>1. Range(s) = {}
      BY <1>3, <1>7 DEF Range
    <2> QED BY <1>3, <1>7, <2>1 DEF s, first
  <1>8. CASE first # None
    <2> DEFINE m == Len(l)
    <2>1. Len(s) = m /\ DOMAIN s = 1..m /\ (\A k \in 1..m : s[k] = E(l[k])) /\ s \in Seq(Range(s))
      <3> HIDE DEF m
      <3>1. m \in Nat
        BY <1>6 DEF m
      <3>2. s = [k \in 1..m |-> E(l[k])]
        BY <1>4, <1>8 DEF m
      <3>3. s = [k \in 1..m |-> s[k]]
        BY <3>2
      <3>4. Len(s) = m /\ s \in Seq(Range(s))
        BY <3>1, <3>3, ListIs
      <3> QED BY <3>2, <3>4
    <2>2. \A e : e \in Range(s) <=> \E k \in 1..m : e = E(l[k])
      BY <2>1 DEF Range
    <2>3. \A e : e \in Range(s) <=> \E i : RsdsThere(f, h, first, i) /\ e = E(i)
      BY <1>2, <1>5, <1>6, <2>2
    <2>4. s # <<>> => Head(s) \in Range(s)
      BY <2>1
    <2> QED BY <1>8, <2>3, <2>4 DEF s, first, E
  <1> QED BY <1>7, <1>8

SamePdb(e, of) == e.guid = of.guid /\ Cut(e.path, of.path)

LEMMA RsdsCut ==
    ASSUME NEW f, NEW g, IsCut(f, g), NEW h, HeaderTyped(h), NEW secs \in Seq(Sections),
           NEW e \in Range(RsdsList(f, h, secs))
    PROVE  \E of \in Range(RsdsList(g, h, secs)) : SamePdb(e, of)
  <1> DEFINE first == DirOffset(h, secs, DebugDir)
  <1>1. first # None /\ \E i : RsdsThere(f, h, first, i) /\ e = RsdsAt(f, RawAt(f, first, i))
    BY RsdsListIs
  <1>2. PICK i : RsdsThere(f, h, first, i) /\ e = RsdsAt(f, RawAt(f, first, i))
    BY <1>1
  <1>3. \A j : RsdsThere(g, h, first, j) => RsdsAt(g, RawAt(g, first, j)) \in Range(RsdsList(g, h, secs))
    BY <1>1, RsdsListIs
  <1>4. first \in Nat
    <2>1. first \in Nat \cup {None}
      BY DirOffsetTyped DEF DebugDir
    <2> QED BY <1>1, <2>1
  <1> HIDE DEF first
  <1> DEFINE at == DebugAt(first, i)
             raw == RawAt(f, first, i)
  <1>5. i \in Nat /\ IsRsds(f, first, i) /\ i < Dir(h, DebugDir).size \div Width["debug"]
    BY <1>2 DEF RsdsThere
  <1>6. at \in Nat
    <2>1. \A a, b, c \in Nat : a + b * c \in Nat
      OBVIOUS
    <2> QED BY <1>4, <1>5, <2>1, WidthsAre DEF DebugAt
  <1>7. Placed(f, "debug", at) = Placed(g, "debug", at) /\ raw \in Nat /\ raw = RawAt(g, first, i)
    <2>1. Placed(f, "debug", at) = Placed(g, "debug", at)
      BY PlacedSame
    <2>2. Placed(f, "debug", at) \in Structures["debug"]
      BY PlacedTyped, KindsAre
    <2>3. Placed(f, "debug", at).raw \in Nat
      <3> HIDE DEF at
      <3> QED BY <2>2 DEF Structures
    <2> QED BY <2>1, <2>3 DEF RawAt
  <1>8. Placed(f, "codeview", raw) = Placed(g, "codeview", raw)
    BY PlacedSame
  <1>9. /\ Fits(f, "debug", at) /\ Placed(f, "debug", at).codeview
        /\ Fits(f, "codeview", raw) /\ Placed(f, "codeview", raw).rsds
    BY <1>5 DEF IsRsds
  <1>10. Fits(g, "debug", at) /\ Fits(g, "codeview", raw)
    <2> HIDE DEF at, raw
    <2>1. Width["debug"] \in Nat /\ Width["codeview"] \in Nat
      BY WidthsAre
    <2> QED BY <1>6, <1>7, <1>9, <2>1, FitsMore
  <1>11. RsdsThere(g, h, first, i)
    BY <1>5, <1>7, <1>8, <1>9, <1>10 DEF RsdsThere, IsRsds
  <1>12. RsdsAt(g, raw) \in Range(RsdsList(g, h, secs))
    BY <1>3, <1>7, <1>11
  <1>13. SamePdb(e, RsdsAt(g, raw))
    <2> DEFINE p == raw + Width["codeview"]
    <2>1. p \in Nat
      <3>1. Width["codeview"] \in Nat
        BY WidthsAre
      <3> HIDE DEF raw
      <3> QED BY <1>7, <3>1
    <2>2. Cut(ReadStr(f, p), ReadStr(g, p))
      <3> HIDE DEF p
      <3> QED BY <2>1, ReadStrCut
    <2>3. e.guid = Placed(f, "codeview", raw).guid /\ e.path = ReadStr(f, p)
      BY <1>2 DEF RsdsAt
    <2>4. RsdsAt(g, raw).guid = Placed(f, "codeview", raw).guid /\ RsdsAt(g, raw).path = ReadStr(g, p)
      BY <1>8 DEF RsdsAt
    <2> QED BY <2>2, <2>3, <2>4 DEF SamePdb
  <1> QED BY <1>12, <1>13

-----------------------------------------------------------------------------
\* What load knows of the file: once parse_headers is through hdr is read from
\* it, once parse_sections is through all its section headers were there; the lists
\* are what the parsers that are through have found with those.
Found ==
    /\ file \in Files
    /\ step = "sections" => HeadersGood(file) /\ hdr = Header(file)
    /\ step \in {"imports", "exports", "debug", "loaded"} =>
           Parsed(file) /\ hdr = Header(file) /\ sections = SectionList(file, hdr)
    /\ step \in {"exports", "debug", "loaded"} => imports = ImportList(file, hdr, sections)
    /\ step \in {"debug", "loaded"} => exports = ExportList(file, hdr, sections)
    /\ pdb # NoPdb => step = "loaded" /\ pdb \in Range(RsdsList(file, hdr, sections))

LEMMA InitFound == LoadInit => Found
  BY DEF LoadInit, PEInit, Found

LEMMA HeaderIs == ASSUME NEW f \in Files, HeadersGood(f) PROVE HeaderTyped(Header(f))
  <1> DEFINE at == OptHeader(f)
             o == f.at["opt"][at]
  <1>1. at \in DOMAIN f.at["opt"]
    BY HeadersPlaced
  <1>2. o.base \in Nat /\ o.dirs \in Seq(Directories)
    BY <1>1, FilesAssumption
  <1>3. Header(f).base = o.base /\ Header(f).dirs = o.dirs
    BY DEF Header
  <1> QED BY <1>2, <1>3 DEF HeaderTyped

LEMMA FoundStep == Found /\ [LoadNext]_loadVars => Found'
  <1> SUFFICES ASSUME Found, [LoadNext]_loadVars PROVE Found'
    OBVIOUS
  <1>1. CASE UNCHANGED peVars
    BY <1>1 DEF peVars, Found
  <1>2. CASE OpenFile
    BY <1>2 DEF OpenFile, Found
  <1>3. CASE ParseHeaders
    BY <1>3 DEF ParseHeaders, Found
  <1>4. CASE ParseSections
    <2>1. /\ HeadersGood(file) /\ hdr = Header(file) /\ file \in Files /\ pdb = NoPdb
          /\ file' = file /\ hdr' = hdr /\ pdb' = pdb /\ sections' = SectionList(file, hdr)
          /\ step' = IF Len(sections') = hdr.count THEN "imports" ELSE "failed"
      BY <1>4 DEF ParseSections, Found
    <2>2. step' = "imports" => Parsed(file)
      BY <2>1 DEF Parsed
    <2>3. step' \in {"imports", "failed"}
      BY <2>1
    <2> QED BY <2>1, <2>2, <2>3 DEF Found
  <1>5. CASE ParseImports
    BY <1>5 DEF ParseImports, Found
  <1>6. CASE ParseExports
    BY <1>6 DEF ParseExports, Found
  <1>7. CASE ParseDebug
    <2> DEFINE rsds == RsdsList(file, hdr, sections)
    <2>1. step = "debug" /\ step' = "loaded" /\ UNCHANGED <<file, hdr, sections, imports, exports>>
          /\ pdb = NoPdb /\ pdb' = IF rsds = <<>> THEN pdb ELSE Head(rsds)
      BY <1>7 DEF ParseDebug, Found
    <2>2. HeaderTyped(hdr)
      BY <2>1, HeaderIs DEF Found, Parsed
    <2>3. rsds # <<>> => Head(rsds) \in Range(rsds)
      BY <2>2, RsdsListIs
    <2>4. pdb' # NoPdb => pdb' \in Range(rsds)
      BY <2>1, <2>3
    <2>5. rsds' = rsds
      BY <2>1
    <2> QED BY <2>1, <2>4 DEF Found
  <1> QED BY <1>1, <1>2, <1>3, <1>4, <1>5, <1>6, <1>7
          DEF LoadNext, LoadImage, Load, Build, Sweep, Stay, loadVars

\* What a loaded file is made of.
LEMMA LoadedFacts ==
    ASSUME Found, Loaded
    PROVE  /\ HeaderTyped(hdr) /\ sections \in Tables /\ WellFormed(sections)
           /\ file \in Files /\ Parsed(file) /\ hdr = Header(file) /\ sections = SectionList(file, hdr)
           /\ imports = ImportList(file, hdr, sections) /\ exports = ExportList(file, hdr, sections)
  <1>1. /\ file \in Files /\ Parsed(file) /\ hdr = Header(file) /\ sections = SectionList(file, hdr)
        /\ imports = ImportList(file, hdr, sections) /\ exports = ExportList(file, hdr, sections)
    BY DEF Found, Loaded
  <1>2. HeaderTyped(hdr)
    BY <1>1, HeaderIs DEF Parsed
  <1>3. sections \in Tables
    BY <1>1, TablesFound
  <1>4. WellFormed(sections)
    BY <1>3, TablesAssumption DEF WellFormed
  <1> QED BY <1>1, <1>2, <1>3, <1>4

LEMMA TablesUnwrapped ==
    ASSUME Found, Loaded
    PROVE  Unwrapped(sections, ExportDirectory(file, hdr, sections))
  <1>1. file \in Files /\ Parsed(file) /\ hdr = Header(file) /\ sections = SectionList(file, hdr)
    BY LoadedFacts
  <1> QED BY <1>1, NamesLinked DEF Unwrapped

-----------------------------------------------------------------------------
\* Each list of a cut file against the one of the whole file.
LEMMA CutListingHolds == Found => CutListing
  <1> SUFFICES ASSUME Found, Loaded PROVE CutListing
    BY DEF CutListing
  <1> DEFINE whole == Whole(file)
             all == ImportList(whole, hdr, sections)
  <1>1. HeaderTyped(hdr) /\ sections \in Seq(Sections) /\ file \in Files
        /\ imports = ImportList(file, hdr, sections) /\ exports = ExportList(file, hdr, sections)
    BY LoadedFacts DEF WellFormed
  <1>2. IsCut(file, whole)
    BY <1>1, WholeIs
  <1> HIDE DEF whole
  <1>3. ImportsCut(imports, all)
    BY <1>1, <1>2, ImportListCut
  <1>4. \A e \in Range(exports) : \E of \in Range(ExportList(whole, hdr, sections)) : SameExport(e, of)
    BY <1>1, <1>2, TablesUnwrapped, ExportListCut
  <1>5. pdb # NoPdb => \E of \in Range(RsdsList(whole, hdr, sections)) : SamePdb(pdb, of)
    BY <1>1, <1>2, RsdsCut DEF Found
  <1> HIDE DEF all
  <1>6. \A e \in Listing : e[1] \in 1..Len(imports) /\ e[2] \in 1..Len(imports[e[1]].functions)
    BY DEF Listing
  <1>7. \A e \in Listing : /\ SameImport(imports[e[1]].functions[e[2]], all[e[1]].functions[e[2]])
                           /\ Cut(imports[e[1]].dll, all[e[1]].dll)
    BY <1>3, <1>6 DEF ImportsCut
  <1>8. Len(imports) <= Len(all)
    BY <1>3 DEF ImportsCut
  <1> QED BY <1>4, <1>5, <1>7, <1>8 DEF CutListing, SameImport, SameExport, SamePdb, whole, all

-----------------------------------------------------------------------------
\* A name leads to the export at its index, the first name of an index back.
LEMMA NamesResolveHolds == Found => NamesResolve
  <1> SUFFICES ASSUME Found, Loaded, file.size = file.full, exports # <<>> PROVE NamesResolve
    BY DEF NamesResolve
  <1> DEFINE ed == ExportDirectory(file, hdr, sections)
             names == NamesByOrd(file, sections, ed)
             dir == Dir(hdr, ExportDir)
             X(i) == Export(file, sections, dir, ed, i)
             at == DirOffset(hdr, sections, ExportDir)
             there == /\ at # None /\ Fits(file, "exports", at)
                      /\ RvaToFileOffset(sections, ed.functions) # None
  <1>1. HeaderTyped(hdr) /\ sections \in Seq(Sections) /\ file \in Files
        /\ Parsed(file) /\ hdr = Header(file) /\ sections = SectionList(file, hdr)
        /\ exports = ExportList(file, hdr, sections)
    BY LoadedFacts DEF WellFormed
  <1>2. IsCut(file, file) /\ file.size \in Nat
    BY <1>1, WholeIs, CutOfItself DEF IsCut
  <1>3. ed \in Structures["exports"] /\ ed.nFuncs \in Nat
    BY <1>2, ExportFields, DirectoryFields
  <1>4. there
    BY <1>1 DEF ExportList
  <1>5. \A e : e \in Range(exports) <=> \E i : ListedAt(file, sections, ed, i) /\ e = X(i)
    <2>1. \A e : e \in Range(exports) <=> there /\ \E i : ListedAt(file, sections, ed, i) /\ e = X(i)
      BY <1>1, <1>2, ExportListIs
    <2> HIDE DEF there, X, ed
    <2> QED BY <1>4, <2>1
  <1>6. Len(names) \in Nat /\ DOMAIN names = 1..Len(names)
        /\ \A k \in 1..Len(names) : names[k] = <<names[k][1], names[k][2]>>
    <2>1. /\ Len(names) \in Nat /\ DOMAIN names = 1..Len(names)
          /\ ~HasNames(sections, ed) => names = <<>>
          /\ HasNames(sections, ed) =>
                 \A k \in 1..Len(names) : names[k] = NameAt(file, sections, ed, Named(file, sections, ed)[k])
      BY <1>1, <1>2, <1>3, NamesAre
    <2>2. \A i : NameAt(file, sections, ed, i) = <<NameAt(file, sections, ed, i)[1], NameAt(file, sections, ed, i)[2]>>
      BY DEF NameAt
    <2> HIDE DEF names, ed
    <2> QED BY <2>1, <2>2
  <1>7. \A i : /\ X(i).rva = FunctionRva(file, sections, ed, i)
               /\ X(i).ordinal = (ed.base + i) % W16
               /\ X(i).name = NameOf(names, i, ed)
    BY DEF Export
  <1>8. \A nb \in Range(names) : ListedAt(file, sections, ed, nb[1])
    <2> DEFINE s == Exported(file, sections, ed)
    <2>1. \A nb \in Range(names) : nb[1] \in Range(s)
      BY <1>1, NamesLinked
    <2>2. DOMAIN s = 1..Len(s) /\ \A k \in 1..Len(s) : ListedAt(file, sections, ed, s[k])
      BY <1>3, ExportedAre
    <2> HIDE DEF s, names, ed
    <2>3. \A i \in Range(s) : ListedAt(file, sections, ed, i)
      BY <2>2 DEF Range
    <2> QED BY <2>1, <2>3
  <1>9. \A nb : nb \in Range(names) <=> \E k \in 1..Len(names) : nb = names[k]
    <2> HIDE DEF names
    <2> QED BY <1>6 DEF Range
  <1> HIDE DEF X, names, ed, there, at, dir
  <1>10. ASSUME NEW nb \in Range(names)
         PROVE  \E e \in Range(exports) :
                    /\ e.rva = FunctionRva(file, sections, ed, nb[1]) /\ e.ordinal = (ed.base + nb[1]) % W16
                    /\ \E first \in Range(names) : first = <<nb[1], e.name>>
    <2>1. X(nb[1]) \in Range(exports)
      BY <1>5, <1>8, <1>10
    <2>2. PICK k \in 1..Len(names) : nb = names[k]
      BY <1>9, <1>10
    <2>3. PICK j \in 1..Len(names) : names[j][1] = nb[1] /\ NameOf(names, nb[1], ed) = names[j][2]
      BY <1>6, <2>2, NameOfIs
    <2>4. names[j] = <<nb[1], X(nb[1]).name>> /\ names[j] \in Range(names)
      BY <1>6, <1>7, <1>9, <2>3
    <2> QED BY <1>7, <2>1, <2>4
  <1>11. ASSUME NEW e \in Range(exports), e.name # NoText
         PROVE  \E nb \in Range(names) : nb[2] = e.name /\ FunctionRva(file, sections, ed, nb[1]) = e.rva
    <2>1. PICK i : e = X(i)
      BY <1>5, <1>11
    <2>2. PICK j \in 1..Len(names) : names[j][1] = i /\ NameOf(names, i, ed) = names[j][2]
      BY <1>6, <1>7, <1>11, <2>1, NameOfIs
    <2>3. names[j] \in Range(names)
      BY <1>9
    <2> QED BY <1>7, <2>1, <2>2, <2>3
  <1> QED BY <1>10, <1>11 DEF NamesResolve, ed, names

-----------------------------------------------------------------------------
\* The slots of the imports that are listed, as <<index of the descriptor, k>>.
FirstDesc == DirOffset(hdr, sections, ImportDir)
DescOf(m) == Desc(file, FirstDesc, m)
Slots == {x \in Range(Modules(file, sections, FirstDesc)) \X (0..file.size) :
              x[2] < CountWhile(file, Thunks(file, hdr, First(sections, DescOf(x[1]))))}
SlotRva(x) == DescOf(x[1]).iat + x[2] * Stride(hdr)
ReadFrom(x) == ThunkAt(file, hdr, First(sections, DescOf(x[1])), x[2])
SlotOf(e) == <<Modules(file, sections, FirstDesc)[e[1]], e[2] - 1>>
Import(e) == imports[e[1]].functions[e[2]]

LEMMA SlotsAre ==
    ASSUME Found, Loaded, FirstDesc # None
    PROVE  /\ \A x \in Slots : /\ SlotRva(x) < W32
                               /\ Placed(file, "thunk", RvaToFileOffset(sections, SlotRva(x))) = ReadFrom(x)
           /\ \A x, y \in Slots : SlotRva(x) = SlotRva(y) => x = y
  <1>1. file \in Files /\ Parsed(file) /\ hdr = Header(file) /\ sections = SectionList(file, hdr)
    BY LoadedFacts
  <1> QED BY <1>1, SlotsLinked DEF Slots, SlotRva, ReadFrom, DescOf, FirstDesc, First

LEMMA ListingIs ==
    ASSUME Found, Loaded, NEW e \in Listing
    PROVE  /\ FirstDesc # None /\ SlotOf(e) \in Slots
           /\ e[1] \in 1..Len(Modules(file, sections, FirstDesc)) /\ e[2] \in Nat
           /\ Import(e) = Imported(file, sections, ReadFrom(SlotOf(e)), hdr.base + SlotRva(SlotOf(e)))
           /\ SlotRva(SlotOf(e)) \in Nat
  <1> DEFINE listed == Modules(file, sections, FirstDesc)
             m == listed[e[1]]
             k == e[2] - 1
             desc == DescOf(m)
  <1>1. HeaderTyped(hdr) /\ sections \in Seq(Sections) /\ file \in Files
        /\ imports = ImportList(file, hdr, sections)
    BY LoadedFacts DEF WellFormed
  <1>2. IsCut(file, file) /\ file.size \in Nat
    BY <1>1, WholeIs, CutOfItself DEF IsCut
  <1>3. e[1] \in 1..Len(imports) /\ e[2] \in 1..file.size /\ e[2] <= Len(imports[e[1]].functions)
    BY DEF Listing
  <1>4. FirstDesc # None
    <2>1. FirstDesc = None => Len(imports) = 0
      BY <1>1, <1>2, ImportsAre DEF FirstDesc
    <2> QED BY <1>3, <2>1
  <1>5. /\ FirstDesc \in Nat /\ Len(imports) = Len(listed)
        /\ \A i \in 1..Len(imports) : imports[i] = Module(file, hdr, sections, DescOf(listed[i]))
    BY <1>1, <1>2, <1>4, ImportsAre DEF FirstDesc, DescOf
  <1>6. listed \in Seq(Nat) /\ \A i \in 1..Len(listed) : First(sections, DescOf(listed[i])) # None
    BY <1>1, <1>2, <1>5, ModulesAre DEF DescOf
  <1>7. \A i : DescOf(i) \in Structures["descriptor"]
    BY <1>2, <1>5, DescsMore DEF DescOf
  <1> HIDE DEF listed
  <1>8. e[1] \in 1..Len(listed) /\ m \in Range(listed) /\ DOMAIN listed = 1..Len(listed)
    <2>1. e[1] \in 1..Len(listed) /\ DOMAIN listed = 1..Len(listed)
      BY <1>3, <1>5, <1>6, LenProperties
    <2>2. \A i \in 1..Len(listed) : listed[i] \in Range(listed)
      BY <2>1 DEF Range
    <2> QED BY <2>1, <2>2
  <1>9. imports[e[1]].functions = Functions(file, hdr, sections, desc)
    <2>1. imports[e[1]] = Module(file, hdr, sections, desc)
      BY <1>3, <1>5
    <2>2. \A x : Module(file, hdr, sections, x).functions = Functions(file, hdr, sections, x)
      BY DEF Module
    <2> QED BY <2>1, <2>2
  <1>10. desc \in Structures["descriptor"] /\ First(sections, desc) \in Nat
    <2>1. desc \in Structures["descriptor"] /\ First(sections, desc) # None
      BY <1>6, <1>7, <1>8
    <2> HIDE DEF desc
    <2>2. First(sections, desc) \in Nat \cup {None}
      BY <1>1, <2>1, DescFields, OffsetTyped DEF First
    <2> QED BY <2>1, <2>2
  <1> DEFINE n == CountWhile(file, Thunks(file, hdr, First(sections, desc)))
             s == Functions(file, hdr, sections, desc)
  <1>11. n \in Nat /\ Len(s) = n /\ \A i \in 1..Len(s) : s[i] = Function(file, hdr, sections, desc, i)
    <2> HIDE DEF desc
    <2> QED BY <1>2, <1>10, FunctionsAre
  <1>12. e[2] \in Nat /\ e[2] \in 1..Len(s) /\ k \in 0..file.size /\ k < n /\ k \in Nat
    <2> HIDE DEF n, s, desc
    <2>1. e[2] \in 1..file.size /\ e[2] <= Len(s)
      BY <1>3, <1>9 DEF s
    <2> QED BY <1>2, <1>11, <2>1
  <1>13. s[e[2]] = Imported(file, sections, ReadFrom(SlotOf(e)), SlotVa(hdr, desc.iat, k))
    <2>1. SlotOf(e)[1] = m /\ SlotOf(e)[2] = k
      BY DEF SlotOf, listed
    <2>2. s[e[2]] = Function(file, hdr, sections, desc, e[2])
      BY <1>11, <1>12
    <2> QED BY <2>1, <2>2 DEF Function, ReadFrom
  <1>14. SlotRva(SlotOf(e)) = desc.iat + k * Stride(hdr)
    BY DEF SlotOf, SlotRva, listed
  <1>15. SlotVa(hdr, desc.iat, k) = hdr.base + (desc.iat + k * Stride(hdr))
         /\ desc.iat + k * Stride(hdr) \in Nat
    <2> DEFINE w == Stride(hdr)
               x == k * w
               i == desc.iat
    <2>1. x \in Nat
      <3>1. \A a, b \in Nat : a * b \in Nat
        OBVIOUS
      <3>2. w \in Nat
        BY WidthsAre
      <3> HIDE DEF w
      <3> QED BY <1>12, <3>1, <3>2
    <2>2. hdr.base \in Nat /\ i \in Nat
      BY <1>1, <1>10, DescFields DEF HeaderTyped
    <2>3. SlotVa(hdr, i, k) = (hdr.base + i) + x
      BY DEF SlotVa
    <2> HIDE DEF x, i
    <2>4. SlotVa(hdr, i, k) = hdr.base + (i + x) /\ i + x \in Nat
      BY <2>1, <2>2, <2>3
    <2> QED BY <2>4 DEF x, i
  <1>16. Import(e) = s[e[2]]
    BY <1>9 DEF Import
  <1>17. SlotOf(e) \in Slots
    <2>1. SlotOf(e) = <<m, k>>
      BY DEF SlotOf, listed
    <2>2. <<m, k>> \in Range(listed) \X (0..file.size)
      BY <1>8, <1>12
    <2>3. k < CountWhile(file, Thunks(file, hdr, First(sections, DescOf(m))))
      BY <1>12
    <2> HIDE DEF m, k
    <2> QED BY <2>1, <2>2, <2>3 DEF Slots, listed
  <1>18. Import(e) = Imported(file, sections, ReadFrom(SlotOf(e)), hdr.base + SlotRva(SlotOf(e)))
         /\ SlotRva(SlotOf(e)) \in Nat
    BY <1>13, <1>14, <1>15, <1>16
  <1> QED BY <1>4, <1>8, <1>12, <1>17, <1>18 DEF listed

LEMMA ImportAddress ==
    ASSUME NEW f, NEW secs, NEW thunk, NEW va
    PROVE  Imported(f, secs, thunk, va).iat_va = va
  BY DEF Imported

\* Two entries of the listing have slots of their own.
LEMMA OwnSlot ==
    ASSUME Found, Loaded, NEW e \in Listing, NEW d \in Listing, Import(e).iat_va = Import(d).iat_va
    PROVE  e = d
  <1> DEFINE listed == Modules(file, sections, FirstDesc)
             a == SlotRva(SlotOf(e))
             b == SlotRva(SlotOf(d))
  <1>1. /\ FirstDesc # None /\ SlotOf(e) \in Slots /\ e[1] \in 1..Len(listed) /\ e[2] \in Nat
        /\ a \in Nat /\ Import(e).iat_va = hdr.base + a
    BY ListingIs, ImportAddress
  <1>2. /\ SlotOf(d) \in Slots /\ d[1] \in 1..Len(listed) /\ d[2] \in Nat
        /\ b \in Nat /\ Import(d).iat_va = hdr.base + b
    BY ListingIs, ImportAddress
  <1>3. hdr.base \in Nat
    BY LoadedFacts DEF HeaderTyped
  <1>4. a = b
    <2> HIDE DEF a, b
    <2>1. \A x, y, z \in Nat : z + x = z + y => x = y
      OBVIOUS
    <2>2. hdr.base + a = hdr.base + b
      BY <1>1, <1>2
    <2> QED BY <1>1, <1>2, <1>3, <2>1, <2>2
  <1>5. SlotOf(e) = SlotOf(d)
    BY <1>1, <1>2, <1>4, SlotsAre
  <1>6. listed[e[1]] = listed[d[1]] /\ e[2] = d[2]
    BY <1>1, <1>2, <1>5 DEF SlotOf
  <1>7. listed \in Seq(Nat) /\ Ascends(listed)
    <2>1. HeaderTyped(hdr) /\ sections \in Seq(Sections) /\ file \in Files
      BY LoadedFacts DEF WellFormed
    <2>2. IsCut(file, file)
      BY <2>1, WholeIs, CutOfItself
    <2>3. FirstDesc \in Nat
      <3>1. FirstDesc \in Nat \cup {None}
        BY <2>1, DirOffsetTyped DEF FirstDesc, ImportDir
      <3> QED BY <1>1, <3>1
    <2> QED BY <2>1, <2>2, <2>3, ModulesAre
  <1> HIDE DEF listed
  <1>8. e[1] = d[1]
    <2>1. Len(listed) \in Nat /\ listed[e[1]] \in Nat /\ listed[d[1]] \in Nat
      BY <1>1, <1>2, <1>7, LenProperties, ElementOfSeq
    <2>2. ~(e[1] < d[1]) /\ ~(d[1] < e[1])
      BY <1>1, <1>2, <1>6, <1>7, <2>1 DEF Ascends
    <2> QED BY <1>1, <1>2, <2>1, <2>2
  <1>9. e = <<e[1], e[2]>> /\ d = <<d[1], d[2]>>
    <2>1. \A A, B : \A x \in A \X B : x = <<x[1], x[2]>>
      OBVIOUS
    <2>2. e \in (1..Len(imports)) \X (1..file.size) /\ d \in (1..Len(imports)) \X (1..file.size)
      BY DEF Listing
    <2> QED BY <2>1, <2>2
  <1> QED BY <1>6, <1>8, <1>9

LEMMA SlotsHold == Found => SlotsHoldThunks
  <1> SUFFICES ASSUME Found, Loaded PROVE SlotsHoldThunks
    BY DEF SlotsHoldThunks
  <1>1. ASSUME NEW e \in Listing
        PROVE  Import(e) = Imported(file, sections, Placed(file, "thunk",
                               RvaToFileOffset(sections, VaToRva(hdr.base, Import(e).iat_va))), Import(e).iat_va)
    <2> DEFINE a == SlotRva(SlotOf(e))
               va == hdr.base + a
    <2>1. /\ FirstDesc # None /\ SlotOf(e) \in Slots /\ a \in Nat
          /\ Import(e) = Imported(file, sections, ReadFrom(SlotOf(e)), va) /\ Import(e).iat_va = va
      BY ListingIs, ImportAddress
    <2>2. a < W32 /\ Placed(file, "thunk", RvaToFileOffset(sections, a)) = ReadFrom(SlotOf(e))
      BY <2>1, SlotsAre
    <2>3. VaToRva(hdr.base, va) = a
      <3>1. hdr.base \in Nat
        BY LoadedFacts DEF HeaderTyped
      <3> HIDE DEF a
      <3>2. ~(va < hdr.base) /\ va - hdr.base = a /\ ~(a >= W32)
        BY <2>1, <2>2, <3>1, W32Assumption
      <3> QED BY <3>2 DEF VaToRva
    <2> QED BY <2>1, <2>2, <2>3
  <1> DEFINE F(e) == Import(e).iat_va
             T == {F(e) : e \in Listing}
             f == [e \in Listing |-> F(e)]
  <1>2. IsFiniteSet(Listing)
    <2> DEFINE A == 1..Len(imports)
               B == 1..file.size
    <2>1. Len(imports) \in Nat /\ file.size \in Nat
      <3>1. HeaderTyped(hdr) /\ sections \in Seq(Sections) /\ file \in Files
            /\ imports = ImportList(file, hdr, sections)
        BY LoadedFacts DEF WellFormed
      <3>2. IsCut(file, file)
        BY <3>1, WholeIs, CutOfItself
      <3> QED BY <3>1, <3>2, ImportsAre DEF IsCut
    <2>2. IsFiniteSet(A) /\ IsFiniteSet(B)
      BY <2>1, FS_Interval
    <2>3. Listing \in SUBSET (A \X B)
      BY DEF Listing
    <2> HIDE DEF A, B
    <2>4. IsFiniteSet(A \X B)
      BY <2>2, FS_Product
    <2> QED BY <2>3, <2>4, FS_Subset
  <1>3. \A e, d \in Listing : F(e) = F(d) => e = d
    BY OwnSlot
  <1> HIDE DEF F
  <1>4. f \in Surjection(Listing, T) /\ f \in Injection(Listing, T)
    BY <1>3 DEF Surjection, Injection, IsInjective
  <1> HIDE DEF f, T
  <1>5. Cardinality(T) = Cardinality(Listing)
    BY <1>2, <1>4, FS_Surjection
  <1> QED BY <1>1, <1>5 DEF SlotsHoldThunks, Import, F, T

-----------------------------------------------------------------------------
\* Every step of a load is one of the sweep, leaves it alone or starts it afresh
\* over the sections that were found.
LEMMA LoadIsSweep == Found /\ [LoadNext]_loadVars => [Next]_vars \/ Init'
  <1> SUFFICES ASSUME Found, [LoadNext]_loadVars PROVE [Next]_vars \/ Init'
    OBVIOUS
  <1>1. CASE LoadImage
    BY <1>1 DEF LoadImage
  <1>2. CASE Build
    <2>1. Loaded /\ table' = sections /\ sec' = 1 /\ off' = 0 /\ entries' = <<>>
      BY <1>2 DEF Build
    <2> QED BY <2>1, LoadedFacts DEF Init
  <1>3. CASE Sweep
    BY <1>3 DEF Sweep, Next
  <1>4. CASE UNCHANGED loadVars
    BY <1>4 DEF loadVars
  <1> QED BY <1>1, <1>2, <1>3, <1>4 DEF LoadNext, Stay

\* The same for the image that is loaded, whatever file it is and wherever the
\* load stops: until the sweep begins the index is empty, then its rows ascend,
\* tile the code, agree with the image's section table and are found.
THEOREM LoadedCorrect ==
    LoadSpec => [](Ascending /\ Tiles /\ OffsetsAgree /\ SearchesAgree /\ OffsetsInjective)
  <1> DEFINE Inv == IInv /\ TInv /\ RowsPlaced
             Good == Ascending /\ Tiles /\ OffsetsAgree /\ SearchesAgree /\ OffsetsInjective
  <1>1. Init => Inv
    BY InitIInv, InitTInv, InitPlaced
  <1>2. Inv /\ [Next]_vars => Inv'
    BY StepIInv, TilesStep, PlacedStep
  <1>3. Inv => Good
    BY TInvHolds, PlacedHolds, SearchesHold, TableHolds DEF IInv
  <1>4. LoadInit => Init
    BY TablesFound DEF LoadInit, Init
  <1> HIDE DEF Inv, Good
  <1>5. LoadSpec => []Good
    BY <1>1, <1>2, <1>3, <1>4, InitFound, FoundStep, LoadIsSweep, PTL DEF LoadSpec
  <1> QED BY <1>5 DEF Good

\* Every file a linker can have written, cut short anywhere: what is listed of it is
\* listed of the whole file too, at the same slots and ordinals, with names at most
\* cut off.
THEOREM CutListingCorrect == LoadSpec => []CutListing
  <1> QED BY InitFound, FoundStep, CutListingHolds, PTL DEF LoadSpec

\* The export names of a file that is not cut resolve as they do for GetProcAddress,
\* although they are listed from the functions to the names.
THEOREM NamesResolveCorrect == LoadSpec => []NamesResolve
  <1> QED BY InitFound, FoundStep, NamesResolveHolds, PTL DEF LoadSpec

\* Every import is listed at the slot that holds its thunk, in images of both kinds
\* and under whatever names, and no two at one slot.
THEOREM SlotsHoldThunksCorrect == LoadSpec => []SlotsHoldThunks
  <1> QED BY InitFound, FoundStep, SlotsHold, PTL DEF LoadSpec
=============================================================================
