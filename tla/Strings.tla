------------------------------ MODULE Strings ------------------------------
(***************************************************************************)
(* analysis::Strings::scan (analysis/Strings.cpp): in the bytes of each    *)
(* readable section that is not code, the runs of printable ASCII, then    *)
(* the runs of printable UTF-16 units.  A string is [va, length, wide,     *)
(* text]; the text's bytes are those of the section or their UTF-8 form.   *)
(***************************************************************************)
EXTENDS Integers, SequencesExt

CONSTANTS Images,     \* section tables with their raw bytes
          MinLen      \* min_len

Sections == [va : Nat, readable : BOOLEAN, executable : BOOLEAN, bytes : Seq(0..255)]

ASSUME ImagesAssumption == \A image \in Images : image \in Seq(Sections)
ASSUME LengthAssumption == MinLen \in Nat \ {0}

VARIABLES image,      \* image.sections(), base added to their addresses
          sec,        \* the section the loop is at
          strings     \* m_strings
scanVars == <<image, sec, strings>>

At(bytes, k) == bytes[k + 1]       \* the source's offsets start at 0

IsPrintableAscii(c) == c \in 32..126 \cup {9, 10, 13}
IsPrintableWc(c) ==
    IF c < 32 THEN c \in {9, 10, 13}
    ELSE c # 127 /\ c \notin 55296..57343 /\ c < 65534

\* Both loops list a run of n characters if it is long enough.  Mutant: only
\* longer ones.
LongerThanMin(n) == n > MinLen
LongEnough(n) == n >= MinLen

-----------------------------------------------------------------------------
\* utf16_to_utf8: the bytes of a code point, and of units, where two surrogates
\* are one code point.  Mutant: two bytes are thought to hold 12 bits.
EncodedTwelve(cp) ==
    IF cp < 128 THEN <<cp>>
    ELSE IF cp < 4096 THEN <<192 + (cp \div 64), 128 + (cp % 64)>>
    ELSE <<224 + (cp \div 4096), 128 + ((cp \div 64) % 64), 128 + (cp % 64)>>
Encoded(cp) ==
    IF cp < 128 THEN <<cp>>
    ELSE IF cp < 2048 THEN <<192 + (cp \div 64), 128 + (cp % 64)>>
    ELSE IF cp < 65536 THEN <<224 + (cp \div 4096), 128 + ((cp \div 64) % 64), 128 + (cp % 64)>>
    ELSE <<240 + (cp \div 262144), 128 + ((cp \div 4096) % 64),
           128 + ((cp \div 64) % 64), 128 + (cp % 64)>>

Utf8(units) ==
    LET n == Len(units)
        Pair(i) == i < n /\ units[i] \in 55296..56319 /\ units[i + 1] \in 56320..57343
        From[i \in 1..(n + 1)] ==
            IF i > n THEN <<>>
            ELSE IF Pair(i)
            THEN Encoded(65536 + (units[i] - 55296) * 1024 + (units[i + 1] - 56320)) \o From[i + 2]
            ELSE Encoded(units[i]) \o From[i + 1]
    IN  From[1]

-----------------------------------------------------------------------------
\* Both loops, over n bytes in units of w: text has the offsets of printable
\* units.  Stop[q]: the first offset from q on without one; From[q]: the runs
\* found from q on, as <<from, to>>, the unit that stopped a run skipped.
RunsFound(n, w, text) ==
    LET Stop[q \in 0..n] == IF q \in text THEN Stop[q + w] ELSE q
        From[q \in 0..n] ==
            IF q + w > n THEN <<>>
            ELSE LET e == Stop[q]
                 IN  (IF LongEnough((e - q) \div w) THEN <<<<q, e>>>> ELSE <<>>)
                     \o From[IF e + w <= n THEN e + w ELSE e]
    IN  From[0]

AsciiUnits(bytes) == {k \in 0..(Len(bytes) - 1) : IsPrintableAscii(At(bytes, k))}
AsciiRuns(va0, bytes) ==
    LET runs == RunsFound(Len(bytes), 1, AsciiUnits(bytes))
    IN  [i \in 1..Len(runs) |->
            [va |-> va0 + runs[i][1], length |-> runs[i][2] - runs[i][1], wide |-> FALSE,
             text |-> SubSeq(bytes, runs[i][1] + 1, runs[i][2])]]

\* The UTF-16LE loop: two bytes at a time from the start of the section; a zero
\* or unprintable unit ends a run and is skipped.
Unit(bytes, k) == At(bytes, k) + 256 * At(bytes, k + 1)
WideUnits(bytes) ==
    {k \in 0..(Len(bytes) - 2) : Unit(bytes, k) # 0 /\ IsPrintableWc(Unit(bytes, k))}
WideRuns(va0, bytes) ==
    LET runs == RunsFound(Len(bytes), 2, WideUnits(bytes))
        Length(r) == (r[2] - r[1]) \div 2
    IN  [i \in 1..Len(runs) |->
            [va |-> va0 + runs[i][1], length |-> Length(runs[i]), wide |-> TRUE,
             text |-> Utf8([k \in 1..Length(runs[i]) |-> Unit(bytes, runs[i][1] + 2 * (k - 1))])]]

\* The body of the loop of scan.  Mutant: code is scanned as well.
ScanAll(s) ==
    IF ~s.readable \/ s.bytes = <<>> THEN <<>>
    ELSE AsciiRuns(s.va, s.bytes) \o WideRuns(s.va, s.bytes)
ScanSection(s) ==
    IF ~s.readable \/ s.executable \/ s.bytes = <<>> THEN <<>>
    ELSE AsciiRuns(s.va, s.bytes) \o WideRuns(s.va, s.bytes)

Done == sec > Len(image)

ScanInit == image \in Images /\ sec = 1 /\ strings = <<>>
Scan ==
    /\ ~Done
    /\ strings' = strings \o ScanSection(image[sec])
    /\ sec' = sec + 1
    /\ UNCHANGED image
Scanned == Done /\ UNCHANGED scanVars
ScanNext == Scan \/ Scanned
ScanSpec == ScanInit /\ [][ScanNext]_scanVars

-----------------------------------------------------------------------------
\* The definition the loops are checked against: the maximal runs, as <<from,
\* to>>, of at least MinLen units of size w, at multiples of w.
Runs(n, w, text) ==
    LET starts == {k \in 0..(n - w) : k % w = 0}
    IN  {r \in starts \X (0..n) :
            /\ r[2] - r[1] >= w * MinLen /\ (r[2] - r[1]) % w = 0
            /\ \A k \in starts : r[1] <= k /\ k < r[2] => k \in text
            /\ r[1] - w \notin text /\ r[2] \notin text}

\* The characters of a UTF-8 text, by the length its lead bytes announce.
Characters(text) ==
    LET n == Len(text)
        Low(k) == IF k <= n THEN text[k] % 64 ELSE 0
        From[k \in 1..(n + 3)] ==
            IF k > n THEN <<>>
            ELSE IF text[k] < 128 THEN <<text[k]>> \o From[k + 1]
            ELSE IF text[k] < 224 THEN <<(text[k] % 32) * 64 + Low(k + 1)>> \o From[k + 2]
            ELSE <<(text[k] % 16) * 4096 + Low(k + 1) * 64 + Low(k + 2)>> \o From[k + 3]
    IN  From[1]

\* All strings of the sections passed: <<section, wide, run>>.
Data == {i \in 1..(sec - 1) : image[i].readable /\ ~image[i].executable}
TextOf(i) ==
    ({<<i, FALSE>>} \X Runs(Len(image[i].bytes), 1, AsciiUnits(image[i].bytes))) \cup
    ({<<i, TRUE>>} \X Runs(Len(image[i].bytes), 2, WideUnits(image[i].bytes)))
Listable == UNION {TextOf(i) : i \in Data}

Lists(t, s, wide, r) ==
    LET w == IF wide THEN 2 ELSE 1
        n == (r[2] - r[1]) \div w
        Char(k) == IF wide THEN Unit(s.bytes, r[1] + 2 * (k - 1)) ELSE At(s.bytes, r[1] + k - 1)
    IN  /\ t.va = s.va + r[1] /\ t.wide = wide /\ t.length = n
        /\ Characters(t.text) = [k \in 1..n |-> Char(k)]

\* Every ASCII string of the sections passed, and every UTF-16 string at an even
\* offset of its section, is listed with its address, its length in characters
\* (Strings.h:13) and a text that decodes to its characters, whatever run it
\* follows or touches and however many bytes a character takes.
AlignedListed ==
    \A x \in Listable : \E t \in Range(strings) : Lists(t, image[x[1][1]], x[1][2], x[2])

\* Strings.cpp:88 says of the UTF-16 loop that it scans unaligned.  Then a UTF-16
\* string at an odd offset is listed too, at least where none at an even offset
\* overlaps it; but the loop only ever advances by two bytes.
UnalignedRuns(bytes) ==
    LET n == Len(bytes)
        text == WideUnits(bytes)
    IN  {r \in (0..n) \X (0..n) :
            /\ r[2] - r[1] >= 2 * MinLen /\ (r[2] - r[1]) % 2 = 0
            /\ \A k \in r[1]..(r[2] - 1) : (k - r[1]) % 2 = 0 => k \in text
            /\ r[1] - 2 \notin text /\ r[2] \notin text
            /\ \A q \in Runs(n, 2, text) : q[2] <= r[1] \/ r[2] <= q[1]}
UnalignedListed ==
    \A i \in Data : \A r \in UnalignedRuns(image[i].bytes) :
        \E t \in Range(strings) : Lists(t, image[i], TRUE, r)

\* Nothing else is listed, nothing twice, and nothing from code.
NoneInvented == Len(strings) = Cardinality(Listable)
=============================================================================
