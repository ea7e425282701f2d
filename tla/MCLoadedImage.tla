--------------------------- MODULE MCLoadedImage ---------------------------
(* Small images of both kinds, whole and cut short at every size: code with   *)
(* padded raw data, with an uninitialized tail, with a zero virtual size,     *)
(* data before and between code, no sections at all.  Each imports from three *)
(* modules (with, without and with an unmapped name table), exports functions *)
(* with two names, one, none and a forwarder, and has four debug entries.     *)
EXTENDS LoadedImage, TLC

MCWidth == [dos |-> 1, sig |-> 1, file |-> 1, magic |-> 1, opt32 |-> 2, opt64 |-> 3, section |-> 1,
            descriptor |-> 1, thunk32 |-> 1, thunk64 |-> 2, hint |-> 1, exports |-> 1, rva |-> 1,
            ordinal |-> 1, debug |-> 1, codeview |-> 1]

Sec(va, vsize, raw, rsize, exec) ==
    [va |-> va, vsize |-> vsize, raw |-> raw, rsize |-> rsize, exec |-> exec]
Array(at, width, seq) ==
    [x \in {at + width * (i - 1) : i \in 1..Len(seq)} |-> seq[(x - at) \div width + 1]]
Text(of, n) == [of |-> of, chars |-> n]
Thunk(byOrdinal, value) == [byOrdinal |-> byOrdinal, value |-> value]

\* The tables of an image from offset o on, mapped at o + d; w is the size of a
\* thunk, code an address for its exports, lost one that is not mapped.
Image(magic, secs, dirs, o, d, code, lost) ==
    LET w == IF magic = 64 THEN 2 ELSE 1
        p == o + 5 + 8 * w
        opt == w + 1
        R(x) == x + d
        thunks == <<Thunk(FALSE, R(p + 13)), Thunk(TRUE, 7)>>
        all == <<[rva |-> R(o), size |-> p + 36 - o], [rva |-> R(o + 1), size |-> 4]>>
               \o [i \in 1..4 |-> [rva |-> 0, size |-> 0]] \o <<[rva |-> R(p + 36), size |-> 4]>>
    IN  [size |-> p + 50, full |-> p + 50,
         at |-> [dos |-> 0 :> [mz |-> TRUE, lfanew |-> 1], sig |-> 1 :> TRUE,
                 file |-> 2 :> [sections |-> Len(secs), optSize |-> opt],
                 magic |-> 3 :> magic, opt |-> 3 :> [base |-> Base, dirs |-> SubSeq(all, 1, dirs)],
                 section |-> Array(3 + opt, 1, secs),
                 exports |-> o :> [functions |-> R(p + 3), names |-> R(p + 7), ordinals |-> R(p + 10),
                                   nFuncs |-> 4, nNames |-> 3, base |-> 14],
                 descriptor |-> Array(o + 1, 1,
                     <<[int |-> R(o + 5), dll |-> R(p + 21), iat |-> R(o + 5 + 3 * w)],
                       [int |-> lost, dll |-> R(p + 21), iat |-> R(o + 5)],
                       [int |-> 0, dll |-> R(p + 24), iat |-> R(o + 5 + 6 * w)]>>),
                 thunk |-> Array(o + 5, w, thunks) @@ Array(o + 5 + 3 * w, w, thunks)
                           @@ Array(o + 5 + 6 * w, w, <<Thunk(FALSE, R(p + 17))>>),
                 rva |-> Array(p + 3, 1, <<code, 0, code + 1, R(p + 33)>>)
                         @@ Array(p + 7, 1, <<R(p + 27), R(p + 30), R(p)>>),
                 ordinal |-> Array(p + 10, 1, <<2, 0, 2>>),
                 hint |-> p + 13 :> 1 @@ p + 17 :> 2,
                 debug |-> Array(p + 36, 1,
                     <<[codeview |-> FALSE, raw |-> p + 41], [codeview |-> TRUE, raw |-> p + 40],
                       [codeview |-> TRUE, raw |-> p + 45], [codeview |-> TRUE, raw |-> p + 41]>>),
                 codeview |-> p + 41 :> [rsds |-> TRUE, guid |-> 1] @@ p + 45 :> [rsds |-> TRUE, guid |-> 2]],
         text |-> p :> Text("b", 2) @@ p + 14 :> Text("f", 2) @@ p + 18 :> Text("g", 2)
                  @@ p + 21 :> Text("dll1", 2) @@ p + 24 :> Text("dll2", 2) @@ p + 27 :> Text("a", 2)
                  @@ p + 30 :> Text("c", 2) @@ p + 33 :> Text("forward", 2)
                  @@ p + 42 :> Text("pdb1", 2) @@ p + 46 :> Text("pdb2", 4)]

SectionsA == <<Sec(12, 5, 9, 6, TRUE), Sec(20, 80, 15, 71, FALSE), Sec(104, 8, 86, 5, TRUE)>>
SectionsB == <<Sec(11, 0, 9, 4, TRUE), Sec(16, 3, 13, 0, TRUE), Sec(20, 70, 13, 63, FALSE),
               Sec(92, 2, 76, 6, TRUE)>>
SectionsD == <<Sec(10, 66, 8, 63, FALSE), Sec(80, 5, 71, 7, TRUE), Sec(90, 2, 78, 2, FALSE)>>
MCTables == {<<>>, SectionsA, SectionsB, SectionsD}

\* The last section of an image may lie behind its tables.
Ending(f, size) == [f EXCEPT !.size = size, !.full = size]
ImageA == Ending(Image(64, SectionsA, 7, 15, 5, 12, 110), 91)
ImageB == Ending(Image(32, SectionsB, 7, 13, 7, 11, 17), 82)
ImageC == Image(64, <<>>, 7, 6, 0, 2, 127)
ImageD == Ending(Image(32, SectionsD, 2, 8, 2, 80, 74), 80)
NoImages == {[ImageA EXCEPT !.at.magic = 3 :> 7], [ImageB EXCEPT !.at.sig = 1 :> FALSE],
             [ImageD EXCEPT !.at.dos = 0 :> [mz |-> FALSE, lfanew |-> 1]]}
MCFiles == {[f EXCEPT !.size = n] : f \in {ImageA, ImageB, ImageC, ImageD}, n \in 0..91} \cup NoImages
WholeOrCut == {f \in MCFiles : f.size <= f.full}
=============================================================================
