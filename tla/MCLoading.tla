----------------------------- MODULE MCLoading -----------------------------
(* Three addresses and the code of four images: branches of every kind to     *)
(* them, with and without memory operands, and bytes that do not decode.  And *)
(* all sections of up to six bytes over NUL, CR, a letter and 0xD8, which is  *)
(* printable as a unit's low byte and makes a surrogate as its high byte.     *)
EXTENDS Loading, TLC

CONSTANTS n1, n2,
          MaxBytes     \* bound: bytes of a section

MCName == {n1, n2}
MCSymmetry == Permutations(MCName)
MCAddr == 0..2
Instr(addr, decodes, category, imm, mem) ==
    [addr |-> addr, decodes |-> decodes, category |-> category, imm |-> imm, mem |-> mem]
Op(target, access) == [target |-> target, access |-> access]

MCCodes ==
    {<<>>,
     <<Instr(0, TRUE, "CALL", 2, <<>>), Instr(1, TRUE, "COND_BR", 0, <<>>),
       Instr(2, TRUE, "UNCOND_BR", 2, <<>>)>>,
     <<Instr(0, FALSE, "CALL", 1, <<>>), Instr(1, TRUE, "CALL", None, <<Op(0, "read")>>),
       Instr(2, TRUE, "CALL", 1, <<>>)>>,
     <<Instr(0, TRUE, "OTHER", None, <<Op(2, "write"), Op(2, "read")>>),
       Instr(1, TRUE, "OTHER", 1, <<Op(2, "lea")>>), Instr(2, TRUE, "CALL", 0, <<>>)>>}

Contents(n) == UNION {[1..k -> {0, 13, 65, 216}] : k \in 0..n}
Section(va, readable, executable, bytes) ==
    [va |-> va, readable |-> readable, executable |-> executable, bytes |-> bytes]

\* Only code; or one data section with any contents; or a second one behind a
\* short section with any flags.
MCCodeImage == <<Section(0, TRUE, TRUE, <<65, 65, 65>>)>>
MCImages ==
    {MCCodeImage} \cup
    {<<Section(16, TRUE, FALSE, b)>> : b \in Contents(MaxBytes)} \cup
    {<<Section(16, readable, executable, a), Section(32, TRUE, FALSE, b)>> :
        readable \in BOOLEAN, executable \in BOOLEAN, a \in Contents(3), b \in Contents(2)}

\* Names and rows are for the image that has only code, any data sections for
\* a file without names.
OneAtATime == image = MCCodeImage \/ (code = <<>> /\ offers = <<>>)
=============================================================================
