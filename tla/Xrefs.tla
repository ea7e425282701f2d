------------------------------- MODULE Xrefs -------------------------------
(***************************************************************************)
(* analysis::Xrefs (analysis/Xrefs.cpp): the references each instruction   *)
(* makes, and the table of references to an address.  An instruction is    *)
(* [addr, decodes, category, imm, mem]: imm is the target of its first     *)
(* relative immediate (None without one), mem its RIP-relative memory      *)
(* operands with a displacement, in operand order, as [target, access].    *)
(***************************************************************************)
EXTENDS Integers, SequencesExt

None == -1

Category == {"CALL", "UNCOND_BR", "COND_BR", "OTHER"}
Access == {"lea", "read", "write"}
Kind == {"Call", "Jump", "Cond", "DataLea", "DataRead", "DataWrite"}
Instruction(Addr) ==
    [addr : Addr, decodes : BOOLEAN, category : Category, imm : Addr \cup {None},
     mem : Seq([target : Addr, access : Access])]

IsBranch(category) == category \in {"CALL", "UNCOND_BR", "COND_BR"}
CodeKind(category) ==
    CASE category = "CALL" -> "Call" [] category = "COND_BR" -> "Cond" [] OTHER -> "Jump"
DataKind(access) ==
    CASE access = "lea" -> "DataLea" [] access = "write" -> "DataWrite" [] OTHER -> "DataRead"

\* What one entry of the index adds, in order: <<target, reference>> pairs.
CodeRefs(in) ==
    IF IsBranch(in.category) /\ in.imm # None
    THEN <<<<in.imm, [from |-> in.addr, kind |-> CodeKind(in.category)]>>>> ELSE <<>>
DataRefs(in) ==
    [i \in 1..Len(in.mem) |->
        <<in.mem[i].target, [from |-> in.addr, kind |-> DataKind(in.mem[i].access)]>>]
RefsOf(in) == IF in.decodes THEN CodeRefs(in) \o DataRefs(in) ELSE <<>>

\* m_to[abs].push_back, for every pair of one entry.  Mutant: the last
\* reference to an address replaces the earlier ones.
NoRefs == [a \in {} |-> <<>>]
RefsTo(m, a) == IF a \in DOMAIN m THEN m[a] ELSE <<>>
PutRef(m, ref) == [a \in DOMAIN m \cup {ref[1]} |-> IF a = ref[1] THEN <<ref[2]>> ELSE m[a]]
PushRef(m, ref) ==
    [a \in DOMAIN m \cup {ref[1]} |->
        IF a = ref[1] THEN Append(RefsTo(m, a), ref[2]) ELSE m[a]]
AddRefs(m, in) == FoldLeft(PushRef, m, RefsOf(in))
=============================================================================
