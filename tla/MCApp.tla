------------------------------- MODULE MCApp -------------------------------
(* Two images over the addresses 1 and 2: one whose code starts at both, one  *)
(* whose first address is data or the middle of an instruction.  NoAddr is    *)
(* above them, as UINT64_MAX is.                                              *)
EXTENDS App, TLC

CONSTANTS d1, d2

MCDoc == {d1, d2}
RealAddr == {1, 2}
AnyAddr == RealAddr \cup {NoAddr}
MCEntry == d1 :> 1 @@ d2 :> 2
MCRow == d1 :> {1, 2} @@ d2 :> {2}
MCBeyond == d1 :> {} @@ d2 :> {1}   \* behind the raw bytes of its section

\* Every address of an image has raw bytes; or address 2 of d1, a row in the
\* padding behind the virtual size, belongs to no section.
AllBytes == [d \in MCDoc |-> [a \in AnyAddr |-> IF a = NoAddr THEN 0 ELSE 1]]
SomeBytes == [AllBytes EXCEPT ![d1] = [@ EXCEPT ![2] = 0]]
=============================================================================
