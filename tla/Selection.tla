----------------------------- MODULE Selection -----------------------------
(***************************************************************************)
(* The elements of a list that are members of a set, in their order: the   *)
(* loop over a vector that pushes those that pass onto another one.        *)
(* SelectSeq by a set, as a recursive function the provers can expand.     *)
(***************************************************************************)
EXTENDS Naturals, Sequences

Kept(s, K) ==
    LET upto[n \in 0..Len(s)] ==
            IF n = 0 THEN <<>>
            ELSE IF s[n] \in K THEN Append(upto[n - 1], s[n]) ELSE upto[n - 1]
    IN  upto[Len(s)]
=============================================================================
