----------------------------- MODULE MCDocTabs -----------------------------
(* Three documents, so that a tab has neighbours on both sides. *)
EXTENDS DocTabs, TLC

CONSTANTS d1, d2, d3

MCDoc == {d1, d2, d3}
MCSymmetry == Permutations(MCDoc)
=============================================================================
