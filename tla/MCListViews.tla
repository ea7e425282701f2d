---------------------------- MODULE MCListViews ----------------------------
(* Three documents, so that a tab has neighbours on both sides, each with one *)
(* row in the exports window and two strings, of which one has the text that  *)
(* can be typed.                                                              *)
EXTENDS ListViews, TLC

CONSTANTS d1, d2, d3

MCDoc == {d1, d2, d3}
MCSymmetry == Permutations(MCDoc)
MCWindow == {"exports", "strings"}
MCFilter == {"", "a"}
MCRows == [d \in MCDoc |-> 1]
MCStrings == [d \in MCDoc |-> <<{""}, {"", "a"}>>]
=============================================================================
