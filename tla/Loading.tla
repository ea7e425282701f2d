------------------------------ MODULE Loading ------------------------------
(***************************************************************************)
(* load_into_document (ui/App.cpp) with the scan for strings in its place: *)
(* when the call targets have names and before the references are built.   *)
(* The sections that are scanned and the rows of the index are of one      *)
(* file, but nothing that is done with the ones depends on the others.     *)
(***************************************************************************)
EXTENDS Document, Strings

loadVars == <<vars, docVars, scanVars>>

LoadInit == DocInit /\ ScanInit

ScanStrings == stage = "xrefs" /\ Scan /\ UNCHANGED <<vars, docVars>>
LoadNext ==
    \/ ScanStrings
    \/ (stage = "xrefs" => Done) /\ DocNext /\ UNCHANGED scanVars

LoadSpec == LoadInit /\ [][LoadNext]_loadVars
=============================================================================
