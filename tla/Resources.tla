----------------------------- MODULE Resources -----------------------------
(***************************************************************************)
(* What the documents take from Windows: the files they map (MappedFile)   *)
(* and the modules dbghelp keeps for them (PdbLoader).  The program has    *)
(* one thread, so that open runs to its end before a loader does anything. *)
(***************************************************************************)
EXTENDS MappedFile, PdbLoader

resourceVars == <<fileVars, pdbVars>>

ResourceInit == FileInit /\ PdbInit

FileStep == FileNext /\ UNCHANGED pdbVars
PdbStep == pc = "idle" /\ PdbNext /\ UNCHANGED fileVars
ResourceNext == FileStep \/ PdbStep

ResourceSpec == ResourceInit /\ [][ResourceNext]_resourceVars
=============================================================================
