---------------------------- MODULE LoadedImage ----------------------------
(***************************************************************************)
(* An image is loaded and its executable sections are swept, the steps of  *)
(* load_into_document (ui/App.cpp) that read the file: DecodedIndex::build *)
(* over the sections that PEImage::load found.  The sweep reads the bytes  *)
(* the section headers promise; it is modelled for files that have them.   *)
(***************************************************************************)
EXTENDS PEImage, DecodedIndex

VARIABLE building       \* index.build has been called
loadVars == <<peVars, vars, building>>

\* The section tables of the files that are loaded are in the order the PE format
\* asks for.
ASSUME TablesFound ==
    /\ <<>> \in Tables
    /\ \A f \in Files : Parsed(f) => SectionList(f, Header(f)) \in Tables

HasRawData == \A s \in Range(sections) : s.raw + s.rsize <= file.size

LoadInit ==
    /\ PEInit
    /\ table = <<>> /\ sec = 1 /\ off = 0 /\ entries = <<>> /\ building = FALSE

LoadImage == Load /\ UNCHANGED <<vars, building>>
Build ==
    /\ Loaded /\ ~building /\ HasRawData
    /\ building' = TRUE /\ table' = sections /\ sec' = 1 /\ off' = 0 /\ entries' = <<>>
    /\ UNCHANGED peVars
Sweep ==
    /\ building
    /\ NextSection \/ \E n \in 0..MaxLength : Decode(n)
    /\ UNCHANGED <<peVars, building>>

\* The load has failed, is complete, or is past what is modelled.
Stay ==
    /\ step = "failed" \/ (Loaded /\ ~HasRawData) \/ (building /\ Done)
    /\ UNCHANGED loadVars

LoadNext == LoadImage \/ Build \/ Sweep \/ Stay

\* build is a sequential loop: it goes on while it has a step to take.  (The
\* parsers' loops are within their actions.)
LoadSpec == LoadInit /\ [][LoadNext]_loadVars /\ WF_loadVars(Build \/ Sweep)

-----------------------------------------------------------------------------
\* The sweep of a loaded file ends, whatever its bytes are.
SweepEnds == Loaded /\ HasRawData ~> building /\ Done
=============================================================================
