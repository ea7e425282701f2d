----------------------------- MODULE MappedFile -----------------------------
(***************************************************************************)
(* pe::MappedFile (pe/MappedFile.cpp): objects that own a file handle, a   *)
(* mapping handle and a view, the steps of open with its early returns,    *)
(* close, and the moves.  The kernel (external) hands out any handle that  *)
(* is not in use.                                                          *)
(***************************************************************************)
EXTENDS Naturals, FiniteSets

CONSTANTS Object,      \* MappedFile objects
          Handle,      \* file and mapping handles and view addresses
          NoHandle     \* nullptr

ASSUME HandleAssumption == NoHandle \notin Handle

VARIABLES held,        \* per object: m_file_handle, m_mapping_handle, m_data
          live,        \* kernel: what is open or mapped
          pc,          \* "idle", or the call open makes next
          self,        \* the object open runs on
          local        \* open's locals: file, mapping
fileVars == <<held, live, pc, self, local>>

Nothing == [file |-> NoHandle, mapping |-> NoHandle, data |-> NoHandle]
NoLocals == [file |-> NoHandle, mapping |-> NoHandle]
HandlesOf(r) == {r[f] : f \in DOMAIN r} \ {NoHandle}

FileInit ==
    /\ held = [o \in Object |-> Nothing]
    /\ live = {}
    /\ pc = "idle" /\ self \in Object /\ local = NoLocals

\* close(), also run by the destructor: whatever is there is given back.
Freed(o) == live \ HandlesOf(held[o])
Close(o) ==
    /\ pc = "idle"
    /\ live' = Freed(o)
    /\ held' = [held EXCEPT ![o] = Nothing]
    /\ UNCHANGED <<pc, self, local>>

\* open() closes the object first.
Open(o) ==
    /\ pc = "idle"
    /\ live' = Freed(o)
    /\ held' = [held EXCEPT ![o] = Nothing]
    /\ pc' = "CreateFile" /\ self' = o
    /\ UNCHANGED local

\* An early return of open: the locals acquired so far are closed.  Mutant:
\* the mapping is not.
CloseFileOnly == live \ {local.file}
CloseLocals == live \ HandlesOf(local)
GiveUp ==
    /\ pc' = "idle"
    /\ live' = CloseLocals
    /\ local' = NoLocals
    /\ UNCHANGED <<held, self>>

CreateFile ==
    /\ pc = "CreateFile"
    /\ \/ GiveUp
       \/ \E h \in Handle \ live :
              /\ live' = live \cup {h} /\ local' = [local EXCEPT !.file = h]
              /\ pc' = "GetFileSize" /\ UNCHANGED <<held, self>>

\* Fails, or the file is empty.
GetFileSize ==
    /\ pc = "GetFileSize"
    /\ \/ GiveUp
       \/ pc' = "CreateFileMapping" /\ UNCHANGED <<held, live, self, local>>

CreateFileMapping ==
    /\ pc = "CreateFileMapping"
    /\ \/ GiveUp
       \/ \E h \in Handle \ live :
              /\ live' = live \cup {h} /\ local' = [local EXCEPT !.mapping = h]
              /\ pc' = "MapViewOfFile" /\ UNCHANGED <<held, self>>

MapViewOfFile ==
    /\ pc = "MapViewOfFile"
    /\ \/ GiveUp
       \/ \E h \in Handle \ live :
              /\ live' = live \cup {h}
              /\ held' = [held EXCEPT ![self] =
                             [file |-> local.file, mapping |-> local.mapping, data |-> h]]
              /\ pc' = "idle" /\ local' = NoLocals /\ UNCHANGED self

\* What a move makes of the two objects.  Mutant: the source keeps its handles.
CopiedTo(o, from) == [held EXCEPT ![o] = held[from]]
MovedTo(o, from) == [held EXCEPT ![o] = held[from], ![from] = Nothing]

\* operator=(MappedFile&&), and the constructor when o holds nothing yet; a
\* move of an object to itself does nothing.
Move(o, from) ==
    /\ pc = "idle"
    /\ IF o = from THEN UNCHANGED <<held, live>>
       ELSE live' = Freed(o) /\ held' = MovedTo(o, from)
    /\ UNCHANGED <<pc, self, local>>

FileNext ==
    \/ \E o \in Object : Open(o) \/ Close(o) \/ \E from \in Object : Move(o, from)
    \/ CreateFile \/ GetFileSize \/ CreateFileMapping \/ MapViewOfFile

FileSpec == FileInit /\ [][FileNext]_fileVars

-----------------------------------------------------------------------------
\* Nothing leaks and nothing is closed early, whichever call of open failed:
\* the kernel's handles are those the objects hold and those open has acquired.
Accounted ==
    live = (UNION {HandlesOf(held[o]) : o \in Object}) \cup HandlesOf(local)

\* No handle has two owners, so none is closed twice (or closed under another
\* object that was given the same number again).
OneOwner ==
    /\ \A o, p \in Object : o # p => HandlesOf(held[o]) \cap HandlesOf(held[p]) = {}
    /\ \A o \in Object : HandlesOf(held[o]) \cap HandlesOf(local) = {}
=============================================================================
