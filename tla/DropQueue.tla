----------------------------- MODULE DropQueue -----------------------------
(***************************************************************************)
(* What the user may expect of dropping files on the window: they wait in  *)
(* a queue and are taken in the order they came, each once.  Only closing  *)
(* the window may lose files, and then the latest ones.                    *)
(***************************************************************************)
EXTENDS Naturals, SequencesExt

CONSTANT File

VARIABLES waiting,   \* files dropped and not yet taken
          taken,     \* files taken, in order
          closed     \* the window is gone
vars == <<waiting, taken, closed>>

Init == waiting = <<>> /\ taken = <<>> /\ closed = FALSE

\* A drop: any number of files join the end of the queue.
Arrive ==
    /\ ~closed
    /\ waiting' \in Seq(File) /\ IsPrefix(waiting, waiting')
    /\ UNCHANGED <<taken, closed>>

Take ==
    /\ waiting # <<>>
    /\ waiting' = Tail(waiting) /\ taken' = Append(taken, Head(waiting))
    /\ UNCHANGED closed

Close(n) ==
    /\ ~closed /\ closed' = TRUE
    /\ waiting' = SubSeq(waiting, 1, n)
    /\ UNCHANGED taken

Next ==
    \/ Arrive \/ Take
    \/ \E n \in 0..Len(waiting) : Close(n)

Spec == Init /\ [][Next]_vars
=============================================================================
