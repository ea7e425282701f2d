------------------------------ MODULE History ------------------------------
(***************************************************************************)
(* What back/forward navigation promises: one line of visited places and   *)
(* a cursor on it.  A cursor one past the end stands on no recorded place  *)
(* (nothing visited yet, or the view was sent "nowhere").                  *)
(***************************************************************************)
EXTENDS Naturals, Sequences

CONSTANT Place

VARIABLES trail, cursor
vars == <<trail, cursor>>

OnPlace == cursor <= Len(trail)

\* The part of the trail a new visit keeps.
Kept == SubSeq(trail, 1, IF OnPlace THEN cursor ELSE cursor - 1)

Init == trail = <<>> /\ cursor = 1

\* Visiting forgets what lay ahead; a revisit of the current place adds nothing.
Visit(p) ==
    /\ trail' = IF OnPlace /\ trail[cursor] = p THEN Kept ELSE Append(Kept, p)
    /\ cursor' = Len(trail')

\* Leaving for nowhere also forgets what lay ahead.
Leave ==
    /\ trail' = Kept
    /\ cursor' = Len(Kept) + 1

Back ==
    /\ cursor > 1
    /\ cursor' = cursor - 1
    /\ UNCHANGED trail

Forward ==
    /\ cursor < Len(trail)
    /\ cursor' = cursor + 1
    /\ UNCHANGED trail

Forget == trail' = <<>> /\ cursor' = 1

Next == (\E p \in Place : Visit(p)) \/ Leave \/ Back \/ Forward \/ Forget

Spec == Init /\ [][Next]_vars
=============================================================================
