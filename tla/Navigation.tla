----------------------------- MODULE Navigation -----------------------------
(***************************************************************************)
(* analysis::Navigation, the back/forward history one Document keeps       *)
(* (analysis/Navigation.cpp).  nav is the object, ret the value its last   *)
(* back() or forward() returned.                                           *)
(***************************************************************************)
EXTENDS NavigationOps

CONSTANTS Addr,       \* addresses a caller may pass; NoAddr may be one of them
          MaxDepth    \* bound: go() is explored only below this total depth

ASSUME DepthAssumption == MaxDepth \in Nat

VARIABLES nav, ret
vars == <<nav, ret>>

\* The addresses the stacks may hold.
Place == Addr \ {NoAddr}

Init == nav = NavEmpty /\ ret = NoAddr

Go(addr) ==
    /\ Len(nav.back) + Len(nav.forward) < MaxDepth
    /\ nav' = NavGo(nav, addr)
    /\ UNCHANGED ret

Back == nav' = NavBack(nav) /\ ret' = BackResult(nav)

Forward == nav' = NavForward(nav) /\ ret' = ForwardResult(nav)

Clear == nav' = NavEmpty /\ UNCHANGED ret

Next == (\E addr \in Addr : Go(addr)) \/ Back \/ Forward \/ Clear

Spec == Init /\ [][Next]_vars

-----------------------------------------------------------------------------
(* The refinement mapping: the stacks laid out as one trail. *)
TrailOf(n) == PushPlace(n.back, n.current) \o Reverse(n.forward)
Trail == TrailOf(nav)
Cursor == Len(nav.back) + 1

Abstract == INSTANCE History WITH trail <- Trail, cursor <- Cursor

\* Types: the stacks never hold the sentinel, whatever address go() is given.
TypeOK ==
    /\ nav \in [back : Seq(Place), forward : Seq(Place),
                current : Addr \cup {NoAddr}]
    /\ ret \in Addr \cup {NoAddr}

\* "Nowhere" is only ever at the end of the history: with the sentinel
\* current, there is nothing to go forward to, so forward() never has to
\* restore a place it could not push.
NowhereIsLast == nav.current = NoAddr => nav.forward = <<>>

\* Neighbours on a stack differ, and so do its top and the address c.
Fresh(s, c) ==
    /\ \A i \in 1..(Len(s) - 1) : s[i] # s[i+1]
    /\ s # <<>> => Last(s) # c

\* No two neighbouring places of the history are equal, in the back stack,
\* across the current address, or in the forward stack.  It needs the callers
\* to keep the sentinel out: go(a), go(NoAddr), go(a) records a twice.
NoRepeats == Fresh(nav.back, nav.current) /\ Fresh(nav.forward, nav.current)

\* Every back() or forward() that returns an address really moves the view:
\* the returned address is the new current one and differs from the old.
\* A user who presses Alt+Left never sees nothing happen.
ReturnMoves ==
    [][(Back \/ Forward) /\ ret' # NoAddr =>
           nav'.current = ret' /\ nav'.current # nav.current]_vars

\* The two stacks together behave as one trail with a cursor.
ImplementsHistory == Abstract!Spec
=============================================================================
