--------------------------- MODULE NavigationOps ---------------------------
(***************************************************************************)
(* The methods of analysis::Navigation as operators on its three fields.   *)
(* A history is a record [back, forward, current]; the two stacks keep     *)
(* their top at the end, as the std::vectors do.  NoAddr is UINT64_MAX.    *)
(***************************************************************************)
EXTENDS Naturals, SequencesExt

CONSTANT NoAddr

\* A freshly constructed Navigation, and what clear() leaves behind.
NavEmpty == [back |-> <<>>, forward |-> <<>>, current |-> NoAddr]

CanBack(n) == n.back # <<>>
CanForward(n) == n.forward # <<>>

\* Push addr on a stack unless it is the "nowhere" sentinel.
PushPlace(s, addr) == IF addr = NoAddr THEN s ELSE Append(s, addr)

(* Plausible slips in go(), back() and forward(), used as mutants. *)
NavGoPushesSentinel(n, addr) ==
    [back |-> IF n.current # addr THEN Append(n.back, n.current) ELSE n.back,
     forward |-> <<>>, current |-> addr]
NavGoPushesRepeats(n, addr) ==
    [back |-> PushPlace(n.back, n.current), forward |-> <<>>, current |-> addr]
NavBackKeepsTop(n) ==
    IF ~CanBack(n) THEN n
    ELSE [back |-> n.back,
          forward |-> PushPlace(n.forward, n.current),
          current |-> Last(n.back)]

\* go: the address left behind is pushed (not the sentinel, not a repeat)
\* and every forward entry is dropped.
NavGo(n, addr) ==
    [back |-> IF addr = n.current THEN n.back ELSE PushPlace(n.back, n.current),
     forward |-> <<>>,
     current |-> addr]

NavBack(n) ==
    IF ~CanBack(n) THEN n
    ELSE [back |-> Front(n.back),
          forward |-> PushPlace(n.forward, n.current),
          current |-> Last(n.back)]

NavForward(n) ==
    IF ~CanForward(n) THEN n
    ELSE [back |-> PushPlace(n.back, n.current),
          forward |-> Front(n.forward),
          current |-> Last(n.forward)]

\* back() and forward() return the new current address, or NoAddr when the
\* stack they pop is empty.
BackResult(n) == IF CanBack(n) THEN Last(n.back) ELSE NoAddr
ForwardResult(n) == IF CanForward(n) THEN Last(n.forward) ELSE NoAddr
=============================================================================
