----------------------------- MODULE DocTabsOps -----------------------------
(***************************************************************************)
(* The document list of ui::AppContext as a record [docs, current,         *)
(* pending] with the source's 0-based indices and -1 for "none"            *)
(* (ui/AppContext.h, open_document and close_document of ui/App.cpp), and  *)
(* the part of ImGui's tab bar that decides which tab item reports itself  *)
(* visible.                                                                *)
(***************************************************************************)
EXTENDS Integers, SequencesExt, Selection

CONSTANT NoDoc

NoDocs == [docs |-> <<>>, current |-> -1, pending |-> -1]

Indices(c) == 0..(Len(c.docs) - 1)
DocAt(c, i) == c.docs[i + 1]

\* current() and has_doc()
HasDoc(c) == c.current \in Indices(c)
CurrentDoc(c) == IF HasDoc(c) THEN DocAt(c, c.current) ELSE NoDoc

\* The list docs with i current, and the tab bar asked to follow.
SelectIn(docs, i) == [docs |-> docs, current |-> i, pending |-> i]

OpenDoc(c, d) == SelectIn(Append(c.docs, d), Len(c.docs))

(* Slips in close_document used as mutants: no clamp of the last index, and *)
(* the shift forgotten for a tab closed before the current one.             *)
CloseDocNoClamp(c, i) ==
    LET rest == RemoveAt(c.docs, i + 1)
    IN  IF i \notin Indices(c) THEN c
        ELSE IF rest # <<>> /\ i < c.current THEN SelectIn(rest, c.current - 1)
        ELSE [docs |-> rest, current |-> IF rest = <<>> THEN -1 ELSE c.current,
              pending |-> c.pending]
CloseDocNoShift(c, i) ==
    LET rest == RemoveAt(c.docs, i + 1)
    IN  IF i \notin Indices(c) THEN c
        ELSE IF rest # <<>> /\ c.current >= Len(rest) THEN SelectIn(rest, Len(rest) - 1)
        ELSE [docs |-> rest, current |-> IF rest = <<>> THEN -1 ELSE c.current,
              pending |-> c.pending]

CloseDoc(c, i) ==
    LET rest == RemoveAt(c.docs, i + 1)
    IN  IF i \notin Indices(c) THEN c
        ELSE IF rest = <<>> THEN [docs |-> rest, current |-> -1, pending |-> c.pending]
        ELSE IF c.current >= Len(rest) THEN SelectIn(rest, Len(rest) - 1)
        ELSE IF i <= c.current
        THEN SelectIn(rest, IF c.current > 0 THEN c.current - 1 ELSE 0)
        ELSE [docs |-> rest, current |-> c.current, pending |-> c.pending]

\* "Close current tab" and Ctrl+W
CloseCurrent(c) == IF c.current >= 0 THEN CloseDoc(c, c.current) ELSE c

\* Ctrl+Tab (delta 1) and Ctrl+Shift+Tab (delta -1)
CycleDocNoTrigger(c, delta) ==
    IF c.docs = <<>> THEN c
    ELSE [c EXCEPT !.current = (c.current + delta + Len(c.docs)) % Len(c.docs)]
CycleDoc(c, delta) ==
    IF c.docs = <<>> THEN c
    ELSE SelectIn(c.docs, (c.current + delta + Len(c.docs)) % Len(c.docs))

-----------------------------------------------------------------------------
(* ImGui's tab bar (external).  Tab items are identified by the index in    *)
(* their label ("###tab%d").  tabs are the items known from the last bar    *)
(* frame, selected and next ImGui's SelectedTabId and NextSelectedTabId,    *)
(* recent the items by last time selected, up whether the bar was submitted *)
(* in the last frame.                                                       *)
None == -1
NoTabs == [tabs |-> {}, selected |-> None, next |-> None, recent |-> <<>>, up |-> FALSE]

\* The layout at the first item of a frame takes the queued tab, else keeps
\* the selected one, else falls back on the most recently selected.
Layout(b) ==
    LET known == Kept(b.recent, b.tabs)
    IN  IF b.next \in b.tabs THEN {b.next}
        ELSE IF b.selected \in b.tabs THEN {b.selected}
        ELSE IF known # <<>> THEN {known[1]}
        ELSE IF b.tabs # {} THEN b.tabs
        ELSE {None}

\* Items 0..n-1 are submitted in order, visible the one of the layout and p
\* the one carrying SetSelected; the mouse presses the item press or the close
\* button of close (None for neither).  What is queued for the next layout: the
\* later of the two requests; closing the visible tab drops what came before.
QueuedTab(n, visible, p, press, close) ==
    LET asked == IF p \in 0..(n-1) /\ p # visible THEN p ELSE None
    IN  IF press # None /\ asked <= press THEN press
        ELSE IF close # None /\ close = visible /\ asked <= close THEN None
        ELSE asked

SubmitTabs(b, n, visible, p, press, close) ==
    LET left == (0..(n-1)) \ {close}
    IN  [tabs |-> left,
         selected |-> IF close = visible THEN None ELSE visible,
         next |-> QueuedTab(n, visible, p, press, close),
         recent |-> Kept(<<visible>>, left) \o Kept(b.recent, left \ {visible}),
         up |-> TRUE]

\* The item that reports itself visible: the laid-out tab if it is submitted,
\* or the only tab of a bar that just appeared.
VisibleItem(b, n, visible) ==
    IF visible \in 0..(n-1) THEN visible
    ELSE IF visible = None /\ ~b.up THEN 0
    ELSE None
=============================================================================
