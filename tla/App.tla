-------------------------------- MODULE App --------------------------------
(***************************************************************************)
(* A frame of App::run with everything it draws: the tabs of DocTabs, and  *)
(* for every open document the place its views stand at.  Each DocTabs     *)
(* action is extended with what the same handler does to the views, and    *)
(* the stage "views" is split into the windows drawn in it, in order.      *)
(* Addresses are naturals in the order of the image.                       *)
(***************************************************************************)
EXTENDS DocTabs, NavigationOps

CONSTANTS Addr,      \* addresses a list, a branch or the user can name
          Entry,     \* entry point of each document
          Row,       \* addresses at which the rows of its DecodedIndex start
          Section,   \* section of each address with raw bytes, 0 if none has it
          Beyond,    \* addresses past the raw bytes of their section
          Freed,     \* pointer to a Document that has been destroyed
          MaxActs,   \* bound: user actions in a behaviour
          MaxKeys    \* bound: G, X and history keys pressed within one frame

ASSUME AddrAssumption == NoAddr \in Nat /\ Addr \subseteq 0..NoAddr   \* UINT64_MAX is the largest
ASSUME ImageAssumption ==
    /\ Entry \in [Doc -> Addr \ {NoAddr}]
    /\ Row \in [Doc -> SUBSET (Addr \ {NoAddr})]
    /\ Section \in [Doc -> [Addr \cup {NoAddr} -> Nat]]
    /\ Beyond \in [Doc -> SUBSET Addr]
ASSUME PointerAssumption == Freed \notin Doc \cup {NoDoc}
ASSUME BoundAssumption == MaxActs \in Nat /\ MaxKeys \in Nat

VARIABLES view,     \* per document: nav, selected_addr, pending_scroll_va
          dialogs,  \* goto_open, xrefs_open, xrefs_target; history: from, its document
          hex,      \* HexView's statics addr, sec, doc and its scroll position at;
                    \* history: seen, what it drew last, and shown, the last bytes it drew
          part,     \* the next window of stage "views"
          acts      \* user actions so far
appVars == <<view, dialogs, hex, part, acts>>

Act == acts < MaxActs /\ acts' = acts + 1
Idle == UNCHANGED acts

-----------------------------------------------------------------------------
\* What load_into_document leaves behind.  A closed document's record stands
\* for the next load of it.
Loaded(d) == [nav |-> NavGo(NavEmpty, Entry[d]), selected |-> Entry[d], pending |-> Entry[d]]
OpenIn(c, d) == \E i \in Indices(c) : DocAt(c, i) = d
Live(v) == [d \in Doc |-> IF OpenIn(ctx', d) THEN v[d] ELSE Loaded(d)]

\* last_doc of the hex view is a bare pointer: it outlives its Document, and a
\* document loaded later may be allocated where the destroyed one was.
Pointee(p) ==
    IF p = NoDoc \/ OpenIn(ctx', p) THEN {p}
    ELSE {Freed} \cup {d \in Closed : p = Freed /\ OpenIn(ctx', d)}
HexKept ==
    \E p \in Pointee(hex.doc) :
        hex' = [hex EXCEPT !.doc = p, !.shown = <<IF OpenIn(ctx', @[1]) THEN @[1] ELSE NoDoc, @[2]>>]

\* Lists, goto, a followed branch: go there, select it, scroll to it.  Mutant:
\* the history is forgotten.
JumpNoHistory(v, a) == [nav |-> v.nav, selected |-> a, pending |-> a]
JumpTo(v, a) == [nav |-> NavGo(v.nav, a), selected |-> a, pending |-> a]

\* Back and forward; an empty stack answers NoAddr, and nothing is selected.
Arrive(v, nav, a) ==
    IF a = NoAddr THEN [v EXCEPT !.nav = nav] ELSE [nav |-> nav, selected |-> a, pending |-> a]
GoBack(v) == Arrive(v, NavBack(v.nav), BackResult(v.nav))
GoForward(v) == Arrive(v, NavForward(v.nav), ForwardResult(v.nav))

\* Alt+Left, Alt+Right and Esc are looked at in this order.
Travel(v, keys) ==
    LET v1 == IF "left" \in keys THEN GoBack(v) ELSE v
        v2 == IF "right" \in keys THEN GoForward(v1) ELSE v1
    IN  IF "escape" \in keys THEN GoBack(v2) ELSE v2

AskXrefs(d) == [dialogs EXCEPT !.xrefs = TRUE, !.target = view[d].selected, !.from = d]

-----------------------------------------------------------------------------
NothingSeen == <<NoDoc, 0>>

AppInit ==
    /\ Init
    /\ view = [d \in Doc |-> Loaded(d)]
    /\ dialogs = [goto |-> FALSE, xrefs |-> FALSE, target |-> 0, from |-> NoDoc]
    /\ hex = [addr |-> NoAddr, sec |-> 0, doc |-> NoDoc, at |-> 0,
              seen |-> NothingSeen, shown |-> <<NoDoc, NoAddr>>]
    /\ part = "disasm"
    /\ acts = 0

Drops ==
    /\ \/ DropsDone /\ Idle
       \/ \E d \in Closed : DropFile(d) /\ Act
    /\ HexKept
    /\ UNCHANGED <<view, dialogs, part>>

MenuFile ==
    /\ \/ MenuIdle /\ Idle
       \/ MenuClose /\ Act
       \/ \E d \in Closed : MenuOpen(d) /\ Act
    /\ view' = Live(view)
    /\ HexKept
    /\ UNCHANGED <<dialogs, part>>

\* The Navigate menu: Go to, Xrefs to selection, Back, Forward, Entry point.
MenuNavigate ==
    /\ MenuIdle /\ Act
    /\ HasDoc(ctx)
    /\ LET d == CurrentDoc(ctx)
       IN  \/ dialogs' = [dialogs EXCEPT !.goto = TRUE] /\ UNCHANGED view
           \/ dialogs' = AskXrefs(d) /\ UNCHANGED view
           \/ CanBack(view[d].nav) /\ view' = [view EXCEPT ![d] = GoBack(@)] /\ UNCHANGED dialogs
           \/ CanForward(view[d].nav) /\ view' = [view EXCEPT ![d] = GoForward(@)] /\ UNCHANGED dialogs
           \/ view' = [view EXCEPT ![d] = JumpTo(@, Entry[d])] /\ UNCHANGED dialogs
    /\ UNCHANGED <<hex, part>>

HostWindow ==
    /\ \/ HostEmpty /\ Idle
       \/ \E visible \in {None} \cup bar.tabs : Host(visible, None, None) /\ Idle
       \/ \E visible, press, close \in {None} \cup bar.tabs :
              /\ <<press, close>> # <<None, None>>
              /\ Host(visible, press, close) /\ Act
    /\ view' = Live(view)
    /\ HexKept
    /\ UNCHANGED <<dialogs, part>>

\* The document the G, X and history keys act on: the one that is current
\* after Ctrl+O, Ctrl+W and Ctrl+Tab of the same frame.  Mutant: the pointer
\* is taken at the top of handle_shortcuts.
KeyTargetEarly(before, after) == IF HasDoc(after) THEN CurrentDoc(before) ELSE NoDoc
KeyTarget(before, after) == CurrentDoc(after)

Shortcuts(opened, close, delta, keys) ==
    /\ IF <<opened, close, delta>> = <<NoDoc, FALSE, 0>>
       THEN KeysIdle
       ELSE Keys(opened, close, delta)
    /\ IF keys = {} /\ ctx' = ctx THEN Idle ELSE Act
    /\ LET d == KeyTarget(ctx, ctx')
           live == Live(view)
       IN  IF d = NoDoc THEN view' = live /\ UNCHANGED dialogs
           ELSE /\ view' = [live EXCEPT ![d] = Travel(@, keys)]
                /\ dialogs' = [goto |-> dialogs.goto \/ "g" \in keys,
                               xrefs |-> dialogs.xrefs \/ "x" \in keys,
                               target |-> IF "x" \in keys THEN live[d].selected ELSE dialogs.target,
                               from |-> IF "x" \in keys THEN d ELSE dialogs.from]
    /\ HexKept
    /\ UNCHANGED part

-----------------------------------------------------------------------------
\* The windows of stage "views"; next is drawn after this one.
InPart(p) == stage = "views" /\ part = p
Drawn(p, next) == InPart(p) /\ part' = next /\ UNCHANGED vars

\* A window is closed or covered by another one, or nothing is clicked in it;
\* the disassembly has no document or no row to draw.
Hidden == \/ Drawn("disasm", "hex") \/ Drawn("hex", "lists") \/ Drawn("lists", "goto")
HiddenWindow == Hidden /\ Idle /\ UNCHANGED <<view, dialogs, hex>>

\* lower_bound_va, clamped to the last row
RowAt(rows, a) ==
    LET after == {r \in rows : r >= a} IN IF after = {} THEN Max(rows) ELSE Min(after)

\* Scroll and select.  Mutant: the selection is left where the jump put it.
SnapScrollOnly(v, rows) == [v EXCEPT !.pending = NoAddr]
Snap(v, rows) ==
    IF v.pending = NoAddr THEN v
    ELSE [v EXCEPT !.selected = RowAt(rows, v.pending), !.pending = NoAddr]

\* render_disasm_view: a pending scroll is consumed, then a row may be clicked;
\* a double click on a relative branch also goes to its target.
DisasmWindow ==
    /\ Drawn("disasm", "hex")
    /\ HasDoc(ctx)
    /\ LET d == CurrentDoc(ctx)
           v == Snap(view[d], Row[d])
       IN  /\ Row[d] # {}
           /\ \/ view' = [view EXCEPT ![d] = v] /\ Idle
              \/ \E r \in Row[d] : view' = [view EXCEPT ![d] = [v EXCEPT !.selected = r]] /\ Act
              \/ \E r \in Row[d], a \in Addr :
                     /\ view' = [view EXCEPT ![d] = [nav |-> NavGo(v.nav, a), selected |-> r, pending |-> a]]
                     /\ Act
    /\ UNCHANGED <<dialogs, hex>>

\* render_hex_view without a document, without bytes, or with them: SetScrollY
\* only when address, section or document differ from the statics, and only to
\* a row the raw bytes reach.  A single line of text is too short to stay
\* scrolled.  Mutant: one cache for all documents.
HexStale(h, d, a, sec) == h.addr # a \/ h.sec # sec
HexMoved(h, d, a, sec) == h.addr # a \/ h.sec # sec \/ h.doc # d

DrawDash == hex' = [hex EXCEPT !.at = 0, !.seen = NothingSeen]
DrawBytes(d, a, sec) ==
    hex' = IF HexMoved(hex, d, a, sec)
           THEN [addr |-> a, sec |-> sec, doc |-> d, at |-> IF a \in Beyond[d] THEN hex.at ELSE a,
                 seen |-> <<d, a>>, shown |-> <<d, a>>]
           ELSE [hex EXCEPT !.seen = <<d, a>>, !.shown = <<d, a>>]

HexWindow ==
    /\ Drawn("hex", "lists")
    /\ LET d == CurrentDoc(ctx)
           a == view[d].selected
       IN  \/ ~HasDoc(ctx) /\ DrawDash
           \/ HasDoc(ctx) /\ Section[d][a] = 0 /\ DrawDash
           \/ HasDoc(ctx) /\ Section[d][a] # 0 /\ DrawBytes(d, a, Section[d][a])
    /\ Idle
    /\ UNCHANGED <<view, dialogs>>

\* The sections, imports, exports and strings views: a row is clicked.
ListWindows ==
    /\ Drawn("lists", "goto")
    /\ HasDoc(ctx)
    /\ \E a \in Addr : view' = [view EXCEPT ![CurrentDoc(ctx)] = JumpTo(@, a)]
    /\ Act
    /\ UNCHANGED <<dialogs, hex>>

\* render_goto_dialog: left open, cancelled, or an address entered; without a
\* document it closes by itself.
GotoDialog ==
    /\ Drawn("goto", "xrefs")
    /\ \/ (dialogs.goto => HasDoc(ctx)) /\ Idle /\ UNCHANGED <<view, dialogs>>
       \/ /\ dialogs.goto
          /\ dialogs' = [dialogs EXCEPT !.goto = FALSE]
          /\ \/ ~HasDoc(ctx) /\ Idle /\ UNCHANGED view
             \/ HasDoc(ctx) /\ Act /\ UNCHANGED view
             \/ /\ HasDoc(ctx) /\ Act
                /\ \E a \in Addr \ {0} : view' = [view EXCEPT ![CurrentDoc(ctx)] = JumpTo(@, a)]
    /\ UNCHANGED hex

\* render_xrefs_popup, the last window of a frame: left open, closed, or one
\* of the referring rows clicked.  Mutant: the flag is not reset.
XrefsLeftOpen == dialogs
ClosedXrefs == [dialogs EXCEPT !.xrefs = FALSE]
XrefsPopup ==
    /\ InPart("xrefs") /\ part' = "disasm"
    /\ EndFrame
    /\ \/ (dialogs.xrefs => HasDoc(ctx)) /\ Idle /\ UNCHANGED <<view, dialogs>>
       \/ /\ dialogs.xrefs
          /\ dialogs' = ClosedXrefs
          /\ \/ ~HasDoc(ctx) /\ Idle /\ UNCHANGED view
             \/ HasDoc(ctx) /\ Act /\ UNCHANGED view
             \/ /\ HasDoc(ctx) /\ Act
                /\ \E a \in Row[CurrentDoc(ctx)] :
                       view' = [view EXCEPT ![CurrentDoc(ctx)] = JumpTo(@, a)]
    /\ UNCHANGED hex

AppNext ==
    \/ Drops \/ MenuFile \/ MenuNavigate \/ HostWindow
    \/ \E opened \in Closed \cup {NoDoc}, close \in BOOLEAN, delta \in {-1, 0, 1},
          keys \in SUBSET {"g", "x", "left", "right", "escape"} :
              Cardinality(keys) <= MaxKeys /\ Shortcuts(opened, close, delta, keys)
    \/ HiddenWindow \/ DisasmWindow \/ HexWindow \/ ListWindows \/ GotoDialog \/ XrefsPopup

AppSpec == AppInit /\ [][AppNext]_<<vars, appVars>>

-----------------------------------------------------------------------------
\* Types of the state App adds to DocTabs.
AppTypeOK ==
    /\ \A d \in Doc : /\ view[d].selected \in Addr /\ view[d].pending \in Addr \cup {NoAddr}
                      /\ {view[d].nav.back, view[d].nav.forward} \subseteq Seq(Addr \ {NoAddr})
                      /\ view[d].nav.current \in Addr
    /\ dialogs.goto \in BOOLEAN /\ dialogs.xrefs \in BOOLEAN
    /\ part \in {"disasm", "hex", "lists", "goto", "xrefs"}
    /\ stage # "views" => part = "disasm"

\* The history and the view never part: a scroll still to be done is always a
\* scroll to the place the history is at, whichever of the handlers asked.
ScrollIsToHistory == \A d \in Doc : view[d].pending \in {NoAddr, view[d].nav.current}

\* When no scroll is outstanding the selection is the start of a row (or the
\* unreachable address UINT64_MAX itself): the highlighted instruction exists.
SelectionIsRow ==
    \A d \in Doc : view[d].pending = NoAddr /\ Row[d] # {} =>
        view[d].selected \in Row[d] \cup {NoAddr}

\* Each document has its own state (README.md:37): no step moves the history,
\* selection or scroll of an open document other than the current one.
OnlyCurrentMoves ==
    [][\A d \in Doc : IsOpen(d) /\ IsOpen(d)' /\ view'[d] # view[d] => d = CurrentDoc(ctx')]_<<vars, appVars>>

\* At the end of a frame no dialog is left open without a document, to come up
\* over a file opened later.
DialogsNeedDocument ==
    stage = "drops" /\ ctx.docs = <<>> => ~dialogs.goto /\ ~dialogs.xrefs

\* The hex view draws the selected address a of d, which has raw bytes.
DrawsHex(d, a) ==
    /\ HexWindow /\ HasDoc(ctx)
    /\ d = CurrentDoc(ctx) /\ a = view[d].selected
    /\ Section[d][a] # 0 /\ a \notin Beyond[d]

\* README.md:40, hex view synced with the disasm cursor: bytes at another
\* address than the last it showed, or of another document than the one it
\* showed them of if that is still open, come on screen, whatever tab switches,
\* closings, loads and windows without bytes came in between.
HexFollowsBytes ==
    [][\A d \in Doc, a \in Addr :
           /\ DrawsHex(d, a)
           /\ a # hex.shown[2] \/ (hex.shown[1] # NoDoc /\ d # hex.shown[1])
           => hex'.at = a]_<<vars, appVars>>

\* The sentence of README.md:40 whole: whenever the view draws something else
\* than it drew last, the selected row comes on screen.  The statics are not
\* reset where the view draws a dash, nor when the document they point to is
\* closed: back at the address shown before, the view stays at the top.
HexFollows ==
    [][\A d \in Doc, a \in Addr : DrawsHex(d, a) /\ hex.seen # <<d, a>> => hex'.at = a]_<<vars, appVars>>

\* README.md:30 and :37 make X the references to the selection of a document
\* with its own state: the open popup is about the document on screen.
\* xrefs_target is one for the whole application, and render_xrefs_popup looks
\* it up in whichever document is current, here long after the switch.
XrefsOfDocument ==
    [][InPart("xrefs") /\ dialogs.xrefs /\ HasDoc(ctx) /\ quiet >= 2
         => dialogs.from = CurrentDoc(ctx)]_<<vars, appVars>>
=============================================================================
