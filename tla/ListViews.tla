----------------------------- MODULE ListViews -----------------------------
(***************************************************************************)
(* The View menu and the list windows (ui/SectionsView, ImportsView,       *)
(* ExportsView, StringsView) over the frames of DocTabs: which windows are *)
(* shown, the strings window's two statics (the filter text and the rows   *)
(* that pass it), and the row of this frame's click.  A row is <<document, *)
(* index>>, as the code keeps pointers into the list of a document.  Where *)
(* the clicked row leads is App's ListWindows.                             *)
(***************************************************************************)
EXTENDS DocTabs

CONSTANTS Window,     \* the windows a behaviour may show and hide
          Rows,       \* number of rows the other lists have for each document
          Strings,    \* per document, for each of its strings the filters found in it
          Filter      \* what may be typed

NoFilter == ""
NoRow == <<>>
All == <<"sections", "imports", "exports", "strings">>
Order == Kept(All, Window)       \* the order they are drawn in

ASSUME WindowAssumption == Window \subseteq Range(All)
ASSUME RowsAssumption ==
    /\ Rows \in [Doc -> Nat] /\ NoFilter \in Filter
    /\ Strings \in [Doc -> Seq(SUBSET Filter)]
    /\ \A d \in Doc : \A s \in Range(Strings[d]) : NoFilter \in s

VARIABLES shown,      \* the show_* flags
          filter,     \* filter_buf
          filtered,   \* the static vector of rows that passed
          jump,       \* what was clicked in this frame: document that goes there and row
          turn        \* the window of stage "views" that is drawn next
listVars == <<shown, filter, filtered, jump, turn>>

NoJump == <<NoDoc, NoRow>>

ListInit ==
    /\ Init
    /\ shown = {"sections", "imports"} \cap Window
    /\ filter = NoFilter /\ filtered = <<>> /\ turn = 1 /\ jump = NoJump

\* The handlers of DocTabs, and an item of the View menu.
Handlers ==
    /\ Next /\ stage # "views"
    /\ UNCHANGED listVars
MenuView(w) ==
    /\ MenuIdle
    /\ shown' = SymDiff(shown, {w})
    /\ UNCHANGED <<filter, filtered, jump, turn>>

\* A window is drawn after the one before; its cross clears its flag.
Reached(w) ==
    /\ stage = "views" /\ turn <= Len(Order) /\ Order[turn] = w
    /\ turn' = turn + 1
    /\ shown' = shown \/ (w \in shown /\ shown' = shown \ {w})
    /\ UNCHANGED vars

\* Not shown, behind another window or without a document: the early returns.
NotDrawn == (\E w \in Range(Order) : Reached(w)) /\ UNCHANGED <<filter, filtered, jump>>

\* A row is clicked or not; the document on screen goes there.
ClickedIn(rows) == jump' = jump \/ \E r \in rows : jump' = <<CurrentDoc(ctx), r>>
ListWindow(w) ==
    /\ w \in {"sections", "imports", "exports"}
    /\ Reached(w) /\ w \in shown /\ HasDoc(ctx)
    /\ ClickedIn({<<CurrentDoc(ctx), i>> : i \in 1..Rows[CurrentDoc(ctx)]})
    /\ UNCHANGED <<filter, filtered>>

\* render_strings_view: the static vector is filled again with the strings of
\* the document that have the filter text.  Mutant: only if the filter has
\* changed.
StringRows(d) == [i \in 1..Len(Strings[d]) |-> <<d, i>>]
Passing(d, f) == Kept(StringRows(d), {r \in Range(StringRows(d)) : f \in Strings[d][r[2]]})
RefillIfTyped(d, f) == IF f = filter /\ filtered # <<>> THEN filtered ELSE Passing(d, f)
Refill(d, f) == Passing(d, f)
StringsWindow ==
    /\ Reached("strings") /\ "strings" \in shown /\ HasDoc(ctx)
    /\ filter' \in Filter
    /\ filtered' = Refill(CurrentDoc(ctx), filter')
    /\ ClickedIn(Range(filtered'))

\* The window is too small for its table: only the filter may change.
FilterWindow ==
    /\ Reached("strings") /\ "strings" \in shown /\ HasDoc(ctx)
    /\ filter' \in Filter
    /\ UNCHANGED <<filtered, jump>>

ViewsDone ==
    /\ turn > Len(Order) /\ turn' = 1
    /\ EndFrame
    /\ jump' = NoJump
    /\ UNCHANGED <<shown, filter, filtered>>

ListNext ==
    \/ Handlers
    \/ \E w \in Window : MenuView(w)
    \/ NotDrawn \/ StringsWindow \/ FilterWindow
    \/ \E w \in Window : ListWindow(w)
    \/ ViewsDone

ListSpec == ListInit /\ [][ListNext]_<<vars, listVars>>

-----------------------------------------------------------------------------
\* The static rows outlive the frame, and after a close they point into a
\* document that is gone.  Yet no document is ever sent to a row of another.
OwnRows == jump # NoJump => jump[2][1] = jump[1] /\ IsOpen(jump[1])
=============================================================================
