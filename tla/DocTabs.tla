------------------------------ MODULE DocTabs ------------------------------
(***************************************************************************)
(* The open documents, the current one, and the tab bar, over the frames   *)
(* of App::run (ui/App.cpp).  A frame handles dropped files, the menu bar, *)
(* the host window with its tab bar, the shortcuts, and then the views     *)
(* that draw the current document.                                         *)
(***************************************************************************)
EXTENDS DocTabsOps

CONSTANTS Doc,        \* documents that can be open; a closed one may be reopened
          Calm        \* bound: quiet frames are counted up to Calm

ASSUME DocAssumption == NoDoc \notin Doc
ASSUME CalmAssumption == Calm \in Nat

VARIABLES ctx,      \* AppContext: docs, current_doc, pending_select
          bar,      \* ImGui's tab bar
          stage,    \* what the frame does next
          wanted,   \* history: the document the last request asked to see
          quiet     \* history: frame ends since the last request
vars == <<ctx, bar, stage, wanted, quiet>>

Stage == {"drops", "menu", "host", "keys", "views"}

IsOpen(d) == \E i \in 1..Len(ctx.docs) : ctx.docs[i] = d
Closed == {d \in Doc : ~IsOpen(d)}

\* The user asked for a change; whoever is current then is what they want.
Request(c) == wanted' = CurrentDoc(c) /\ quiet' = 0
NoRequest == UNCHANGED <<wanted, quiet>>

Init ==
    /\ ctx \in {NoDocs} \cup {OpenDoc(NoDocs, d) : d \in Doc}   \* initial_file
    /\ bar = NoTabs
    /\ stage = "drops"
    /\ wanted = CurrentDoc(ctx)
    /\ quiet = 0

\* handle_file_drops: every queued file is opened in turn.  A file that fails
\* to load changes nothing.
DropFile(d) ==
    /\ stage = "drops"
    /\ ctx' = OpenDoc(ctx, d)
    /\ Request(ctx')
    /\ UNCHANGED <<bar, stage>>

DropsDone == stage = "drops" /\ stage' = "menu" /\ UNCHANGED <<ctx, bar>> /\ NoRequest

\* render_menu_bar: at most one menu item is activated in a frame.
MenuOpen(d) ==
    /\ stage = "menu" /\ stage' = "host"
    /\ ctx' = OpenDoc(ctx, d)
    /\ Request(ctx')
    /\ UNCHANGED bar

MenuClose ==
    /\ stage = "menu" /\ stage' = "host"
    /\ HasDoc(ctx)
    /\ ctx' = CloseCurrent(ctx)
    /\ Request(ctx')
    /\ UNCHANGED bar

MenuIdle == stage = "menu" /\ stage' = "host" /\ UNCHANGED <<ctx, bar>> /\ NoRequest

\* render_host without a document: no tab bar, and pending_select is left alone.
HostEmpty ==
    /\ stage = "host" /\ stage' = "keys"
    /\ ctx.docs = <<>>
    /\ bar' = [bar EXCEPT !.up = FALSE]
    /\ UNCHANGED ctx
    /\ NoRequest

\* The tab loop of render_host: the visible item sets current_doc, the item
\* pending_select carries SetSelected, then pending_select is consumed.
TabLoopKeepsTrigger(visible) ==
    LET i == VisibleItem(bar, Len(ctx.docs), visible)
    IN  [ctx EXCEPT !.current = IF i = None THEN @ ELSE i]
TabLoop(visible) ==
    LET i == VisibleItem(bar, Len(ctx.docs), visible)
    IN  [docs |-> ctx.docs,
         current |-> IF i = None THEN ctx.current ELSE i,
         pending |-> -1]

\* render_host with documents; press and close are the tabs the mouse hits.
Host(visible, press, close) ==
    /\ stage = "host" /\ stage' = "keys"
    /\ ctx.docs # <<>>
    /\ visible \in Layout(bar)
    /\ {press, close} \ {None} \subseteq bar.tabs \cap Indices(ctx)
    /\ press = None \/ close = None
    /\ bar' = SubmitTabs(bar, Len(ctx.docs), visible, ctx.pending, press, close)
    /\ ctx' = CloseDoc(TabLoop(visible), close)
    /\ IF press # None
       THEN wanted' = DocAt(ctx, bar'.next) /\ quiet' = 0
       ELSE IF close # None
       THEN /\ wanted' = IF ctx.pending \notin {-1, visible} THEN NoDoc
                         ELSE IF wanted = DocAt(ctx, close) THEN CurrentDoc(ctx')
                         ELSE wanted
            /\ quiet' = 0
       ELSE NoRequest

\* handle_shortcuts: Ctrl+O, Ctrl+W and Ctrl+Tab are looked at in this order,
\* and one frame may see several of them.
KeysIdle == stage = "keys" /\ stage' = "views" /\ UNCHANGED <<ctx, bar>> /\ NoRequest

Keys(opened, close, delta) ==
    /\ stage = "keys" /\ stage' = "views"
    /\ LET c1 == IF opened = NoDoc THEN ctx ELSE OpenDoc(ctx, opened)
           c2 == IF close THEN CloseCurrent(c1) ELSE c1
       IN  ctx' = IF delta = 0 THEN c2 ELSE CycleDoc(c2, delta)
    /\ Request(ctx')
    /\ UNCHANGED bar

\* The views draw the current document; the frame is presented.
EndFrame ==
    /\ stage = "views" /\ stage' = "drops"
    /\ quiet' = IF quiet < Calm THEN quiet + 1 ELSE quiet
    /\ UNCHANGED <<ctx, bar, wanted>>

Next ==
    \/ \E d \in Closed : DropFile(d) \/ MenuOpen(d)
    \/ DropsDone \/ MenuClose \/ MenuIdle
    \/ HostEmpty
    \/ \E visible, press, close \in {None} \cup bar.tabs : Host(visible, press, close)
    \/ KeysIdle
    \/ \E opened \in Closed \cup {NoDoc}, close \in BOOLEAN, delta \in {-1, 0, 1} :
           (opened # NoDoc \/ close \/ delta # 0) /\ Keys(opened, close, delta)
    \/ EndFrame

Spec == Init /\ [][Next]_vars

-----------------------------------------------------------------------------
\* Types, and: current_doc is -1 exactly when nothing is open and otherwise
\* names an open document, at every point of a frame.
TypeOK ==
    /\ ctx \in [docs : Seq(Doc), current : Int, pending : Int]
    /\ IF ctx.docs = <<>> THEN ctx.current = -1 ELSE HasDoc(ctx)
    /\ stage \in Stage
    /\ wanted \in Doc \cup {NoDoc}
    /\ quiet \in 0..Calm

\* A tab switch still to be shown is always a switch to the current document.
PendingIsCurrent == ctx.docs # <<>> /\ ctx.pending # -1 => ctx.pending = ctx.current

\* Closing a tab with its cross never takes the user away from another
\* document: the visible one stays current unless it is the one closed.
CloseKeepsCurrent ==
    [][\A visible, close \in bar.tabs :
           /\ Host(visible, None, close)
           /\ visible \in Indices(ctx) /\ visible # close
           => CurrentDoc(ctx') = DocAt(ctx, visible)]_vars

\* Two frames after the last request the tab bar has caught up: the document
\* on screen is the one asked for, and its tab is the selected one.
Settles ==
    stage = "views" /\ quiet >= 2 =>
        wanted \in {NoDoc, CurrentDoc(ctx)} /\ (ctx.docs # <<>> => bar.selected = ctx.current)

\* README.md:27 gives Ctrl+W as "close tab", the menu item is "Close current
\* tab": it would close the document the user last asked to see.  The tab bar
\* applies a switch one frame late and render_host sets current_doc back to
\* the old tab meanwhile, so a Ctrl+W that arrives in that frame (typed while
\* a large file loads, say) closes the old tab's document.
CtrlWClosesWanted ==
    [][Keys(NoDoc, TRUE, 0) /\ ctx.docs # <<>> => ~\E i \in Indices(ctx') : DocAt(ctx', i) = wanted]_vars
=============================================================================
