------------------------------ MODULE Platform ------------------------------
(***************************************************************************)
(* The platform layer (platform/Win32DX11.cpp) under the loop of App::run: *)
(* the message pump with wnd_proc, the queue of dropped files, the swap    *)
(* chain with its render target, start-up and shutdown, and the file       *)
(* dialog, whose own message loop calls wnd_proc in the middle of a frame. *)
(* Windows and D3D are external; a size is <<width, height>>.              *)
(***************************************************************************)
EXTENDS Naturals, SequencesExt, Selection

CONSTANTS Size,       \* client sizes the window can have; a side may be 0
          MaxFiles,   \* bound: files dropped in a behaviour, numbered as they come
          MaxItems    \* bound: items of one drop

ASSUME SizeAssumption == Size \subseteq Nat \X Nat
ASSUME BoundAssumption == MaxFiles \in Nat /\ MaxItems \in Nat

VARIABLES acquired,  \* what startup acquired: "class", "window", "device", "imgui"
          swap,      \* size of the swap chain's buffers
          rtv,       \* g_rtv: the size of the buffers it views, NoTarget or NotMade
          views,     \* D3D (external): views of the buffers that are alive
          request,   \* g_resize_w, g_resize_h
          dropped,   \* g_dropped
          posted,    \* the thread's posted messages: the items dropped, or CloseMessage
          quit,      \* PostQuitMessage was called; WM_QUIT comes after all posted messages
          stage,     \* where App::run is
          modal      \* GetOpenFileNameW runs its message loop
VARIABLES size,      \* history: the last client size reported, but for minimising
          opened,    \* history: dropped files handed to open_document
          files      \* history: files dropped so far

device == <<acquired, swap, rtv, views>>
inbox == <<dropped, posted, quit>>
history == <<size, opened, files>>
vars == <<device, request, inbox, stage, modal, history>>

NoSize == <<0, 0>>
NoTarget == <<>>          \* g_rtv is null: there are no buffers
NotMade == <<0>>          \* g_rtv is null: D3D made no view of the buffers
NoName == 0               \* a dropped item without a path
CloseMessage == <<>>
File == 1..MaxFiles
Stage == {"start", "pump", "drops", "menu", "keys", "present", "ended"}
Visible(s) == s[1] # 0 /\ s[2] # 0
HasWindow == "window" \in acquired

-----------------------------------------------------------------------------
\* wnd_proc.  WM_SIZE (WM_DPICHANGED sends one too): minimising is no size.
\* Mutant: it is.
OnSizeAlways(s, minimized) == s
OnSize(s, minimized) == IF minimized THEN request ELSE s

\* WM_DROPFILES: items without a path are skipped.  Mutant: the first of them
\* ends the loop.
PathsBefore(items) ==
    SubSeq(items, 1, SelectInSeq(items \o <<NoName>>, LAMBDA f : f = NoName) - 1)
Paths(items) == Kept(items, Range(items) \ {NoName})

\* WM_DESTROY posts WM_QUIT.  Mutant: it is not handled.
OnDestroyIgnored(q) == q
OnDestroy(q) == TRUE

\* DispatchMessage of the oldest posted message.  WM_CLOSE destroys the window,
\* and Windows discards the messages still posted to it.
Dispatch ==
    /\ posted # <<>>
    /\ IF Head(posted) = CloseMessage
       THEN /\ acquired' = acquired \ {"window"} /\ posted' = <<>> /\ quit' = OnDestroy(quit)
            /\ UNCHANGED dropped
       ELSE /\ dropped' = dropped \o Paths(Head(posted)) /\ posted' = Tail(posted)
            /\ UNCHANGED <<acquired, quit>>
    /\ UNCHANGED <<swap, rtv, views, request, stage, modal, history>>

-----------------------------------------------------------------------------
\* The environment.  It posts messages at any time (bound: one WM_CLOSE, since
\* the first has the others discarded); a size is reported only while the
\* thread is in a message loop.
Post(message, n) ==
    /\ HasWindow
    /\ files + n <= MaxFiles
    /\ posted' = Append(posted, message) /\ files' = files + n
    /\ UNCHANGED <<device, request, dropped, quit, stage, modal, size, opened>>

\* Any number of items, of which some may have no path.  (A drop without any
\* path changes nothing.)
PostDrop ==
    \E items \in BoundedSeq({NoName} \cup File, MaxItems) :
        LET named == Kept(items, File)
        IN  /\ named # <<>>
            /\ named = [i \in 1..Len(named) |-> files + i]
            /\ Post(items, Len(named))
PostClose == CloseMessage \notin Range(posted) /\ Post(CloseMessage, 0)

InMessageLoop == stage = "pump" \/ modal
Report(s, minimized) ==
    /\ InMessageLoop /\ HasWindow
    /\ request' = OnSize(s, minimized)
    /\ size' = IF minimized THEN size ELSE s
    /\ UNCHANGED <<device, inbox, stage, modal, opened, files>>
Resized == (\E s \in Size : Report(s, FALSE)) \/ Report(NoSize, TRUE)

\* The user ends the dialog; it ends by itself when its owner is destroyed.
AnswerDialog ==
    /\ modal /\ modal' = FALSE
    /\ stage' = IF stage = "menu" THEN "keys" ELSE "present"
    /\ UNCHANGED <<device, request, inbox, history>>

-----------------------------------------------------------------------------
\* Views alive after cleanup_render_target.  Mutant: it is forgotten.
CleanupNothing == views
CleanupRenderTarget == IF rtv \in {NoTarget, NotMade} THEN views ELSE views - 1

\* ResizeBuffers (external) fails while a view of the buffers is alive.
ResizeBuffers(alive, s) == IF alive = 0 THEN s ELSE swap
\* Neither GetBuffer nor CreateRenderTargetView need succeed; nobody asks.
CreateRenderTarget(alive, buffers) ==
    \/ rtv' = buffers /\ views' = alive + 1
    \/ rtv' = NotMade /\ views' = alive

\* create_device, whose buffers take the size of the window; cleanup_device.
CreateDevice(s) == swap' = s /\ CreateRenderTarget(views, s)
CleanupDevice == swap' = NoSize /\ rtv' = NoTarget /\ views' = CleanupRenderTarget

\* startup.  ShowWindow reports the first size unless the window starts
\* minimized.  A device that cannot be made takes the window with it.  Mutant:
\* the window is left.
LeftWithoutDeviceSlip == {"window"}
LeftWithoutDevice == {}
StartUp ==
    /\ stage = "start"
    /\ \E s \in {x \in Size : Visible(x)}, first \in {x \in Size : Visible(x)} \cup {NoSize} :
           /\ acquired' = {"class", "window", "device", "imgui"}
           /\ CreateDevice(s)
           /\ request' = first
           /\ size' = IF first = NoSize THEN s ELSE first
    /\ stage' = "pump"
    /\ UNCHANGED <<inbox, modal, opened, files>>
StartUpFails ==
    /\ stage = "start" /\ stage' = "ended"
    /\ \/ acquired' = {"class"} /\ UNCHANGED quit                          \* no window
       \/ acquired' = LeftWithoutDevice /\ quit' = OnDestroy(quit)         \* no device
    /\ UNCHANGED <<swap, rtv, views, request, dropped, posted, modal, history>>

\* pump_messages: dispatch while there are messages; WM_QUIT ends the loop of
\* run, and shutdown releases everything; else a size asked for is applied.
PumpDispatch == stage = "pump" /\ Dispatch
PumpQuit ==
    /\ stage = "pump" /\ posted = <<>> /\ quit
    /\ stage' = "ended"
    /\ acquired' = {} /\ CleanupDevice
    /\ quit' = HasWindow                      \* its WM_DESTROY posts another
    /\ UNCHANGED <<request, dropped, posted, modal, history>>
PumpDone ==
    /\ stage = "pump" /\ posted = <<>> /\ ~quit
    /\ stage' = "drops"
    /\ IF Visible(request)
       THEN /\ swap' = ResizeBuffers(CleanupRenderTarget, request)
            /\ CreateRenderTarget(CleanupRenderTarget, swap')
            /\ request' = NoSize
       ELSE UNCHANGED <<swap, rtv, views, request>>
    /\ UNCHANGED <<acquired, inbox, modal, history>>

\* handle_file_drops with pop_dropped_file.  Mutant: one file is left.
MoreDropsSlip == Len(dropped) > 1
MoreDrops == dropped # <<>>
OpenDropped ==
    /\ stage = "drops" /\ MoreDrops
    /\ dropped' = Tail(dropped) /\ opened' = Append(opened, Head(dropped))
    /\ UNCHANGED <<device, request, posted, quit, stage, modal, size, files>>
DropsDone ==
    /\ stage = "drops" /\ ~MoreDrops /\ stage' = "menu"
    /\ UNCHANGED <<device, request, inbox, modal, history>>

\* The menu and the shortcuts: nothing for this layer, the file dialog, or Exit.
OpenDialog ==
    /\ stage \in {"menu", "keys"} /\ ~modal /\ modal' = TRUE
    /\ UNCHANGED <<device, request, inbox, stage, history>>
DialogDispatch == modal /\ Dispatch
MenuDone ==
    /\ stage = "menu" /\ ~modal /\ stage' = "keys"
    /\ quit' \in {quit, TRUE}                 \* request_exit
    /\ UNCHANGED <<device, request, dropped, posted, modal, history>>
KeysDone ==
    /\ stage = "keys" /\ ~modal /\ stage' = "present"
    /\ UNCHANGED <<device, request, inbox, modal, history>>

Present ==
    /\ stage = "present" /\ stage' = "pump"
    /\ UNCHANGED <<device, request, inbox, modal, history>>

Ended == stage = "ended" /\ UNCHANGED vars

-----------------------------------------------------------------------------
Init ==
    /\ acquired = {} /\ swap = NoSize /\ rtv = NoTarget /\ views = 0
    /\ request = NoSize /\ dropped = <<>> /\ posted = <<>> /\ quit = FALSE
    /\ stage = "start" /\ modal = FALSE
    /\ size = NoSize /\ opened = <<>> /\ files = 0

Program ==
    \/ StartUp \/ StartUpFails
    \/ PumpDispatch \/ PumpQuit \/ PumpDone
    \/ OpenDropped \/ DropsDone
    \/ MenuDone \/ KeysDone \/ OpenDialog \/ DialogDispatch
    \/ Present

Environment == PostDrop \/ PostClose \/ Resized \/ AnswerDialog

Next == Program \/ Environment \/ Ended

\* The thread runs whenever it is not waiting for the user.
Spec == Init /\ [][Next]_vars /\ WF_vars(Program)

-----------------------------------------------------------------------------
InFrame == stage \in {"drops", "menu", "keys", "present"}

\* A frame draws on a view of the buffers the swap chain has, unless D3D made
\* none, and that is the only view, or the next resize would fail, although the
\* dialog runs wnd_proc.
TargetReady ==
    InFrame => /\ rtv \in {swap, NotMade} /\ views = (IF rtv = NotMade THEN 0 ELSE 1)
               /\ "device" \in acquired

\* A frame begins with buffers of the size of the window: a size reported
\* inside the last frame or in the pump is applied, also when minimising follows.
FrameFits == stage = "drops" /\ Visible(size) => swap = size

\* On every way out, start-up's early returns included, what was acquired is
\* released (the window class only by the paths that had a window).
Released ==
    stage = "ended" => acquired \subseteq {"class"} /\ views = 0

\* Dropped files are opened in the order they came, each once, none lost but
\* those Windows discards with the window.
Coming == Kept(FlattenSeq(posted), File)
Drops == INSTANCE DropQueue WITH
             waiting <- dropped \o Coming, taken <- opened,
             closed <- stage # "start" /\ ~HasWindow
ImplementsDropQueue == Drops!Spec

\* Nothing moves while a dialog is open; the liveness below is for users who
\* end their dialogs.
DialogsAnswered == []<>~modal

\* Every file dropped is opened unless the program is told to quit first.
Waits(f) == f \in Range(dropped \o Coming)
DropsOpened ==
    DialogsAnswered => \A f \in File : Waits(f) ~> (f \in Range(opened) \/ quit \/ stage = "ended")

\* Exit and closing the window end the program, also out of a dialog.
QuitEnds ==
    DialogsAnswered => (quit \/ (stage # "start" /\ ~HasWindow)) ~> (stage = "ended")
=============================================================================
