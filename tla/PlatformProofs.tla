--------------------------- MODULE PlatformProofs ---------------------------
(***************************************************************************)
(* Theorems about the platform layer, for any set of window sizes and any  *)
(* number of dropped files: the render target is always the swap chain's   *)
(* and the only one, a frame begins with buffers that fit the window, and  *)
(* whatever was acquired is released on every way out.  What documents     *)
(* take from Windows is given back by its owner and by nobody else: every  *)
(* handle of the kernel has exactly one owner, for any number of           *)
(* MappedFile objects and whichever calls of open fail; a PDB loader owns  *)
(* the module it holds, and dbghelp holds none without an open loader.     *)
(***************************************************************************)
EXTENDS Platform, Resources, SequenceLemmas

Running == stage = "pump" \/ InFrame

\* One view, of these buffers, or none if D3D made none.
Target(buffers, target, alive) ==
    target \in {buffers, NotMade} /\ alive = (IF target = NotMade THEN 0 ELSE 1)

\* The render target exists from start-up to shutdown, and only then.
Device ==
    /\ stage \in Stage
    /\ stage = "start" => rtv = NoTarget /\ views = 0
    /\ Running => swap \in Nat \X Nat /\ Target(swap, rtv, views) /\ "device" \in acquired
    /\ modal => stage \in {"menu", "keys"}

\* A size reported is asked for or already applied; the frame begins with
\* nothing asked for.
Fitted ==
    /\ Running /\ Visible(size) => IF Visible(request) THEN request = size ELSE swap = size
    /\ Running => request \in Nat \X Nat /\ size \in Nat \X Nat
    /\ stage = "drops" => ~Visible(request)

IInv == Device /\ Fitted /\ Released

\* A view of buffers is not the null pointer.
LEMMA PairIsTarget == NoTarget # NotMade /\ \A s \in Nat \X Nat : s \notin {NoTarget, NotMade}
<1>1. Len(NoTarget) = 0 /\ Len(NotMade) = 1
  BY DEF NoTarget, NotMade
<1>2. ASSUME NEW a \in Nat, NEW b \in Nat PROVE <<a, b>> \notin {NoTarget, NotMade}
  <2>1. Len(<<a, b>>) = 2
    OBVIOUS
  <2>2. QED  BY <1>1, <2>1
<1>3. QED  BY <1>1, <1>2

\* Releasing the target of buffers leaves no view, and making one of others
\* leaves at most that.
LEMMA TargetFacts ==
    ASSUME NEW s \in Nat \X Nat
    PROVE  /\ Target(s, rtv, views) => CleanupRenderTarget = 0
           /\ CreateRenderTarget(0, s) => Target(s, rtv', views')
<1>1. s \notin {NoTarget, NotMade}
  BY PairIsTarget
<1>2. Target(s, rtv, views) => CleanupRenderTarget = 0
  BY <1>1 DEF Target, CleanupRenderTarget
<1>3. CreateRenderTarget(0, s) => Target(s, rtv', views')
  BY <1>1 DEF Target, CreateRenderTarget
<1>4. QED  BY <1>2, <1>3

\* Sizes are pairs.
LEMMA SizeFacts == NoSize \in Nat \X Nat /\ ~Visible(NoSize) /\ \A s \in Size : s \in Nat \X Nat
BY SizeAssumption DEF NoSize, Visible

\* The frame's stages that leave the device and the sizes alone.
LEMMA DeviceKept ==
    ASSUME IInv, Running, Running', UNCHANGED <<swap, rtv, views, request, size>>,
           "device" \in acquired => "device" \in acquired',
           modal' => stage' \in {"menu", "keys"},
           stage' = "drops" => stage = "drops",
           stage' \in Stage
    PROVE  IInv'
<1>1. Device'
  BY DEF IInv, Device, Running, InFrame
<1>2. Fitted'
  BY DEF IInv, Fitted, Running, InFrame, Visible
<1>3. Released'
  BY DEF Released, Running, InFrame
<1>4. QED  BY <1>1, <1>2, <1>3 DEF IInv

LEMMA InitOK == Init => IInv
<1> SUFFICES ASSUME Init PROVE IInv
  OBVIOUS
<1>1. Device
  BY DEF Init, Device, Stage, Running, InFrame
<1>2. Fitted /\ Released
  BY DEF Init, Fitted, Released, Running, InFrame
<1>3. QED  BY <1>1, <1>2 DEF IInv

\* wnd_proc's messages, from the pump or from the dialog's loop.
LEMMA DispatchOK ==
    ASSUME IInv, Dispatch, Running
    PROVE  IInv'
<1>1. "device" \in acquired => "device" \in acquired'
  BY DEF Dispatch
<1>2. UNCHANGED <<swap, rtv, views, request, size, stage, modal>>
  BY DEF Dispatch, history
<1>3. Running' /\ (modal' => stage' \in {"menu", "keys"}) /\ stage' \in Stage
  BY <1>2 DEF IInv, Device, Running, InFrame
<1>4. QED  BY <1>1, <1>2, <1>3, DeviceKept

LEMMA StartUpOK ==
    ASSUME IInv, StartUp
    PROVE  IInv'
<1>1. PICK s \in Size, first \in Size \cup {NoSize} :
          /\ Visible(first) \/ first = NoSize
          /\ acquired' = {"class", "window", "device", "imgui"}
          /\ swap' = s /\ CreateRenderTarget(views, s)
          /\ request' = first
          /\ size' = IF first = NoSize THEN s ELSE first
  BY DEF StartUp, CreateDevice
<1>2. s \in Nat \X Nat /\ first \in Nat \X Nat /\ ~Visible(NoSize)
  BY SizeFacts
<1>3. stage = "start" /\ stage' = "pump" /\ modal' = modal
  BY DEF StartUp
<1>4. views = 0 /\ ~modal
  BY <1>3 DEF IInv, Device
<1>5. Device'
  <2>1. Target(s, rtv', views')
    BY <1>1, <1>2, <1>4, TargetFacts
  <2>2. QED  BY <1>1, <1>2, <1>3, <1>4, <2>1 DEF Device, Running, InFrame, Stage
<1>6. Fitted'
  BY <1>1, <1>2, <1>3 DEF Fitted, Running, InFrame, Visible
<1>7. Released'
  BY <1>3 DEF Released
<1>8. QED  BY <1>5, <1>6, <1>7 DEF IInv

\* The early returns of startup leave at most the window class.
LEMMA StartUpFailsOK ==
    ASSUME IInv, StartUpFails
    PROVE  IInv'
<1>1. /\ stage = "start" /\ stage' = "ended" /\ acquired' \subseteq {"class"}
      /\ views' = views /\ modal' = modal
  BY DEF StartUpFails, LeftWithoutDevice
<1>2. views = 0 /\ ~modal
  BY <1>1 DEF IInv, Device
<1>3. Device' /\ Fitted'
  BY <1>1, <1>2 DEF Device, Fitted, Running, InFrame, Stage
<1>4. QED  BY <1>1, <1>2, <1>3 DEF IInv, Released

\* shutdown
LEMMA PumpQuitOK ==
    ASSUME IInv, PumpQuit
    PROVE  IInv'
<1>1. stage = "pump" /\ stage' = "ended" /\ acquired' = {} /\ views' = CleanupRenderTarget /\ modal' = modal
  BY DEF PumpQuit, CleanupDevice
<1>2. swap \in Nat \X Nat /\ Target(swap, rtv, views) /\ ~modal
  BY <1>1 DEF IInv, Device, Running
<1>3. CleanupRenderTarget = 0
  BY <1>2, TargetFacts
<1>4. Device' /\ Fitted'
  BY <1>1, <1>2 DEF Device, Fitted, Running, InFrame, Stage
<1>5. QED  BY <1>1, <1>3, <1>4 DEF IInv, Released

\* The resize: the one view is released before, so ResizeBuffers succeeds.
LEMMA PumpDoneOK ==
    ASSUME IInv, PumpDone
    PROVE  IInv'
<1>1. stage = "pump" /\ stage' = "drops" /\ acquired' = acquired /\ modal' = modal /\ size' = size
  BY DEF PumpDone, history
<1>2. /\ swap \in Nat \X Nat /\ Target(swap, rtv, views) /\ "device" \in acquired /\ ~modal
      /\ request \in Nat \X Nat /\ size \in Nat \X Nat
      /\ Visible(size) => IF Visible(request) THEN request = size ELSE swap = size
  BY <1>1 DEF IInv, Device, Fitted, Running
<1>3. CASE Visible(request)
  <2>1. CleanupRenderTarget = 0
    BY <1>2, TargetFacts
  <2>2. swap' = request /\ CreateRenderTarget(0, request) /\ request' = NoSize
    BY <1>3, <2>1 DEF PumpDone, ResizeBuffers
  <2>3. Device'
    <3>1. Target(request, rtv', views')
      BY <1>2, <2>2, TargetFacts
    <3>2. QED  BY <1>1, <1>2, <2>2, <3>1 DEF Device, Running, InFrame, Stage
  <2>4. Fitted'
    BY <1>1, <1>2, <1>3, <2>2, SizeFacts DEF Fitted, Visible
  <2>5. QED  BY <1>1, <2>3, <2>4 DEF IInv, Released
<1>4. CASE ~Visible(request)
  <2>1. swap' = swap /\ rtv' = rtv /\ views' = views /\ request' = request
    BY <1>4 DEF PumpDone
  <2>2. Device'
    BY <1>1, <1>2, <2>1 DEF Device, Running, InFrame, Stage
  <2>3. Fitted'
    BY <1>1, <1>2, <1>4, <2>1 DEF Fitted, Visible
  <2>4. QED  BY <1>1, <2>2, <2>3 DEF IInv, Released
<1>5. QED  BY <1>3, <1>4

\* A size reported replaces the one asked for.
LEMMA ReportOK ==
    ASSUME IInv, Resized
    PROVE  IInv'
<1>1. PICK s \in Size \cup {NoSize}, minimized \in BOOLEAN : Report(s, minimized)
  BY DEF Resized
<1>2. /\ InMessageLoop
      /\ request' = IF minimized THEN request ELSE s
      /\ size' = IF minimized THEN size ELSE s
      /\ UNCHANGED <<acquired, swap, rtv, views, stage, modal>>
  BY <1>1 DEF Report, OnSize, device
<1>3. Running /\ Running' /\ stage # "drops" /\ stage # "ended"
  BY <1>2 DEF IInv, Device, InMessageLoop, Running, InFrame
<1>4. Device'
  BY <1>2 DEF IInv, Device, Running, InFrame
<1>5. Fitted'
  <2>1. CASE minimized
    BY <1>2, <1>3, <2>1 DEF IInv, Fitted, Visible
  <2>2. CASE ~minimized
    <3>1. request' = s /\ size' = s /\ s \in Nat \X Nat /\ stage' # "drops"
      BY <1>2, <1>3, <2>2, SizeFacts
    <3>2. Visible(size)' => Visible(request)'
      BY <3>1 DEF Visible
    <3>3. QED  BY <3>1, <3>2 DEF Fitted
  <2>3. QED  BY <2>1, <2>2
<1>6. QED  BY <1>2, <1>3, <1>4, <1>5 DEF IInv, Released

LEMMA Inductive == Spec => []IInv
<1>1. IInv /\ [Next]_vars => IInv'
  <2> SUFFICES ASSUME IInv, [Next]_vars PROVE IInv'
    OBVIOUS
  <2>1. CASE PumpDispatch
    BY <2>1, DispatchOK DEF PumpDispatch, Running
  <2>2. CASE DialogDispatch
    BY <2>2, DispatchOK DEF DialogDispatch, Running, InFrame, IInv, Device
  <2>3. CASE OpenDropped \/ DropsDone \/ MenuDone \/ KeysDone \/ OpenDialog \/ Present
    <3>1. /\ Running /\ Running' /\ stage' \in Stage
          /\ stage' = "drops" => stage = "drops"
      BY <2>3 DEF OpenDropped, DropsDone, MenuDone, KeysDone, OpenDialog, Present,
                  Running, InFrame, Stage
    <3>2. UNCHANGED <<acquired, swap, rtv, views, request, size>>
      BY <2>3 DEF OpenDropped, DropsDone, MenuDone, KeysDone, OpenDialog, Present, device, history
    <3>3. modal' => stage' \in {"menu", "keys"}
      BY <2>3 DEF IInv, Device, OpenDropped, DropsDone, MenuDone, KeysDone, OpenDialog, Present
    <3>4. QED  BY <3>1, <3>2, <3>3, DeviceKept
  <2>4. CASE AnswerDialog
    <3>1. modal /\ stage \in {"menu", "keys"} /\ modal' = FALSE /\ stage' \in {"keys", "present"}
      BY <2>4 DEF AnswerDialog, IInv, Device
    <3>2. UNCHANGED <<acquired, swap, rtv, views, request, size>>
      BY <2>4 DEF AnswerDialog, device, history
    <3>3. QED  BY <3>1, <3>2, DeviceKept DEF Running, InFrame, Stage
  <2>5. CASE PostDrop \/ PostClose \/ Ended \/ UNCHANGED vars
    <3>1. UNCHANGED <<acquired, swap, rtv, views, request, size, stage, modal>>
      BY <2>5 DEF PostDrop, PostClose, Post, Ended, vars, device, history
    <3>2. QED
      BY <3>1 DEF IInv, Device, Fitted, Released, Running, InFrame, Visible
  <2>6. QED
    BY <2>1, <2>2, <2>3, <2>4, <2>5, StartUpOK, StartUpFailsOK, PumpQuitOK, PumpDoneOK, ReportOK
       DEF Next, Program, Environment
<1>2. QED  BY <1>1, InitOK, PTL DEF Spec

\* A frame draws on the one view of the buffers the swap chain has, or on none
\* where D3D made none, whatever the file dialog's message loop did in the middle
\* of it.
THEOREM TargetReadyCorrect == Spec => []TargetReady
<1>1. IInv => TargetReady
  BY DEF IInv, Device, Target, TargetReady, Running
<1>2. QED  BY <1>1, Inductive, PTL

\* A frame begins with buffers of the size last reported.
THEOREM FrameFitsCorrect == Spec => []FrameFits
<1>1. IInv => FrameFits
  BY DEF IInv, Fitted, FrameFits, Running, InFrame
<1>2. QED  BY <1>1, Inductive, PTL

\* On every way out, start-up's early returns included, all is released.
THEOREM ReleasedCorrect == Spec => []Released
<1>1. IInv => Released
  BY DEF IInv
<1>2. QED  BY <1>1, Inductive, PTL

-----------------------------------------------------------------------------
\* The queue of dropped files.  What a message can carry: files and items without
\* a path.  Nothing is posted to a window that is gone, and before start-up there
\* is no window and no file.
Item == 0..MaxFiles

QueueOK ==
    /\ dropped \in Seq(File) /\ posted \in Seq(Seq(Item)) /\ files \in Nat
    /\ ~HasWindow => posted = <<>>
    /\ stage = "start" => acquired = {} /\ dropped = <<>>

ComingOf(p) == Kept(FlattenSeq(p), File)
Waiting == dropped \o Coming
Gone == stage # "start" /\ ~HasWindow

LEMMA ItemFacts == 0 \in Item /\ File \subseteq Item /\ \A i \in Item : i # NoName <=> i \in File
BY BoundAssumption DEF Item, File, NoName

\* What is kept of a message are files.
LEMMA KeptFiles ==
    ASSUME NEW m \in Seq(Item)
    PROVE  Kept(m, File) \in Seq(File)
<1>1. Kept(m, File) \in Seq(Item \cap File)
  BY KeptElements
<1>2. Item \cap File = File
  BY ItemFacts
<1>3. QED  BY <1>1, <1>2

\* The files of the posted messages: of none, of one more, and of the oldest and
\* the rest.
LEMMA ComingFacts ==
    ASSUME NEW p \in Seq(Seq(Item))
    PROVE  /\ ComingOf(p) \in Seq(File)
           /\ \A m \in Seq(Item) : ComingOf(Append(p, m)) = ComingOf(p) \o Kept(m, File)
           /\ p # <<>> => ComingOf(p) = Kept(Head(p), File) \o ComingOf(Tail(p))
<1>1. FlattenSeq(p) \in Seq(Item)
  BY FlatTyped
<1>2. ComingOf(p) \in Seq(File)
  BY <1>1, KeptFiles DEF ComingOf
<1>3. ASSUME NEW m \in Seq(Item) PROVE ComingOf(Append(p, m)) = ComingOf(p) \o Kept(m, File)
  <2>1. FlattenSeq(Append(p, m)) = FlattenSeq(p) \o m
    BY <1>1, FlatOfMore
  <2>2. QED  BY <1>1, <2>1, KeptConcat DEF ComingOf
<1>4. ASSUME p # <<>> PROVE ComingOf(p) = Kept(Head(p), File) \o ComingOf(Tail(p))
  <2>1. Head(p) \in Seq(Item) /\ Tail(p) \in Seq(Seq(Item))
    BY <1>4, HeadTailProperties
  <2>2. FlattenSeq(Tail(p)) \in Seq(Item)
    BY <2>1, FlatTyped
  <2>3. FlattenSeq(p) = Head(p) \o FlattenSeq(Tail(p))
    BY <1>4, FlatTyped
  <2> DEFINE a == Head(p)
             b == FlattenSeq(Tail(p))
  <2>4. a \in Seq(Item) /\ b \in Seq(Item)
    BY <2>1, <2>2
  <2> HIDE DEF a, b
  <2>5. Kept(a \o b, File) = Kept(a, File) \o Kept(b, File)
    BY <2>4, KeptConcat
  <2>6. QED  BY <2>3, <2>5 DEF a, b, ComingOf
<1>5. QED  BY <1>2, <1>3, <1>4

LEMMA NothingComing == ComingOf(<<>>) = <<>>
BY FlatOfNone, KeptOfNone DEF ComingOf

\* WM_DROPFILES takes over the files of a message, without the items that have
\* no path.
LEMMA PathsAreFiles ==
    ASSUME NEW m \in Seq(Item)
    PROVE  Paths(m) = Kept(m, File) /\ Paths(m) \in Seq(File)
<1> DEFINE S == Range(m)
           K == S \ {NoName}
<1>1. S \subseteq Item
  BY ElementOfSeq DEF Range
<1>2. m \in Seq(S)
  <2>1. \A i \in 1..Len(m) : m[i] \in S
    BY DEF Range
  <2>2. QED  BY <2>1, SeqDef
<1>3. \A e \in S : e \in K <=> e \in File
  BY <1>1, ItemFacts
<1>4. Paths(m) = Kept(m, K)
  BY DEF Paths
<1> HIDE DEF S, K
<1>5. Kept(m, K) = Kept(m, File)
  BY <1>2, <1>3, KeptSameSet
<1>6. Kept(m, File) \in Seq(File)
  BY KeptFiles
<1>7. QED  BY <1>4, <1>5, <1>6

LEMMA InitQueue == Init => QueueOK
BY DEF Init, QueueOK, HasWindow

\* wnd_proc keeps the types, and a window that goes takes its messages with it.
LEMMA DispatchQueue ==
    ASSUME QueueOK, Dispatch
    PROVE  /\ QueueOK'
           /\ \/ dropped' \o Coming' = dropped \o Coming /\ acquired' = acquired
              \/ Coming' = <<>> /\ dropped' = dropped /\ acquired' = acquired \ {"window"} /\ HasWindow
<1>1. Head(posted) \in Seq(Item) /\ Tail(posted) \in Seq(Seq(Item)) /\ posted \in Seq(Seq(Item))
      /\ dropped \in Seq(File) /\ posted # <<>> /\ HasWindow /\ stage # "start" /\ stage' = stage
      /\ files' = files /\ files \in Nat
  BY HeadTailProperties DEF QueueOK, Dispatch, history, HasWindow
<1>2. CASE Head(posted) = CloseMessage
  <2>1. acquired' = acquired \ {"window"} /\ posted' = <<>> /\ dropped' = dropped
    BY <1>2 DEF Dispatch
  <2>2. Coming' = ComingOf(posted')
    BY DEF Coming, ComingOf
  <2>3. Coming' = <<>>
    BY <2>1, <2>2, NothingComing
  <2>4. QueueOK'
    BY <1>1, <2>1 DEF QueueOK, HasWindow
  <2>5. QED  BY <1>1, <2>1, <2>3, <2>4
<1>3. CASE Head(posted) # CloseMessage
  <2>1. acquired' = acquired /\ dropped' = dropped \o Paths(Head(posted)) /\ posted' = Tail(posted)
    BY <1>3 DEF Dispatch
  <2> DEFINE a == Paths(Head(posted))
             b == ComingOf(Tail(posted))
  <2>2. a = Kept(Head(posted), File) /\ a \in Seq(File)
    BY <1>1, PathsAreFiles
  <2>3. b \in Seq(File) /\ Coming = Kept(Head(posted), File) \o b
    BY <1>1, ComingFacts DEF Coming, ComingOf
  <2>4. Coming' = ComingOf(posted')
    BY DEF Coming, ComingOf
  <2>5. Coming' = b
    BY <2>1, <2>4
  <2>6. dropped' = dropped \o a
    BY <2>1
  <2> HIDE DEF a, b
  <2>c. dropped \in Seq(File) /\ a \in Seq(File) /\ b \in Seq(File)
    BY <1>1, <2>2, <2>3
  <2>7. (dropped \o a) \o b = dropped \o (a \o b) /\ dropped \o a \in Seq(File)
    <3>1. (dropped \o a) \o b = dropped \o (a \o b)
      BY <2>c, ConcatAssociative, SMTT(30)
    <3>2. dropped \o a \in Seq(File)
      BY <2>c, ConcatProperties
    <3>3. QED  BY <3>1, <3>2
  <2>8. QueueOK'
    BY <1>1, <2>1, <2>6, <2>7 DEF QueueOK, HasWindow
  <2>9. QED  BY <2>1, <2>2, <2>3, <2>5, <2>6, <2>7, <2>8
<1>4. QED  BY <1>2, <1>3

\* A message is posted: its files join the queue.
LEMMA PostQueue ==
    ASSUME QueueOK, NEW m \in Seq(Item), NEW n \in Nat, Post(m, n)
    PROVE  /\ QueueOK' /\ HasWindow
           /\ dropped' \o Coming' = (dropped \o Coming) \o Kept(m, File)
           /\ acquired' = acquired /\ opened' = opened /\ stage' = stage /\ dropped' = dropped
<1>1. /\ posted \in Seq(Seq(Item)) /\ dropped \in Seq(File) /\ files \in Nat
      /\ stage = "start" => acquired = {} /\ dropped = <<>>
  BY DEF QueueOK
<1>2. /\ HasWindow /\ posted' = Append(posted, m) /\ files' = files + n
      /\ acquired' = acquired /\ opened' = opened /\ stage' = stage /\ dropped' = dropped
  BY DEF Post, device
<1>3. posted' \in Seq(Seq(Item))
  BY <1>1, <1>2, AppendProperties
<1>4. Coming = ComingOf(posted) /\ Coming' = ComingOf(posted')
  BY DEF Coming, ComingOf
<1> DEFINE a == ComingOf(posted)
           b == Kept(m, File)
<1>5. a \in Seq(File) /\ b \in Seq(File) /\ Coming' = a \o b
  BY <1>1, <1>2, <1>4, ComingFacts, KeptFiles
<1> HIDE DEF a, b
<1>6. (dropped \o a) \o b = dropped \o (a \o b)
  <2>1. dropped \in Seq(File) /\ a \in Seq(File) /\ b \in Seq(File)
    BY <1>1, <1>5
  <2>2. QED  BY <2>1, ConcatAssociative, SMTT(30)
<1>7. QueueOK'
  BY <1>1, <1>2, <1>3 DEF QueueOK, HasWindow
<1>8. QED  BY <1>2, <1>4, <1>5, <1>6, <1>7 DEF a, b

\* A state of the abstract queue that does not change, and its closing.
LEMMA QueueStutter ==
    ASSUME dropped' \o Coming' = dropped \o Coming, opened' = opened, Gone' <=> Gone
    PROVE  UNCHANGED Drops!vars
BY DEF Drops!vars, Gone, HasWindow

LEMMA QueueCloses ==
    ASSUME NEW n \in 0..Len(dropped \o Coming), ~Gone, Gone', opened' = opened,
           dropped' \o Coming' = SubSeq(dropped \o Coming, 1, n)
    PROVE  Drops!Next
<1>1. Drops!Close(n)
  BY DEF Drops!Close, Gone, HasWindow
<1>2. QED  BY <1>1 DEF Drops!Next

\* Files dropped on the window arrive, however many at a time.
LEMMA PostDropArrives ==
    ASSUME QueueOK, PostDrop
    PROVE  QueueOK' /\ Drops!Next
<1>1. PICK m \in BoundedSeq({NoName} \cup File, MaxItems) : Post(m, Len(Kept(m, File)))
  BY DEF PostDrop
<1>2. m \in Seq(Item)
  <2>1. PICK k \in 0..MaxItems : m \in [1..k -> {NoName} \cup File]
    BY <1>1 DEF BoundedSeq, SeqOf
  <2>2. k \in Nat /\ {NoName} \cup File \subseteq Item
    BY BoundAssumption, ItemFacts DEF NoName
  <2>3. m \in [1..k -> Item]
    BY <2>1, <2>2
  <2>4. QED  BY <2>2, <2>3, SeqDef
<1> DEFINE b == Kept(m, File)
           n == Len(b)
           w == dropped \o Coming
<1>3. b \in Seq(File) /\ n \in Nat
  BY <1>2, KeptFiles, LenProperties
<1>4. Post(m, n)
  BY <1>1
<1>5. w \in Seq(File)
  <2>1. Coming \in Seq(File) /\ dropped \in Seq(File)
    BY ComingFacts DEF QueueOK, Coming, ComingOf
  <2>2. QED  BY <2>1, ConcatProperties
<1> HIDE DEF n
<1>6. /\ QueueOK' /\ HasWindow
      /\ dropped' \o Coming' = w \o b
      /\ acquired' = acquired /\ opened' = opened /\ stage' = stage
  BY <1>2, <1>3, <1>4, PostQueue
<1> HIDE DEF b, w
<1>7. w \o b \in Seq(File) /\ Drops!IsPrefix(w, w \o b)
  <2>1. w \o b \in Seq(File)
    BY <1>3, <1>5, ConcatProperties
  <2>2. SubSeq(w \o b, 1, Len(w)) = w /\ Len(w) \in 0..Len(w \o b) /\ w = SubSeq(w, 1, Len(w))
    BY <1>3, <1>5, PrefixOfConcat, WholeSeq
  <2>3. QED  BY <2>1, <2>2 DEF Drops!IsPrefix
<1>8. Drops!Arrive
  BY <1>6, <1>7 DEF Drops!Arrive, HasWindow, w
<1>9. QED  BY <1>6, <1>8 DEF Drops!Next

\* The frame takes the oldest file.
LEMMA OpenDroppedTakes ==
    ASSUME QueueOK, OpenDropped
    PROVE  QueueOK' /\ Drops!Next
<1>1. /\ dropped # <<>> /\ dropped \in Seq(File) /\ posted \in Seq(Seq(Item)) /\ files \in Nat
      /\ dropped' = Tail(dropped) /\ opened' = Append(opened, Head(dropped))
      /\ acquired' = acquired /\ posted' = posted /\ stage' = stage /\ stage = "drops" /\ files' = files
  BY DEF QueueOK, OpenDropped, MoreDrops, device
<1> DEFINE c == ComingOf(posted)
<1>2. Coming = c /\ Coming' = c /\ c \in Seq(File)
  BY <1>1, ComingFacts DEF Coming, ComingOf
<1> HIDE DEF c
<1>3. dropped \o c # <<>> /\ Head(dropped \o c) = Head(dropped) /\ Tail(dropped \o c) = Tail(dropped) \o c
  BY <1>1, <1>2, HeadTailOfConcat
<1>4. QueueOK'
  BY <1>1, HeadTailProperties DEF QueueOK, HasWindow
<1>5. Drops!Take
  BY <1>1, <1>2, <1>3 DEF Drops!Take, HasWindow
<1>6. QED  BY <1>4, <1>5 DEF Drops!Next

\* Whatever is left alone by a step between "start" and the end.
LEMMA QueueAlone ==
    ASSUME QueueOK, UNCHANGED <<acquired, dropped, posted, opened, files>>,
           stage' = "start" <=> stage = "start"
    PROVE  QueueOK' /\ UNCHANGED Drops!vars
<1>1. Coming' = Coming
  BY DEF Coming
<1>2. QED  BY <1>1, QueueStutter DEF QueueOK, HasWindow, Gone

LEMMA QueueStep ==
    ASSUME IInv, QueueOK, [Next]_vars
    PROVE  QueueOK' /\ [Drops!Next]_(Drops!vars)
<1>0. /\ posted \in Seq(Seq(Item)) /\ dropped \in Seq(File) /\ Coming \in Seq(File)
      /\ dropped \o Coming \in Seq(File)
  <2>1. Coming \in Seq(File)
    BY ComingFacts DEF QueueOK, Coming, ComingOf
  <2>2. QED  BY <2>1, ConcatProperties DEF QueueOK
<1>1. CASE StartUp
  <2>1. /\ UNCHANGED <<dropped, posted, opened, files>>
        /\ stage = "start" /\ stage' = "pump" /\ "window" \in acquired'
    BY <1>1 DEF StartUp, inbox
  <2>2. Coming' = Coming
    BY <2>1 DEF Coming
  <2>3. ~Gone /\ ~Gone'
    BY <2>1 DEF Gone, HasWindow
  <2>4. posted = <<>>
    BY <2>1 DEF QueueOK, HasWindow
  <2>5. QueueOK'
    BY <2>1, <2>4 DEF QueueOK, HasWindow
  <2>6. QED  BY <2>1, <2>2, <2>3, <2>5, QueueStutter
<1>2. CASE StartUpFails
  <2>1. /\ UNCHANGED <<dropped, posted, opened, files>>
        /\ stage = "start" /\ stage' = "ended" /\ "window" \notin acquired'
    BY <1>2 DEF StartUpFails, LeftWithoutDevice, history
  <2>2. Coming' = Coming
    BY <2>1 DEF Coming
  <2>3. ~Gone /\ Gone'
    BY <2>1 DEF Gone, HasWindow
  <2>4. dropped = <<>> /\ posted = <<>>
    BY <2>1 DEF QueueOK, HasWindow
  <2>5. QueueOK'
    BY <2>1, <2>4 DEF QueueOK, HasWindow
  <2> DEFINE w == dropped \o Coming
             n == Len(w)
  <2>6. w = SubSeq(w, 1, n) /\ n \in 0..Len(w)
    BY <1>0, WholeSeq
  <2>7. Drops!Next
    <3> HIDE DEF n
    <3>1. QED  BY <2>1, <2>2, <2>3, <2>6, QueueCloses
  <2>8. QED  BY <2>5, <2>7
<1>3. CASE PumpDispatch \/ DialogDispatch
  <2>1. Dispatch /\ stage # "start" /\ stage' = stage /\ opened' = opened
    BY <1>3 DEF PumpDispatch, DialogDispatch, Dispatch, IInv, Device, history
  <2>2. QueueOK'
    BY <2>1, DispatchQueue
  <2>3. CASE dropped' \o Coming' = dropped \o Coming /\ acquired' = acquired
    <3>1. Gone' <=> Gone
      BY <2>1, <2>3 DEF Gone, HasWindow
    <3>2. QED  BY <2>1, <2>2, <2>3, <3>1, QueueStutter
  <2>4. CASE Coming' = <<>> /\ dropped' = dropped /\ acquired' = acquired \ {"window"} /\ HasWindow
    <3>1. ~Gone /\ Gone'
      BY <2>1, <2>4 DEF Gone, HasWindow
    <3>2. dropped' \o Coming' = dropped
      BY <1>0, <2>4, ConcatEmptySeq
    <3> DEFINE n == Len(dropped)
    <3>3. SubSeq(dropped \o Coming, 1, n) = dropped /\ n \in 0..Len(dropped \o Coming)
      BY <1>0, PrefixOfConcat
    <3> HIDE DEF n
    <3>4. Drops!Next
      BY <2>1, <3>1, <3>2, <3>3, QueueCloses
    <3>5. QED  BY <2>2, <3>4
  <2>5. QED  BY <2>1, <2>3, <2>4, DispatchQueue
<1>4. CASE PumpQuit
  <2>1. /\ UNCHANGED <<dropped, posted, opened, files>> /\ posted = <<>>
        /\ stage = "pump" /\ stage' = "ended" /\ acquired' = {}
    BY <1>4 DEF PumpQuit, history
  <2>2. Coming' = Coming
    BY <2>1 DEF Coming
  <2>3. QueueOK'
    BY <2>1 DEF QueueOK, HasWindow
  <2>4. CASE Gone
    BY <2>1, <2>2, <2>3, <2>4, QueueStutter DEF Gone, HasWindow
  <2>5. CASE ~Gone
    <3> DEFINE w == dropped \o Coming
               n == Len(w)
    <3>1. w = SubSeq(w, 1, n) /\ n \in 0..Len(w)
      BY <1>0, WholeSeq
    <3>2. Gone'
      BY <2>1 DEF Gone, HasWindow
    <3>3. Drops!Next
      <4> HIDE DEF n
      <4>1. QED  BY <2>1, <2>2, <2>5, <3>1, <3>2, QueueCloses
    <3>4. QED  BY <2>3, <3>3
  <2>6. QED  BY <2>4, <2>5
<1>5. CASE \/ PumpDone \/ DropsDone \/ MenuDone \/ KeysDone \/ OpenDialog \/ Present
           \/ AnswerDialog \/ Resized \/ Ended \/ UNCHANGED vars
  <2>1. UNCHANGED <<acquired, dropped, posted, opened, files>>
    BY <1>5 DEF PumpDone, DropsDone, MenuDone, KeysDone, OpenDialog, Present, AnswerDialog,
                Resized, Report, Ended, vars, device, inbox, history
  <2>2. stage' = "start" <=> stage = "start"
    BY <1>5 DEF PumpDone, DropsDone, MenuDone, KeysDone, OpenDialog, Present, AnswerDialog,
                Resized, Report, Ended, vars, IInv, Device
  <2>3. QED  BY <2>1, <2>2, QueueAlone
<1>6. CASE PostClose
  <2> DEFINE m == CloseMessage
             n == 0
  <2>1. m \in Seq(Item) /\ Kept(m, File) = <<>> /\ n \in Nat /\ Post(m, n)
    BY <1>6, KeptOfNone DEF PostClose, CloseMessage
  <2> HIDE DEF m, n
  <2>2. /\ QueueOK' /\ HasWindow
        /\ dropped' \o Coming' = (dropped \o Coming) \o Kept(m, File)
        /\ acquired' = acquired /\ opened' = opened /\ stage' = stage
    BY <2>1, PostQueue
  <2>3. dropped' \o Coming' = dropped \o Coming
    <3> DEFINE w == dropped \o Coming
    <3>1. w \in Seq(File)
      BY <1>0
    <3> HIDE DEF w
    <3>2. w \o <<>> = w
      BY <3>1, ConcatEmptySeq
    <3>3. QED  BY <2>1, <2>2, <3>2 DEF w
  <2>4. QED  BY <2>2, <2>3, QueueStutter DEF Gone, HasWindow
<1>7. CASE PostDrop
  BY <1>7, PostDropArrives
<1>8. CASE OpenDropped
  BY <1>8, OpenDroppedTakes
<1>9. QED
  BY <1>1, <1>2, <1>3, <1>4, <1>5, <1>6, <1>7, <1>8 DEF Next, Program, Environment

\* Dropped files are opened in the order they came, each once; only a window that
\* goes takes files with it, and then the latest: for any number of files, and
\* although the file dialog runs wnd_proc in the middle of a frame.
THEOREM DropsInOrder == Spec => ImplementsDropQueue
<1>1. Init => Drops!Init
  <2> SUFFICES ASSUME Init PROVE Drops!Init
    OBVIOUS
  <2>1. Coming = ComingOf(<<>>)
    BY DEF Init, Coming, ComingOf
  <2>2. Coming = <<>>
    BY <2>1, NothingComing
  <2>3. dropped \o Coming = <<>>
    BY <2>2 DEF Init
  <2>4. QED  BY <2>3 DEF Init, Drops!Init
<1>2. QED
  BY <1>1, InitQueue, QueueStep, Inductive, PTL DEF Spec, ImplementsDropQueue, Drops!Spec

-----------------------------------------------------------------------------
MaybeHandle == Handle \cup {NoHandle}

\* What open has acquired at each of its calls, and that the object it runs
\* on is empty meanwhile.
FileShape ==
    /\ held \in [Object -> [file : MaybeHandle, mapping : MaybeHandle, data : MaybeHandle]]
    /\ local \in [file : MaybeHandle, mapping : MaybeHandle]
    /\ self \in Object
    /\ pc \in {"idle", "CreateFile"} => local = NoLocals
    /\ pc \in {"GetFileSize", "CreateFileMapping"} => local.mapping = NoHandle
    /\ pc # "idle" => held[self] = Nothing

FileInv == FileShape /\ Accounted /\ OneOwner

\* The handles of an object, of the locals, and of nothing, spelt out.
LEMMA ObjectHandles ==
    ASSUME NEW r \in [file : MaybeHandle, mapping : MaybeHandle, data : MaybeHandle]
    PROVE  HandlesOf(r) = {r.file, r.mapping, r.data} \ {NoHandle}
<1>1. DOMAIN r = {"file", "mapping", "data"}
    OBVIOUS
<1> QED BY <1>1 DEF HandlesOf

LEMMA LocalHandles ==
    ASSUME NEW r \in [file : MaybeHandle, mapping : MaybeHandle]
    PROVE  HandlesOf(r) = {r.file, r.mapping} \ {NoHandle}
<1>1. DOMAIN r = {"file", "mapping"}
    OBVIOUS
<1> QED BY <1>1 DEF HandlesOf

LEMMA NothingHeld == HandlesOf(Nothing) = {} /\ HandlesOf(NoLocals) = {}
<1>1. Nothing \in [file : MaybeHandle, mapping : MaybeHandle, data : MaybeHandle]
    BY DEF Nothing, MaybeHandle
<1>2. NoLocals \in [file : MaybeHandle, mapping : MaybeHandle]
    BY DEF NoLocals, MaybeHandle
<1>3. HandlesOf(Nothing) = {NoHandle} \ {NoHandle}
    BY <1>1, ObjectHandles DEF Nothing
<1>4. HandlesOf(NoLocals) = {NoHandle} \ {NoHandle}
    BY <1>2, LocalHandles DEF NoLocals
<1> QED BY <1>3, <1>4

\* Accounted, handle by handle: the union over the objects opened up.
LEMMA AccountedAt ==
    Accounted <=> \A h : h \in live <=> \/ \E p \in Object : h \in HandlesOf(held[p])
                                        \/ h \in HandlesOf(local)
<1> DEFINE owned == UNION {HandlesOf(held[p]) : p \in Object}
<1>1. \A h : h \in owned <=> \E p \in Object : h \in HandlesOf(held[p])
    OBVIOUS
<1> HIDE DEF owned
<1>2. live = owned \cup HandlesOf(local)
          <=> \A h : h \in live <=> h \in owned \/ h \in HandlesOf(local)
    OBVIOUS
<1>3. Accounted <=> live = owned \cup HandlesOf(local)
    BY DEF Accounted, owned
<1> QED BY <1>1, <1>2, <1>3

LEMMA AccountedAfter ==
    Accounted' <=> \A h : h \in live' <=> \/ \E p \in Object : h \in HandlesOf(held'[p])
                                          \/ h \in HandlesOf(local')
<1> DEFINE owned == UNION {HandlesOf(held'[p]) : p \in Object}
<1>1. \A h : h \in owned <=> \E p \in Object : h \in HandlesOf(held'[p])
    OBVIOUS
<1> HIDE DEF owned
<1>2. live' = owned \cup HandlesOf(local')
          <=> \A h : h \in live' <=> h \in owned \/ h \in HandlesOf(local')
    OBVIOUS
<1>3. Accounted' <=> live' = owned \cup HandlesOf(local')
    BY DEF Accounted, owned
<1> QED BY <1>1, <1>2, <1>3

\* close() on an object, from open, operator= or the destructor: what it held
\* is given back, and nothing of anybody else's.
LEMMA CloseKeeps ==
    ASSUME Accounted, OneOwner, NEW o \in Object,
           held \in [Object -> [file : MaybeHandle, mapping : MaybeHandle, data : MaybeHandle]],
           live' = Freed(o), held' = [held EXCEPT ![o] = Nothing], local' = local
    PROVE  Accounted' /\ OneOwner'
<1>1. HandlesOf(held'[o]) = {}
    <2>1. held'[o] = Nothing
        OBVIOUS
    <2> QED BY <2>1, NothingHeld
<1>2. \A p \in Object : p # o => HandlesOf(held'[p]) = HandlesOf(held[p])
    <2>1. \A p \in Object : p # o => held'[p] = held[p]
        OBVIOUS
    <2> QED BY <2>1
<1>3. live' = live \ HandlesOf(held[o])
    BY DEF Freed
<1>4. HandlesOf(local') = HandlesOf(local)
    OBVIOUS
<1>5. Accounted'
    <2>1. \A h : h \in live' <=> \/ \E p \in Object : h \in HandlesOf(held'[p])
                                 \/ h \in HandlesOf(local')
        BY AccountedAt, <1>1, <1>2, <1>3, <1>4 DEF OneOwner
    <2> QED BY <2>1, AccountedAfter
<1>6. OneOwner'
    BY <1>1, <1>2, <1>4 DEF OneOwner
<1> QED BY <1>5, <1>6

\* An early return of open gives back its locals and nothing else.
LEMMA GiveUpKeeps ==
    ASSUME FileInv, GiveUp
    PROVE  FileInv'
<1>1. HandlesOf(local') = {}
    BY NothingHeld DEF GiveUp
<1>2. \A p \in Object : HandlesOf(held'[p]) = HandlesOf(held[p])
    BY DEF GiveUp
<1>3. live' = live \ HandlesOf(local)
    BY DEF GiveUp, CloseLocals
<1>4. Accounted'
    <2>1. \A h : h \in live' <=> \/ \E p \in Object : h \in HandlesOf(held'[p])
                                 \/ h \in HandlesOf(local')
        BY AccountedAt, <1>1, <1>2, <1>3 DEF FileInv, OneOwner
    <2> QED BY <2>1, AccountedAfter
<1>5. OneOwner'
    BY <1>1, <1>2 DEF FileInv, OneOwner
<1>6. FileShape'
    BY DEF FileInv, FileShape, GiveUp, NoLocals, MaybeHandle
<1> QED BY <1>4, <1>5, <1>6 DEF FileInv

\* A call of open that succeeds adds a handle nobody has to the locals.
LEMMA AcquireKeeps ==
    ASSUME FileInv, NEW h \in Handle \ live,
           live' = live \cup {h}, held' = held,
           HandlesOf(local') = HandlesOf(local) \cup {h}
    PROVE  Accounted' /\ OneOwner'
<1>1. \A p \in Object : HandlesOf(held'[p]) = HandlesOf(held[p])
    OBVIOUS
<1>2. \A p \in Object : h \notin HandlesOf(held[p])
    BY AccountedAt DEF FileInv
<1>3. Accounted'
    <2>1. \A g : g \in live' <=> \/ \E p \in Object : g \in HandlesOf(held'[p])
                                 \/ g \in HandlesOf(local')
        BY AccountedAt, <1>1 DEF FileInv
    <2> QED BY <2>1, AccountedAfter
<1>4. OneOwner'
    BY <1>1, <1>2 DEF FileInv, OneOwner
<1> QED BY <1>3, <1>4

\* The last call: the object takes over the locals and the view.
LEMMA TakeOverKeeps ==
    ASSUME FileInv, pc = "MapViewOfFile", MapViewOfFile, ~GiveUp
    PROVE  Accounted' /\ OneOwner'
<1>1. PICK h \in Handle \ live :
          /\ live' = live \cup {h}
          /\ held' = [held EXCEPT ![self] =
                         [file |-> local.file, mapping |-> local.mapping, data |-> h]]
          /\ local' = NoLocals
    BY DEF MapViewOfFile
<1>2. HandlesOf(local') = {}
    BY <1>1, NothingHeld
<1> DEFINE new == [file |-> local.file, mapping |-> local.mapping, data |-> h]
<1>3. HandlesOf(new) = HandlesOf(local) \cup {h}
    <2>1. local \in [file : MaybeHandle, mapping : MaybeHandle]
        BY DEF FileInv, FileShape
    <2>2. new \in [file : MaybeHandle, mapping : MaybeHandle, data : MaybeHandle]
        BY <2>1 DEF MaybeHandle
    <2>3. HandlesOf(new) = {local.file, local.mapping, h} \ {NoHandle}
        BY <2>2, ObjectHandles
    <2>4. HandlesOf(local) = {local.file, local.mapping} \ {NoHandle}
        BY <2>1, LocalHandles
    <2> QED BY <2>3, <2>4, HandleAssumption
<1>4. self \in Object /\ HandlesOf(held[self]) = {}
    BY NothingHeld DEF FileInv, FileShape
<1>5. HandlesOf(held'[self]) = HandlesOf(local) \cup {h}
    BY <1>1, <1>3, <1>4 DEF FileInv, FileShape
<1>6. \A p \in Object : p # self => HandlesOf(held'[p]) = HandlesOf(held[p])
    <2>1. \A p \in Object : p # self => held'[p] = held[p]
        BY <1>1 DEF FileInv, FileShape
    <2> QED BY <2>1
<1>7. \A p \in Object : h \notin HandlesOf(held[p])
    BY AccountedAt DEF FileInv
<1> HIDE DEF new
<1>8. Accounted'
    <2>1. \A g : g \in live' <=> \/ \E p \in Object : g \in HandlesOf(held'[p])
                                 \/ g \in HandlesOf(local')
        BY AccountedAt, <1>1, <1>2, <1>4, <1>5, <1>6 DEF FileInv
    <2> QED BY <2>1, AccountedAfter
<1>9. OneOwner'
    BY <1>2, <1>4, <1>5, <1>6, <1>7 DEF FileInv, OneOwner
<1> QED BY <1>8, <1>9

\* A move to another object closes that one and empties the source.
LEMMA MoveKeeps ==
    ASSUME FileInv, NEW o \in Object, NEW from \in Object, o # from, Move(o, from)
    PROVE  Accounted' /\ OneOwner'
<1>1. live' = live \ HandlesOf(held[o]) /\ local' = local
    BY DEF Move, Freed
<1>2. held \in [Object -> [file : MaybeHandle, mapping : MaybeHandle, data : MaybeHandle]]
    BY DEF FileInv, FileShape
<1>3. held'[o] = held[from] /\ held'[from] = Nothing
    BY <1>2 DEF Move, MovedTo
<1>4. HandlesOf(held'[o]) = HandlesOf(held[from]) /\ HandlesOf(held'[from]) = {}
    BY <1>3, NothingHeld
<1>5. \A p \in Object \ {o, from} : HandlesOf(held'[p]) = HandlesOf(held[p])
    <2>1. \A p \in Object \ {o, from} : held'[p] = held[p]
        BY <1>2 DEF Move, MovedTo
    <2> QED BY <2>1
<1>6. HandlesOf(local') = HandlesOf(local)
    BY <1>1
<1>7. Accounted'
    <2>1. \A g : g \in live' <=> \/ \E p \in Object : g \in HandlesOf(held'[p])
                                 \/ g \in HandlesOf(local')
        BY AccountedAt, <1>1, <1>4, <1>5, <1>6 DEF FileInv, OneOwner
    <2> QED BY <2>1, AccountedAfter
<1>8. OneOwner'
    BY <1>4, <1>5, <1>6 DEF FileInv, OneOwner
<1> QED BY <1>7, <1>8

LEMMA InitFileInv == FileInit => FileInv
<1> SUFFICES ASSUME FileInit PROVE FileInv
    OBVIOUS
<1>1. FileShape
    BY DEF FileInit, FileShape, Nothing, NoLocals, MaybeHandle
<1>2. \A o \in Object : HandlesOf(held[o]) = {}
    BY NothingHeld DEF FileInit
<1>3. HandlesOf(local) = {}
    BY NothingHeld DEF FileInit
<1>4. \A h : ~(h \in live) /\ ~(\E p \in Object : h \in HandlesOf(held[p]))
    BY <1>2 DEF FileInit
<1>5. Accounted
    BY <1>3, <1>4, AccountedAt
<1>6. OneOwner
    BY <1>2, <1>3 DEF OneOwner
<1> QED BY <1>1, <1>5, <1>6 DEF FileInv

\* One step per call of the program.
LEMMA NextFileInv == FileInv /\ [FileNext]_fileVars => FileInv'
<1> SUFFICES ASSUME FileInv, [FileNext]_fileVars PROVE FileInv'
    OBVIOUS
<1> USE DEF FileInv
<1>1. ASSUME NEW o \in Object, Open(o) PROVE FileInv'
    <2>1. Accounted' /\ OneOwner'
        BY <1>1, CloseKeeps DEF Open, FileShape
    <2>2. FileShape'
        BY <1>1 DEF Open, FileShape, Nothing, NoLocals, MaybeHandle
    <2> QED BY <2>1, <2>2
<1>2. ASSUME NEW o \in Object, Close(o) PROVE FileInv'
    <2>1. Accounted' /\ OneOwner'
        BY <1>2, CloseKeeps DEF Close, FileShape
    <2>2. FileShape'
        BY <1>2 DEF Close, FileShape, Nothing, NoLocals, MaybeHandle
    <2> QED BY <2>1, <2>2
<1>3. ASSUME NEW o \in Object, NEW from \in Object, Move(o, from) PROVE FileInv'
    <2>1. CASE o = from
        BY <1>3, <2>1 DEF Move, FileShape, Accounted, OneOwner
    <2>2. CASE o # from
        <3>1. Accounted' /\ OneOwner'
            BY <1>3, <2>2, MoveKeeps
        <3>2. FileShape'
            BY <1>3, <2>2 DEF Move, MovedTo, FileShape, Nothing, MaybeHandle
        <3> QED BY <3>1, <3>2
    <2> QED BY <2>1, <2>2
<1>4. CASE CreateFile
    <2>1. CASE GiveUp
        BY <2>1, GiveUpKeeps
    <2>2. CASE ~GiveUp
        <3>1. PICK h \in Handle \ live :
                  /\ live' = live \cup {h} /\ local' = [local EXCEPT !.file = h]
                  /\ pc' = "GetFileSize" /\ held' = held /\ self' = self
            BY <1>4, <2>2 DEF CreateFile
        <3>2. local = NoLocals
            BY <1>4 DEF CreateFile, FileShape
        <3>3. local' = [file |-> h, mapping |-> NoHandle]
            BY <3>1, <3>2 DEF NoLocals
        <3>4. local' \in [file : MaybeHandle, mapping : MaybeHandle]
            BY <3>3 DEF MaybeHandle
        <3>5. HandlesOf(local') = HandlesOf(local) \cup {h}
            <4>1. HandlesOf(local') = {h, NoHandle} \ {NoHandle}
                BY <3>3, <3>4, LocalHandles
            <4>2. HandlesOf(local) = {}
                BY <3>2, NothingHeld
            <4> QED BY <4>1, <4>2, HandleAssumption
        <3>6. Accounted' /\ OneOwner'
            BY <3>1, <3>5, AcquireKeeps
        <3>7. FileShape'
            BY <1>4, <3>1, <3>3, <3>4 DEF CreateFile, FileShape
        <3> QED BY <3>6, <3>7
    <2> QED BY <2>1, <2>2
<1>5. CASE GetFileSize
    <2>1. CASE GiveUp
        BY <2>1, GiveUpKeeps
    <2>2. CASE ~GiveUp
        BY <1>5, <2>2 DEF GetFileSize, FileShape, Accounted, OneOwner
    <2> QED BY <2>1, <2>2
<1>6. CASE CreateFileMapping
    <2>1. CASE GiveUp
        BY <2>1, GiveUpKeeps
    <2>2. CASE ~GiveUp
        <3>1. PICK h \in Handle \ live :
                  /\ live' = live \cup {h} /\ local' = [local EXCEPT !.mapping = h]
                  /\ pc' = "MapViewOfFile" /\ held' = held /\ self' = self
            BY <1>6, <2>2 DEF CreateFileMapping
        <3>2. local \in [file : MaybeHandle, mapping : MaybeHandle] /\ local.mapping = NoHandle
            BY <1>6 DEF CreateFileMapping, FileShape
        <3>3. /\ local' \in [file : MaybeHandle, mapping : MaybeHandle]
              /\ local'.file = local.file /\ local'.mapping = h
            BY <3>1, <3>2 DEF MaybeHandle
        <3>4. HandlesOf(local') = HandlesOf(local) \cup {h}
            <4>1. HandlesOf(local') = {local.file, h} \ {NoHandle}
                BY <3>3, LocalHandles
            <4>2. HandlesOf(local) = {local.file} \ {NoHandle}
                BY <3>2, LocalHandles
            <4> QED BY <4>1, <4>2, HandleAssumption
        <3>5. Accounted' /\ OneOwner'
            BY <3>1, <3>4, AcquireKeeps
        <3>6. FileShape'
            BY <1>6, <3>1, <3>3 DEF CreateFileMapping, FileShape
        <3> QED BY <3>5, <3>6
    <2> QED BY <2>1, <2>2
<1>7. CASE MapViewOfFile
    <2>1. CASE GiveUp
        BY <2>1, GiveUpKeeps
    <2>2. CASE ~GiveUp
        <3>1. Accounted' /\ OneOwner'
            BY <1>7, <2>2, TakeOverKeeps DEF MapViewOfFile
        <3>2. PICK h \in Handle \ live :
                  /\ held' = [held EXCEPT ![self] =
                                 [file |-> local.file, mapping |-> local.mapping, data |-> h]]
                  /\ pc' = "idle" /\ local' = NoLocals /\ self' = self
            BY <1>7, <2>2 DEF MapViewOfFile
        <3>3. local.file \in MaybeHandle /\ local.mapping \in MaybeHandle /\ h \in MaybeHandle
            BY DEF FileShape, MaybeHandle
        <3>4. FileShape'
            BY <3>2, <3>3 DEF FileShape, NoLocals, MaybeHandle
        <3> QED BY <3>1, <3>4
    <2> QED BY <2>1, <2>2
<1>8. CASE UNCHANGED fileVars
    BY <1>8 DEF fileVars, FileShape, Accounted, OneOwner
<1> QED BY <1>1, <1>2, <1>3, <1>4, <1>5, <1>6, <1>7, <1>8 DEF FileNext

LEMMA FileInductive == FileSpec => []FileInv
<1> QED BY InitFileInv, NextFileInv, PTL DEF FileSpec

-----------------------------------------------------------------------------
\* No call of open that fails leaves a handle behind, and none is closed while
\* an object still holds it.
THEOREM AccountedCorrect == FileSpec => []Accounted
<1>1. FileInv => Accounted
    BY DEF FileInv
<1> QED BY <1>1, FileInductive, PTL

\* No handle ever has two owners, however objects are opened, closed and moved.
THEOREM OneOwnerCorrect == FileSpec => []OneOwner
<1>1. FileInv => OneOwner
    BY DEF FileInv
<1> QED BY <1>1, FileInductive, PTL

-----------------------------------------------------------------------------
\* The loaders and dbghelp's module table.
PdbTypes == open \subseteq Doc /\ base \in [Doc -> Nat]
PdbInv == PdbTypes /\ OwnModule /\ NoLeak

LEMMA BaseOfDoc == ASSUME NEW d \in Doc PROVE BaseOf[FileOf[d]] \in Nat \ {0}
  BY ImagesAssumption DEF ImageFile

LEMMA InitPdbInv == PdbInit => PdbInv
  BY DEF PdbInit, PdbInv, PdbTypes, OwnModule, NoLeak

\* A load that is answered 0: one more open document, without a module.
LEMMA LoadNothing ==
    ASSUME PdbInv, NEW d \in Doc, d \notin open, open' = open \cup {d},
           base' = [base EXCEPT ![d] = 0], modules' = modules
    PROVE PdbInv'
  <1> USE DEF PdbInv, PdbTypes, OwnModule, NoLeak, Taken
  <1>1. base[d] = 0
    OBVIOUS
  <1>2. base' = base
    BY <1>1
  <1> QED BY <1>2

\* A load into a free base.
LEMMA LoadModule ==
    ASSUME PdbInv, NEW d \in Doc, d \notin open, open' = open \cup {d},
           ~Taken(BaseOf[FileOf[d]]),
           modules' = LoadedAt(BaseOf[FileOf[d]], FileOf[d]),
           base' = [base EXCEPT ![d] = BaseOf[FileOf[d]]]
    PROVE PdbInv'
  <1> DEFINE f == FileOf[d]
             b == BaseOf[f]
  <1>1. b \in Nat \ {0}
    BY BaseOfDoc
  <1>2. /\ DOMAIN modules' = DOMAIN modules \cup {b}
        /\ modules'[b] = f
        /\ \A x \in DOMAIN modules : modules'[x] = modules[x]
    BY DEF LoadedAt, Taken
  <1>3. base'[d] = b /\ \A e \in Doc \ {d} : base'[e] = base[e]
    BY DEF PdbInv, PdbTypes
  <1>4. PdbTypes'
    BY <1>1 DEF PdbInv, PdbTypes
  <1>5. \A e \in Doc \ {d} : base[e] # b
    BY <1>1 DEF PdbInv, OwnModule, Taken
  <1>6. OwnModule'
    <2> SUFFICES ASSUME NEW e \in Doc, base'[e] # 0
                 PROVE /\ e \in open' /\ base'[e] \in DOMAIN modules' /\ modules'[base'[e]] = FileOf[e]
                       /\ \A g \in Doc : base'[g] = base'[e] => g = e
      BY DEF OwnModule, Taken
    <2>1. CASE e = d
      BY <1>2, <1>3, <1>5, <2>1
    <2>2. CASE e # d
      <3>1. base'[e] = base[e] /\ base[e] # b /\ base[e] # 0
        BY <1>3, <1>5, <2>2
      <3>2. /\ e \in open /\ base[e] \in DOMAIN modules /\ modules[base[e]] = FileOf[e]
            /\ \A g \in Doc : base[g] = base[e] => g = e
        BY <3>1 DEF PdbInv, OwnModule, Taken
      <3> QED BY <1>2, <1>3, <3>1, <3>2
    <2> QED BY <2>1, <2>2
  <1>7. NoLeak'
    <2> SUFFICES ASSUME NEW x \in DOMAIN modules' PROVE x # 0 /\ \E e \in open' : base'[e] = x
      BY DEF NoLeak
    <2>1. CASE x = b
      BY <1>1, <1>3, <2>1
    <2>2. CASE x \in DOMAIN modules
      <3>1. PICK e \in open : base[e] = x /\ x # 0
        BY <2>2 DEF PdbInv, NoLeak
      <3> QED BY <1>3, <3>1 DEF PdbInv, PdbTypes
    <2> QED BY <1>2, <2>1, <2>2
  <1> QED BY <1>4, <1>6, <1>7 DEF PdbInv

\* A close gives back the loader's own module and no other.
LEMMA UnloadStep == ASSUME PdbInv, NEW d \in Doc, Unload(d) PROVE PdbInv'
  <1>1. open' = open \ {d} /\ d \in open
    BY DEF Unload
  <1>2. CASE base[d] = 0
    <2>1. modules' = modules /\ base' = base
      BY <1>2 DEF Unload
    <2>2. OwnModule'
      BY <1>1, <1>2, <2>1 DEF PdbInv, PdbTypes, OwnModule, Taken
    <2>3. NoLeak'
      BY <1>1, <1>2, <2>1 DEF PdbInv, NoLeak
    <2> QED BY <1>1, <2>1, <2>2, <2>3 DEF PdbInv, PdbTypes
  <1>3. CASE base[d] # 0
    <2>1. /\ base' = [base EXCEPT ![d] = 0]
          /\ modules' = [x \in DOMAIN modules \ {base[d]} |-> modules[x]]
      BY <1>3 DEF Unload, Release, Without
    <2>2. base'[d] = 0 /\ \A e \in Doc \ {d} : base'[e] = base[e]
      BY <2>1 DEF PdbInv, PdbTypes
    <2>3. \A e \in Doc : base[e] = base[d] => e = d
      BY <1>3 DEF PdbInv, OwnModule
    <2>4. /\ DOMAIN modules' = DOMAIN modules \ {base[d]}
          /\ \A x \in DOMAIN modules' : modules'[x] = modules[x]
      BY <2>1
    <2>5. OwnModule'
      <3> SUFFICES ASSUME NEW e \in Doc, base'[e] # 0
                   PROVE /\ e \in open' /\ base'[e] \in DOMAIN modules'
                         /\ modules'[base'[e]] = FileOf[e]
                         /\ \A g \in Doc : base'[g] = base'[e] => g = e
        BY DEF OwnModule, Taken
      <3>1. e # d /\ base'[e] = base[e] /\ base[e] # 0
        BY <2>2
      <3>2. base[e] # base[d]
        BY <2>3, <3>1
      <3>3. /\ e \in open /\ base[e] \in DOMAIN modules /\ modules[base[e]] = FileOf[e]
            /\ \A g \in Doc : base[g] = base[e] => g = e
        BY <3>1 DEF PdbInv, OwnModule, Taken
      <3> QED BY <1>1, <2>2, <2>4, <3>1, <3>2, <3>3
    <2>6. NoLeak'
      <3> SUFFICES ASSUME NEW x \in DOMAIN modules' PROVE x # 0 /\ \E e \in open' : base'[e] = x
        BY DEF NoLeak
      <3>1. PICK e \in open : base[e] = x /\ x # 0
        BY <2>4 DEF PdbInv, NoLeak
      <3>2. e # d /\ e \in Doc
        BY <2>4, <3>1 DEF PdbInv, PdbTypes
      <3> QED BY <1>1, <2>2, <3>1, <3>2
    <2> QED BY <1>1, <2>1, <2>5, <2>6 DEF PdbInv, PdbTypes
  <1> QED BY <1>2, <1>3

LEMMA StepPdbInv == PdbInv /\ [PdbNext]_pdbVars => PdbInv'
  <1> SUFFICES ASSUME PdbInv, [PdbNext]_pdbVars PROVE PdbInv'
    OBVIOUS
  <1>1. ASSUME NEW d \in Doc, Load(d) PROVE PdbInv'
    <2>1. d \notin open /\ open' = open \cup {d}
      BY <1>1 DEF Load
    <2>2. CASE base' = [base EXCEPT ![d] = 0] /\ modules' = modules
      BY <2>1, <2>2, LoadNothing
    <2>3. CASE /\ ~Taken(BaseOf[FileOf[d]])
               /\ modules' = LoadedAt(BaseOf[FileOf[d]], FileOf[d])
               /\ base' = [base EXCEPT ![d] = BaseOf[FileOf[d]]]
      BY <2>1, <2>3, LoadModule
    <2> QED BY <1>1, <2>2, <2>3 DEF Load, Held
  <1>2. ASSUME NEW d \in Doc, Unload(d) PROVE PdbInv'
    BY <1>2, UnloadStep
  <1>3. CASE UNCHANGED pdbVars
    BY <1>3 DEF pdbVars, PdbInv, PdbTypes, OwnModule, NoLeak, Taken
  <1> QED BY <1>1, <1>2, <1>3 DEF PdbNext

\* A loader that holds a module is alone in holding it, and it is its file's:
\* the SymUnloadModule64 of a closing tab never takes another tab's module.
THEOREM OwnModuleCorrect == PdbSpec => []OwnModule
  <1>1. PdbInv => OwnModule
    BY DEF PdbInv
  <1> QED BY <1>1, InitPdbInv, StepPdbInv, PTL DEF PdbSpec

\* Every module in dbghelp's table belongs to a document that is still open.
THEOREM NoLeakCorrect == PdbSpec => []NoLeak
  <1>1. PdbInv => NoLeak
    BY DEF PdbInv
  <1> QED BY <1>1, InitPdbInv, StepPdbInv, PTL DEF PdbSpec

-----------------------------------------------------------------------------
\* Both kinds of resources together behave as each does alone, so that what is
\* proved of one holds whatever happens to the other.
THEOREM ResourcesCompose == ResourceSpec => FileSpec /\ PdbSpec
<1>1. ResourceInit => FileInit /\ PdbInit
  BY DEF ResourceInit
<1>2. [ResourceNext]_resourceVars => [FileNext]_fileVars /\ [PdbNext]_pdbVars
  BY DEF ResourceNext, FileStep, PdbStep, resourceVars
<1>3. QED  BY <1>1, <1>2, PTL DEF ResourceSpec, FileSpec, PdbSpec
=============================================================================
