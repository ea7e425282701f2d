# A verification development for disasm

This directory holds TLA+ specifications of disasm, a small Windows
disassembler (C++, `src/src/`), the TLC configurations that check them on small
instances, and proofs checked by TLAPS. Paths below are relative to the
repository, whose code lives in `src/` (so `ui/App.cpp` is
`src/src/ui/App.cpp`).

## 1. The system

disasm is single-threaded. `main` creates an `App`, which opens the files of the
command line and then loops: pump window messages, begin a frame, run the
handlers of the frame in a fixed order, present. There are no network messages
and nothing is persisted. What makes it hard is not parallelism but the order in
which handlers of one frame change shared state, state that lives longer than
the document it is about, immediate-mode widgets that answer one frame late, a
file dialog that runs a second message loop inside a frame, addresses and sizes
at their boundaries, files that end early, and resources shared through process
globals (dbghelp, Direct3D, window) or kernel handles.

### Inventory

| Component | State it keeps | Operations | What makes it correct |
| --- | --- | --- | --- |
| Navigation (`analysis/Navigation`) | two stacks, current address, `UINT64_MAX` for nowhere | `go`, `back`, `forward`, `clear` | behaves like one trail with a cursor; Back and Forward move |
| SymbolStore (`analysis/SymbolStore`) | address to (name, source), storage of names | `add`, `ensure_sub`, `find`, `clear` | the strongest source wins in any order; pointers stay good |
| Documents and tabs (`ui/App`, `ui/AppContext.h`) | vector of documents, `current_doc`, `pending_select` | open, close, cycle, tab click, close cross, drop | index valid, closing one tab does not change another, the tab bar settles on what was asked for |
| Views and dialogs (`ui/DisasmView`, `HexView`, `GotoDialog`, `XrefsPopup`, list views) | per document `nav`, `selected_addr`, `pending_scroll_va`; globals `goto_open`, `xrefs_open`, `xrefs_target`; HexView's statics | jumps, clicks, shortcuts, popups | history, selection and scroll agree; each document has its own state |
| Document loading (`load_into_document`) | everything in `Document` | map, engine, index, names, strings, xrefs, start place | names and references agree with the code, whatever stage adds them |
| DecodedIndex (`disasm/DecodedIndex`) | rows (address, file offset, length) | `build`, `find_by_va`, `lower_bound_va` | rows tile the code in order; searches are right; the sweep ends |
| List views (`ui/SectionsView`, `ImportsView`, `ExportsView`, `StringsView`) | `show_*` flags; the filter text and the filtered rows are statics of the strings window | View menu, filter, click on a row | a click leads to a row of the document on screen |
| PEImage (`pe/PEImage`) | headers, sections, imports, exports, debug entry | `load`, address mappings | mappings agree with one another; slots and names are the loader's; a cut file shows what it has and nothing else |
| Strings (`analysis/Strings`) | list of found strings | `scan` | exactly the maximal runs it looks at, with the text they have |
| Xrefs (`analysis/Xrefs`) | target to list of references | `build`, `to` | none lost, none doubled |
| PdbLoader (`pe/Pdb`) | base of the module it loaded; dbghelp's table is the process's | `load`, `unload` | each loader unloads only its own module, none leaks |
| MappedFile (`pe/MappedFile`) | two handles and a view | `open`, `close`, moves | no leak, no double close |
| Engine, Formatter (`disasm/`) | Zydis objects, pointer to the symbols | decode, format with two hooks | an address with a symbol is printed by name (text, not modelled) |
| Platform (`platform/Win32DX11`) | window, device, swap chain and target, drop queue, resize request | start-up, pump, window procedure, present, shutdown | drops in order and none lost, frames fit the window, quit ends, everything is released |
| Theme, Icons, StatusBar, `main`, build files | none that changes | | |

### How they interact

Everything is a call within the thread of the frame. `App::run` calls
`handle_file_drops`, `render_menu_bar`, `render_host`, `handle_shortcuts` and the
views in this order; all of them reach the shared `AppContext`. `open_document`
calls `load_into_document`, which fills MappedFile/PEImage, the engine,
DecodedIndex, SymbolStore (from imports, exports, `PdbLoader::load`'s callback and
the sweep), Strings and Xrefs. Views read the current document and write its
navigation state. Dear ImGui keeps the tab bar's selected and visible tab and
answers the calls of `render_host` with a delay of one frame. dbghelp keeps one
table of modules for the process. The kernel keeps the handles of MappedFile.
Windows calls `wnd_proc` from the pump and from the file dialog's own loop, which
runs inside `render_menu_bar` or `handle_shortcuts`; what `wnd_proc` leaves (drops,
a size, the quit message) is picked up by later stages of the loop.

### Hard behaviour

`PROJECT.json` lists each hazard with its line and the properties aimed at it.
In short: handlers of one frame that move the current document under each other;
the tab bar's lag; statics and globals that outlive or mix documents; the
sentinel `UINT64_MAX` that is also an address; the order in which names arrive;
section boundaries in the sweep, the mapping and the string scan; early returns
with resources open; two loaders on one base address; messages that arrive
while a dialog runs inside a frame; tables and strings a cut file ends in.

## 2. Plan

The order is by importance for the user of the program.

1. **Done first.** Navigation with its abstract History; SymbolStore; the tabs
   (DocTabs); the whole frame (App, composing DocTabs and NavigationOps); the
   sweep and the address mapping (DecodedIndex, PEAddress); Strings; loading
   (Document, composing SymbolStore and Xrefs; Loading, with Strings); PdbLoader
   and MappedFile, together in Resources. Proofs for
   Navigation, SymbolStore, DocTabs, DecodedIndex, PdbLoader and MappedFile.
2. **Done next.** The platform layer with the file dialog inside a frame
   (Platform) and its abstract queue (DropQueue); the five parsers of PEImage
   and their composition with the sweep (PEImage, LoadedImage); the list windows
   over the frames of DocTabs (ListViews); the texts of Strings. Proofs for App and
   Platform, that loading refines naming, and of the tiling and the file offsets
   of the sweep.
3. **Proved since.** `Settles` and `OwnRows` of the tabs and the list windows,
   `HexFollowsBytes` of App, `CallsNamed`, `RefsComplete` and the types of
   Document, the searches and `OffsetsInjective` of DecodedIndex and their
   composition with the loader, and Platform's refinement of DropQueue; that the
   two loops of Strings list the maximal runs they look at, with UTF-8 texts that decode to
   their characters; and the lists of PEImage.
4. **Left.** Every safety property of a run is proved. The liveness properties stay
   with TLC (section 5).

Abstract specifications: History (refined by Navigation, proved), DropQueue
(implemented by Platform, proved), the symbol store under Document, the tabs
under App and ListViews, the sweep under LoadedImage, Document and Strings under
Loading, and PdbLoader and MappedFile under Resources (all proved).

## 3. The modules

Each module names its source in its header and each definition is mapped to the
lines it models in `PROJECT.json`. An MC module extends the module of its name and
gives the constants values; each `.cfg` is one question.

**NavigationOps, Navigation, History.** NavigationOps has the methods of
`Navigation` as operators on a record of `current`, `back` and `forward` (App uses
them too). Navigation makes each an action. History is what a user expects: a
trail of places and a cursor. `ImplementsHistory` is the refinement: the trail is
the back stack, the current place, and the forward stack reversed. `NoAddr` is
`UINT64_MAX`, which a user can also type as an address: the theorems say which of
the properties need it not to be.

**SymbolStore.** The map of entries with the storage they point into as a
sequence of names, so that a pointer is an index and "the text behind a pointer"
can be stated. A history variable records the offers made for each address. The
type invariant is a theorem (and so is Document's); no run spends time on it.

**DocTabsOps, DocTabs.** The `AppContext` fields as one record `ctx`, 0-based
indices as in the code. A frame is five stages (drops, menu, host, keys, views);
every handler is the action of its stage, with everything it calls. ImGui's tab
bar (`bar`) is external and modelled from how `render_host` uses it: a click or
`SetSelected` takes effect at the next layout, and `BeginTabItem` answers whether
a tab is the visible one. Unlike in most UI models the user's request is
recorded (`wanted`, `quiet`: history variables), so that "the tab bar has caught
up" can be said.

**ListViews.** DocTabs with its last stage drawn window by window: the View menu
and a window's cross change `shown`; the strings window types into `filter` and
fills the static vector `filtered` again; a click sets `jump`. Rows are `<<document,
index>>`, since the code keeps pointers into the list of one document, so that
"these rows are another document's" can be said. Where the row leads is App's.

**Selection.** `Kept(s, K)`, the elements of a list that belong to a set, in their
order: the loop of the strings window, and what the tab bar and the drop queue
keep of a list.

**App.** Every DocTabs action conjoined with what the same handler does to the
views, plus one action per window drawn in the last stage: disassembly, hex,
lists, goto dialog, xrefs popup, in the order of `App::run`. Documents differ in
their entry, the rows of their index and their section layout. HexView's statics
are in `hex`. A document is the object: reopening a file gives a fresh state.
HexView's `last_doc` is a bare pointer and outlives its Document: when a tab is
closed the pointer becomes `Freed`, and a later load may be allocated at the freed
place, so that the pointer leads to it (`Pointee`). The window draws bytes, or a
single line where the document or its bytes are missing (`DrawDash`), which leaves
the scroll at 0 and the statics alone; a hidden window leaves both. Scrolling by the
mouse wheel is not modelled: what is said is where the program puts the view.

**PEAddress, DecodedIndex.** PEAddress has the address mappings of PEImage with
their comparisons and the 32-bit wrap-around (`W32`). DecodedIndex is the sweep:
one action enters a section, one decodes at the current offset; the decoder
(Zydis, external) either fails or answers any length that fits, and the row's
length follows as in the code. The binary searches are operators over the
finished rows.

**PEImage.** `load` and its five parsers, one action each with every early return.
A file is not a string of bytes but a map from offsets to the structures a linker
placed there, with the sizes of the structures in `Width`: what is kept of parsing
is where each structure is looked for, whether it fits, and what its fields lead
to. Bytes that hold no structure read as zero. The lists found are operators on
the file, so that a file cut short can be compared with the whole one. The loops
are written as what they select (`Modules`, `Exported`, `Named`, `RsdsList`: the
indices kept of those gone through) or how far they count (`CountWhile`). Some
fields the code copies and nothing else reads are left out. Three assumptions say
what a linker writes: the optional header is in a file with good headers
(`HeadersPlaced`); every import has a slot of its own, mapped to a copy of the
thunk its name is read from (`SlotsLinked`); the tables of the export names do not
wrap around the address space, and each name of a whole file belongs to a function
(`NamesLinked`). The program checks none of these.

**LoadedImage.** PEImage followed by the sweep over the sections it found. The
sweep reads the raw bytes the section headers promise without asking the file
for its size, so it is modelled for files that have them (`HasRawData`).

**Strings.** Both passes of `scan` as recursive functions over a section's bytes,
with the texts and the UTF-8 form of wide ones, and a declarative definition of
maximal runs and a decoder of UTF-8 to check them against. The conversion has a
case for surrogates that `scan` never reaches, as it ends runs at them. Runs of
UTF-16 units are those at even offsets of the section, as the code's loop goes;
`UnalignedRuns` are the ones at odd offsets that touch none of these.

**Xrefs, Document, Loading.** Xrefs has `build` as operators over decoded rows. Document is
`load_into_document`: one action per stage and per name offered, composed with
SymbolStore's own actions, ending with Xrefs. One behaviour is one Document: a
failed one is destroyed whole by `open_document`, a loaded one by `close_document`,
and `clear` of the store is never called on the way. Loading puts the scan of
Strings at its place between the naming of call targets and the references.

**PdbLoader.** Any number of loaders over dbghelp's table. dbghelp (external)
loads a module at the base the image asks for, or answers 0 if there is one in
that place, be it of the same file or another.

**MappedFile.** `open` is one action per system call, each of which may fail and
take the early return of the code; handle numbers are reused by the kernel once
closed, which is what makes a double close dangerous.

**Resources.** Mapped files and PDB loaders together, as documents own both; there
is one thread, so no loader acts while `open` is under way.

**Platform, DropQueue.** The stages of `App::run` as this layer sees them, and the
environment that posts drops, reports sizes and closes the window: messages are
posted at any time and dispatched by the pump or by the loop inside the dialog
(`modal`); sizes are reported only in one of these. The swap chain (external)
refuses to resize while a view of its buffers is alive, and the view itself may
fail to be made (`NotMade`), which the code passes over. A drop message carries any
list of items, some of which may have no path. `startup` is one action per
outcome. DropQueue is what a user may expect of dropping files: they are taken in
the order they came, each once, and only closing the window loses any.

## 4. The runs

| Run | Shows | Bounds, and why they are enough |
| --- | --- | --- |
| `nav` | Back and Forward move; refinement of History | 5 places over 3 real addresses: every pair of operations, with both stacks non-empty. `UINT64_MAX` as an address is in `app` and in the proofs |
| `tabs` | indices valid, pending is current, closing keeps the current document, settles; rows of the strings window are those of the document on screen, and a click leads to one of these | 3 documents (a neighbour on both sides), 2 windows, 2 strings each and 2 filters, `Calm` = 2 quiet frames counted, behaviours of any length |
| `tabs_lag` | **finding**: Ctrl+W in the lag frame | as `tabs` |
| `app` | scroll, selection, history and dialogs agree; only the current document moves; the hex view follows to any address but the one it showed last, and any document but the open one it showed last | 2 documents, 2 addresses and `UINT64_MAX`, one address in no section, one behind the raw bytes; `MaxActs` = 3 user actions over any number of frames, `MaxKeys` = 1 history or dialog key per frame beside the tab keys |
| `app_hex` | **finding**: back at the address shown before | as `app` |
| `app_xrefs` | **finding**: popup over a tab switch | as `app`, `Calm` = 2 so that the tab bar's lag is not the cause |
| `image` | tiling, order, mapping, searches, the sweep ends; import slots, export names, cut files | 4 images of both kinds, whole and cut short at each of up to 91 sizes, and 3 that are no images; sections with padded raw data, uninitialized tail, zero virtual size, data between code, none; imports with, without and with an unmapped name table; names twice, once and never, a forwarder; 4 debug entries. `MaxLength` = 4 for 15, structures 1 to 3 wide |
| `loading` | a name of the strongest source, names stay; call targets named, references complete; strings are exactly the maximal runs (UTF-16 at even offsets), with texts that decode to the file's characters | 4 programs with every category and operand access, 2 names, up to `MaxNames` = 3 offered before the sweep, from the sources in the order of loading (any order is proved). All sections of up to 6 bytes over 4 telling values (one, two and three bytes in UTF-8), pairs with any flags; `MinLen` = 2 for the default 4. The constraint `OneAtATime` takes programs and names with one image and the other images with neither, since the scan meets the rest nowhere |
| `strings_unaligned` | **finding**: UTF-16 at odd offsets | as `loading` |
| `resources` | every handle has one owner; own module, no leak | 2 objects, 7 handles (one more than they hold), any call may fail; 5 documents over 4 files, 3 of them on one base |
| `pdb_twice` | **finding**: second tab without PDB names | as `resources`, documents of one file |
| `platform` | drops are a queue and are opened; frames draw on the one view of the buffers, or none where none was made, and fit; quit ends; all is released | `MaxFiles` = 3 files, in drops of up to `MaxItems` = 3 items, each with a path or without one, empty drops among them; 3 sizes, one without height; messages at every point |

Symmetry is used for documents in `tabs` and for names in `loading`, where nothing
else tells them apart and only safety and action properties are checked.

Every property of a passing run has a mutant in `PROJECT.json`: a change to a
mapped definition, of the kind a slip in the code would be, under which TLC finds
the property violated. Their definitions stand next to the ones they replace.

### Findings

The five runs that expect a violation:

1. `tabs_lag`: after a tab switch, `render_host` sets `current_doc` back to the tab
   ImGui still shows. A Ctrl+W in that one frame closes the tab just left.
2. `app_xrefs`: the xrefs popup keeps its target over a tab switch and looks it
   up in the other document.
3. `pdb_twice`: a file opened in a second tab gets no PDB names, since dbghelp
   answers 0 for a module its process already has.

4. `app_hex`: HexView's statics are not reset where it draws no bytes, nor when
   their document is closed. Back at the address shown before, the view stays at
   the top of the section, while the disassembly is at the selected row.
5. `strings_unaligned`: the UTF-16 scan goes by two bytes from the section's start;
   its comment says it scans unaligned.

A divergence without a run: `SymbolStore::add` also ignores a name of the *same*
source (the second of two exports of one address is never shown), while its comment
names only a higher-priority one as a reason. `StrongestShown`, which the runs
check, holds by either; that the first of equals is shown (`FirstOfStrongest`) is
proved, as what the code does.

### Fairness

LoadedImage assumes weak fairness of the sweep's next step, which is what running
a sequential function to its end means (`SweepEnds`); the parsers' loops are inside
their actions, so nothing is claimed of their ending. Platform assumes weak
fairness of the program's own steps (`Program`): the thread goes on whenever it is
not waiting in the dialog. The user is never obliged to act, so `DropsOpened` and
`QuitEnds` are stated for behaviours in which every dialog is eventually ended
(`DialogsAnswered`, an assumption of the property, not of the specification). All
other modules state safety and action properties only, and `Settles` states the
tab bar's catching up by a count of frames.

## 5. The proofs

TLC's runs are of small instances; the theorems hold for any set of addresses,
documents, files, objects or handles and any well-formed section table.

What a loop over a list computes needs induction, and the library's induction
theorems take an operator as a parameter, which no installed prover can
instantiate. The proofs go by the least counterexample instead
(`LeastNatural`): the lengths or indices at which a claim fails form a set of
naturals, and its least element contradicts the step. A recursive function is
a CHOICE of one that satisfies its equations; a lemma shows that there is one,
for every length, and that any two agree.

- **SequenceLemmas.** `LeastNatural`, facts about concatenation, what `Kept`
  and `FlattenSeq` make of a longer list, and two general facts about recursive
  functions over `0..n` that look ahead: that there is one (`RecursionUp`), and
  where a loop that goes on over a set stops (`StopFacts`). Modules below extend it.
- **NavigationProofs.** Types; `NowhereIsLast` (with nowhere current there is
  nothing to go forward to, for any addresses); `NoRepeats` and `ReturnMoves`
  from the assumption that `NoAddr` is no address; and, for any addresses, the
  refinement. `NoRepeats` alone is not inductive: from nowhere, `go` pushes
  nothing and would let the new place meet its own copy on a stack, so the
  invariant adds that nowhere is current only while both stacks are empty.
  Lemmas say what a push or a pop does to a stack whose neighbours differ, and,
  for the refinement, that Back and Forward leave the trail as it is (facts
  about `Reverse` and concatenation) while `go` cuts it.
- **SymbolStoreProofs.** `StrongestShown` says nothing of which name of the strongest
  source is shown and is not inductive as it stands; `FirstOfStrongest` is, with the
  types: an offer is stored exactly when it is stronger than all before.
  `NamesStay` holds because storage only grows between clears. `LoadingIsNaming`: every step of
  Document is one of the store or leaves it alone (with `CodeOK`: the loops stay
  in the rows of a program as assumed, so that a call's target is an address of
  the store), so that its theorems hold while a document is loaded. `CallsNamed`
  follows from what the naming loop has passed: those targets have symbols, and no
  later stage takes one away. `LoadingComposes`: with the scan for strings in
  between nothing of this changes.
  `RefsComplete` goes row by row through the loops of Xrefs: the lists hold the
  references of the rows passed, each as often as it occurs and under its own
  target.
- **DocTabsProofs.** Types (with `current_doc` valid) and `PendingIsCurrent`,
  which are inductive together. One lemma per operation on the context (open,
  close, cycle, select) says that it keeps both; every handler is a chain of
  these. `CloseKeepsCurrent` adds where removing an element puts the ones behind
  it. `Settles` rests on `TabsInv`. Its first part says where the tab bar is
  aimed: with a switch pending the document asked for is the current one,
  without one every tab the next layout may land on is that document's (`AimOK`).
  Its second part counts frames: one frame without a request leaves a bar of
  exactly the open documents and nothing pending, and the frame after it shows
  what it was aimed at (`QuietOK`). A closed tab renumbers the ones behind it in
  the code and not in ImGui, so the aim survives only because no document is open
  twice (`Distinct`). `ListsAreTabs`: the windows of ListViews draw in frames of
  the tabs. `OwnRows` needs that a click is looked at in the frame that filled
  the rows (`JumpNow`).
- **AppProofs.** `FramesAreTabs`: each handler of App takes a step of the tabs,
  so the theorems of DocTabs hold of it. The invariant says of each document's
  view that its pending scroll is none or its history's place, that without one
  the selection is a row, and that addresses are addresses (`ViewsOK`,
  `DialogsOK`), and of the frame which windows and dialogs the stage allows
  (`FrameOK`). A lemma per window or handler keeps them. `OnlyCurrentMoves` is
  read off the handlers with the tabs' invariant, by which the current document
  is a single one. `HexFollowsBytes` needs that the statics agree with the bytes
  shown last for as long as that document is open, and that the address among them
  is the one shown last in any case (`HexOK`); `HexKeptOK` keeps this where a
  document is closed or loaded, whatever the freed pointer then leads to.
- **LoadedImageProofs, the sweep.** Types and `Ascending`. `Ascending` alone is not
  inductive: the next row is appended at the sweep's position, so `Behind` says
  that no row reaches past it; entering the next section keeps it because the
  table is ordered (`TablesAssumption` in the module). For `Tiles` the invariant
  adds that the offset is 0 while a section that is not swept is passed. For
  `OffsetsAgree` it says of every row at which section and offset it was decoded
  (`RowsPlaced`); that no other section of an ordered table holds the address is
  the lemma `OnlyHolder`. `SearchesAgree` proves the binary search: it halves a
  range whose ends stay on both sides of the point where the rows pass the
  address (`LowerBoundIs`). `OffsetsInjective` also needs the sections to have
  their own raw bytes (`Apart`). `LoadedCorrect` states all five for the image
  that PEImage loads and the sweep walks, of tables as `TablesFound` has them.
- **LoadedImageProofs, the parsers.** The invariant (`Found`) says of the file that
  is loaded what each parser that is through has found in it, with the headers and
  sections of that file. The rest are lemmas about the operators. `CutListing`:
  a structure that fits a cut file fits the whole one and is the same there, so
  the loops count as far or further (`CountMore`), the modules and the names
  listed are the beginning of those of the whole file (`KeptStart`, `NamedStart`),
  and texts are cut off at most (`ReadStrCut`). That the first name of an index
  stays the first needs that the two tables of names do not wrap around: only
  then is what is missing of them their end (`NamesEnd`). `NamesResolve`: the name
  of an index is the first one listed for it (`NameOfIs`), and a name's index is
  exported (`NamesLinked`). `SlotsHoldThunks`: the address listed maps back to the
  slot that `SlotsLinked` speaks of, for both sizes of a slot (`ListingIs`), and the
  modules are listed in ascending order, so that no two entries are of one slot
  (`OwnSlot`).
- **StringsProofs.** Both loops at once, for units of one or two bytes. `Stop`
  is shown to be the first offset without a printable unit (`StopFacts`), and
  from that the runs found to be exactly the maximal ones (`AlignedListed`,
  `NoneInvented`), each once, since a run
  starts behind the unit that stopped the one before. For the texts, the UTF-8
  form of a unit that is no surrogate decodes to it, by its one, two or three
  bytes, and so unit by unit does that of a run, whatever follows. `StringsInv` adds
  to both properties that the strings of the sections passed are finitely many,
  which a count needs: `NoneInvented` compares their number with the list's length.
- **PlatformProofs, the window.** `Device` (in a frame or the pump there is one
  view, of the buffers the swap chain has, or none where none was made), `Fitted` (the buffers have the last size
  reported unless a resize to it is still to be made) and `Released`, inductive
  together.
  `DropsInOrder`, the refinement of DropQueue: the files of the messages still
  posted, behind those of the queue and the one being taken, are the abstract
  queue, and each step moves a file from one to the next without a change of
  order, takes or loses some, or appends the named items of a drop, however many.
- **PlatformProofs, the resources.** Of PdbLoader, `OwnModule` and `NoLeak` are
  inductive together: what a load is answered is no other loader's base because
  every other base is in the table. Of MappedFile, `Accounted` and `OneOwner` are
  inductive only together (a close gives back what one object holds; that this is
  nobody else's is `OneOwner`) and with `FileShape`: what open's locals hold at each
  call, and that the object it runs on is empty until the last. `ResourcesCompose`
  puts both together.

Assumptions on constants are the named ASSUMEs of the modules; TLC evaluates
them on every run.

Proved without being a property of a run: the types of Navigation, SymbolStore,
Document and DecodedIndex, `NoRepeats`, on which `ReturnMoves` rests, and
`FirstOfStrongest`, on which `StrongestShown` does. Only model-checked is what is beyond
the prover, liveness: `SweepEnds`, `DropsOpened` and `QuitEnds`, which need ENABLED
of the actions that are fair; and the five findings, which are counterexamples.

## 6. What is not modelled

- Section tables are ordered and without overlap, as linkers write them and the
  format asks, and the optional header has at most 16 directories (the code reads
  `NumberOfRvaAndSizes` without a limit). An export directory counts as many functions
  as a linker writes: what `reserve` does with a count no memory holds is left out.
- The sweep and the scan for strings of a file that lacks the raw data its sections
  promise: both go by the section headers and would read past the mapping.
- Of the headers, the fields nothing else reads (machine, alignments, time stamps).
- Zydis, dbghelp, the kernel, ImGui, `std::lower_bound`: external, modelled from
  their use.
- Text: formatting of instructions with the names the two hooks print, for
  immediates and for memory operands alike, and the formatter's settings; columns, the
  parsing of a typed address, colours, fonts, the status bar; the mouse wheel; the flags that show
  the two code views. The theme and the status bar keep no state that changes.
- The `.ini` file that ImGui writes, and docking: they do not meet the program's
  own state.
- Build files and vendored dependencies have no behaviour to model.
