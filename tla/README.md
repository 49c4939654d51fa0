# A verification development for Cagebreak

Cagebreak is a tiling Wayland compositor written in C on top of wlroots.
This directory holds TLA+ modules translated from its source, TLC
configurations that check them on small instances, and proofs checked by TLAPS.
`PROJECT.json` lists the components, the runs, the theorems, the hazards of the
code, and for every definition the lines of `src/` it models.

    tlc -workers 2 -config <run>.cfg <module>.tla      # model-check
    tlapm <module>Proofs.tla                           # check proofs

## 1. The system

One process, one thread, one event loop (`wl_display_run`, `cagebreak.c:734`).
Every handler of the loop runs to its end, so handlers are atomic with respect
to each other. Signals are no exception: SIGALRM comes through the loop as well
(`wl_event_loop_add_signal`, `cagebreak.c:393`). Only the client programs on the
other end of each socket are concurrent with the server. What is hard is
therefore mostly not threads, but many events in an arbitrary order that rewrite
several copies of the same fact: a device is unplugged while a timer runs, a key is
held while its binding is replaced, a monitor vanishes between two commands.

### Inventory

| Component | State | Operations | Interacts with |
|---|---|---|---|
| Window management (`workspace.c`, `view.c`, `seat.c`, `output.c`, parts of `keybinding.c`, `xdg_shell.c`, `xwayland.c`, `layer_shell.c`) | outputs, workspaces per output, tiles, views; `tile->view`, `view->tile`, `view->workspace`, the workspace's view list, the scene tree, `seat->focused_view`, the keyboard focus | surface create/map/unmap/destroy, about 25 commands, output plug and unplug | calls the tile geometry; sends IPC events; asked by the seat where input goes |
| Tile geometry (`keybinding.c`, `workspace.c`, `seat.c`) | a ring of rectangles per workspace, `focused_tile`, `seat->cursor_tile` | split, merge, resize (recursive), only, focus by direction, cycle, pointer motion | part of window management |
| IPC server (`ipc_server.c`) | client list, per client a read buffer, a write buffer with its size, two event sources | connect, hang-up, error, readable, run a line, send an event, writable, shutdown | each line is parsed and run as a command, which may send events to every client |
| Keys and modes (`keybinding.c`, `seat.c`) | array of bindings, modes, `server->seat->mode`, `default_mode`, the repeat timer and `repeat_keybinding` | key press and release, repeat time-out, definekey, definemode, mode, setmode | runs commands |
| Output life cycle and configuration (`output.c`, `keybinding.c`) | outputs sorted by priority, disabled outputs, role (peripheral, permanent), configurations | insert, configure, enable, disable, destroy | calls `output_clear` of window management |
| Messages (`message.c`, `cagebreak.c`) | per output a list of messages, one alarm for all | show, replace, time-out | outputs |
| Input devices (`seat.c`, `input_manager.c`, `libinput.c`) | devices, keyboard groups, capabilities, the stored `input` commands | add, remove, configure | keys |
| Idle inhibition (`idle_inhibit_v1.c`) | a list of inhibitors | new, destroy | – |
| Parser (`parse.c`) | none (fills an action) | parse a line | IPC server, configuration file |
| Start-up, shutdown (`cagebreak.c`, `server.c`) | `server->running` and all of the above | start, read the configuration, terminate | all |

### What makes each of them correct

* **Window management.** A tile and the view it shows agree; a view is in the
  list of exactly one workspace, and shown only there; the seat's focus and the
  keyboard's focus agree with what is on the screen; no freed tile, view or
  scene node is used; `next`, `prev` and closing a view agree on an order and
  reach every view.
* **Tile geometry.** Tiles cut the output without gap or overlap; the ring holds
  each tile once; a neighbour is found when there is one; resize moves exactly the
  tiles that lie along the moved line, and is refused only when one would vanish.
* **IPC server.** Each client reads the events since it connected as one unbroken
  stream; buffers stay within their sizes; a waiting byte has a source that will
  write it; commands are run whole and in order.
* **Keys and modes.** There is one binding for a key and a mode; what a timer
  repeats is the binding of a key that is held; a mode's number stays valid.
* **Input devices.** Groups, capabilities and the seat's keyboard are those of the
  devices present; the settings of a device do not depend on whether it was plugged
  before or after it was configured.
* **Output life cycle.** Sorted by priority, in one of two lists, `curr_output` and
  the output of every view always in use, a permanent output keeps its place.
* **Messages.** Whatever is shown has an alarm that will hide it.

Hazards, each with its line and the properties that catch it, are listed in
`PROJECT.json`.

## 2. The modules

    TileLayout          what the tile commands promise: four ways to change a partition
      TileLayoutProofs  theorems about it
      MCTileLayout      its TLC instance
    Tiling              the linked ring, the neighbour searches, the recursive resize
      TilingProofs      theorems about it
      MCTiling          its TLC instances
    WlList              the linked lists that Desktop, Outputs and Keys share
      ListProofs        lemmas about them and about folds and sequences
    Desktop             outputs, workspaces, tiles, views, focus
      DesktopProofs     theorems about it
      MCDesktop         symmetry for TLC
    EventStream         what the IPC socket promises a listener
    IpcServer           buffers, sources, partial writes, the command loop
      IpcServerProofs   theorems about its output side; that it implements EventStream
      IpcInputProofs    theorems about its types and its input side
      MCIpcServer       its TLC instances
    Outputs             the life cycle of outputs, start-up, messages and SIGALRM
      OutputsProofs     theorems about it
      MCOutputs         symmetry for TLC
    InputConfig         how stored `input` commands become settings (operators only)
    Keys                devices, keyboard groups, bindings, modes, key repeat
      KeysProofs        theorems about it
      MCKeys            its TLC instances

`Keys` extends `InputConfig`, and `Desktop`, `Outputs` and `Keys` extend `WlList`, a `wl_list` as
the sequence of its elements. `Outputs` and `Desktop` are two views of the same
code: `Desktop` has what happens to tiles, views and focus when an output comes and
goes, `Outputs` what happens to the output objects. They share `output_clear`,
which both model as far as it concerns them. `Tiling` implements `TileLayout` and `IpcServer` implements `EventStream`; both
refinements are the properties `Implements`.

### TileLayout and Tiling

`pos` and `dim` are `tile.x/y` and `tile.width/height`, indexed by axis, as the
code indexes them by passing `get_x`/`get_width` as function pointers. `TileLayout`
has four steps: make one tile of the whole output, cut a tile, join two tiles, move
a line. `Tiling` has the code's: `next` and `prev` pointers, `focused_tile` and
`cursor_tile`. Neighbours are found by walking the ring (`find_tile` stands for the
four functions that differ in direction), and `resize_allowed` and `resize` are
the code's mutual walk over the ring with `parent` and `orig`, rewriting the
coordinates that later comparisons read. Both are recursive functions, as is `Along`, the
links followed n times; a loop over the ring (`Ring`, `OthersInRing`) is as many of them as
lead back to its first tile.

A tile is its address, so a freed tile may be allocated again at once. Split
percentages are fractions, for which `(int)((float)w * p)` is the integer division.

### Desktop

The state is one record `desk`, because the code's handlers are chains of calls
that each change several of its parts; each C function is an operator from states to
states under its C name, and an action applies one of them. `seat_set_focus`,
which nearly every handler ends in, rewrites the focused tile, rotates the
workspace's view list (`wl_list_remove` and `wl_list_insert` of the *head*) and
moves both focuses.

Two parts record bad events. `ub` becomes true when a step would use a freed
tile, view or scene node, or would splice the view lists of two workspaces into
one ring. What follows such a step is not defined, so the state is frozen
there, and every invariant is checked up to that point. Where `NoUb` is checked,
the point is not reached. `running` becomes false on `quit` and when the last
output goes.

Which tile is to the left of which is left to `Tiling`: here a neighbour may be
any other tile of the workspace. The commands that pick a neighbour and the
ring walks are therefore more liberal than in the code.

`Inputs` names the classes of arguments a run explores. Without any
class the commands are used as a key binding without ids uses them; `quit` adds the
command of that name, which only stops the system, and `layer` a layer surface
that asks for the keyboard. The classes, and what they
make reachable in this code:

| Class | Adds | Properties that then fail |
|---|---|---|
| `merge_id` | merge a tile other than the focused one | `FocusIsShown`, `TileViewLinked` (the merge may remove the focused tile, whose view keeps the focus) |
| `moveview_id` | move a view by id, also one that does not exist or is hidden | `FocusIsShown`, `TileViewLinked`, `ShownAtHome`, `FocusLast`, `NoUb`, `CyclingReachesAll` |
| `exchange_id` | exchange tiles of different workspaces | `ShownAtHome`, `TileViewLinked`, `FocusLast`, `NoUb` (`view->workspace` does not follow) |
| `next_id` | `next` with the id of a view of another workspace | `NoUb` (the head of the current list is spliced into another ring) |
| `shrink` | remove a workspace that has views | `TreeFollows` (their scene nodes go with it) |
| `unplug_last` | unplug the last output | `NoUb` (views are freed with their listeners attached) |

With two outputs `NoUb` fails without any id: a view that was created but is not
mapped yet has its scene tree under the workspace that was current then, and
loses it when that output is unplugged (`output.c:199`). `desktop_hotplug`
therefore checks the other properties up to that point, and `UbNeedsDeadNode`: this is
the only way to it, a misuse of memory always finds an unmapped view without its
scene node. The classes above with which `NoUb` fails break it too. With two outputs *and*
ids `Listed` fails as well, after a `moveview` with an unknown id has emptied a
tile that a view still points to; `desktop_ids` has one output. No document or
comment says what should happen in these cases, except in the ones listed under
Findings, so they are described here and not claimed either way.

### EventStream and IpcServer

A byte on the wire is the number of its event; `EvLen` of them make an event. An
input byte is part of a line or a newline; a comment, an empty line and a rejected
command are lines that send no event. Three parties act: the client
programs (`Send`, `Receive`, `Close`, which are external), the kernel (how much
`write` takes, when an error is reported) and the server's handlers.
`ipc_client_handle_readable` runs every complete line of a client; a line may send
events and so disconnect clients, so the loop is modelled one line at a time, with
`busy` naming the client whose handler is on the stack and keeping all other
handlers out. When a client's own command drops that client, `freed` marks the
point where the loop would go on with freed memory, and the server stops.

`inq`, `sock` are the kernel's buffers; `told`, `eaten`, `got`, `log` are history
variables that only the properties read.

### Outputs

One record `server`, operators under the C names, as in `Desktop`. A monitor is its
name; a struct `cg_output` is its address, with one function per field. That
separation is the point of the module: the stored configuration belongs to the name
and outlives the struct (`server->output_config`), a permanent output is a struct
without a monitor that waits for a name, and a disabled output is a struct with a
monitor in another list.

`output_apply_config` is the centre. Given the stored configuration it may destroy
the output, disable it, disable it because a mode was refused, or list it again at the
place its new priority gives it; it is called for a command, for a new monitor, for
a monitor that is back and, in `main()`, for every output while the list is built
again (`phase`: backend, config, sorting, running). `todo` is `main()`'s list of
those still to come.

Pointers that would be dangling are states: `scene` is live, null or dangling,
`ws` says whether `workspaces` is allocated, `bg` whether there is a background
rectangle, and a message is `raw` when its scene node was never created. `ub` becomes
true when one of them is used. What is left then is the initial state with `ub`
set, and no step follows.

SIGALRM is the action `Sigalrm`: the event loop delivers it between two handlers, for
the outputs that are in the list at that moment. Time is not modelled: the alarm may go
off at any moment once it is set.

| Class | Adds | Properties that then fail |
|---|---|---|
| `disable` | the command of that name (in every run) | – |
| `fails` | the backend refuses a mode while another output is left | `PermanentKeepsPlace`: the stored mode is applied again when the monitor comes back, and its refusal disables the permanent output |
| `last_fails` | with `fails`: the backend also refuses a mode on the only output | `OutputsInUse`: the only output is disabled and is still the current one; `MessagesTimed`: the next message is put on it, although it is in the list of disabled outputs |
| `time0` | `display_time 0` | `MessagesTimed`: `alarm(0)` cancels the alarm of the messages that are shown |

### InputConfig and Keys

`input_config` is the list of all `input` commands given, newest first. Two readers
walk it from its head and differ: `cg_input_configure_libinput_device` *applies*
each matching command in turn, so the oldest has the last word;
`cg_input_manager_configure_keyboard_group` *merges* them with a rule that prefers a
command for this keyboard to one for all.

In `Keys` a key press goes to the group of the keyboard. wlroots shows the group
the first press and the last release of a key among its keyboards (`HeldIn`,
`LastHeld`, external) and releases what is held on a keyboard before the keyboard
vanishes. `repeat` is the pointer into the array of bindings, with the capacity the
array had when it was taken: the array moves exactly when the capacity doubles. When
the timer dereferences a pointer into an array that moved, `ub` is set and nothing
follows. That is reachable (hold a key, `definekey` on the socket), and
`RepeatIsHeld` is therefore stated up to it.

The class `no_keymap` lets xkb fail to compile a keymap. `new_keyboard` then returns
without counting the keyboard, and its removal makes `num_keyboards` wrap, so that
`DevicesAgree` and `TypeOK` fail; this needs a broken installation and is in no run. The
theorems about devices assume it away, and that there are fewer than 65536 devices, as
`num_keyboards` and its likes are `uint16_t`.

## 3. The runs

| Run | Instance | What it shows |
|---|---|---|
| `layout` | 5 tiles, 4×3 pixels | the partition properties hold of the abstract layout |
| `tiling` | 4 tiles, 5×3 pixels, splits at 1/2 and 2/3, resize by -1, 1, 2 | the ring is one ring; neither `focused_tile` nor `cursor_tile` dangles (`TypeOK`); neighbours are found; resize moves exactly the right tiles and is refused exactly when it must be; the code implements `TileLayout` |
| `tiling_resize_other` | as above, current output one pixel wider | finding 1 |
| `desktop_workspaces` | 1 output, up to 2 workspaces, 3 managed views, 3 tiles | links, homes, no use of freed memory, and how `next`, `prev` and closing agree, for commands and surface events in any order |
| `desktop_hotplug` | 2 outputs that come and go, 2 managed views, 1 override-redirect view, 3 tiles | focus, lists and scene trees survive plugging and unplugging; only the scene node of an unmapped view is ever used after it was freed |
| `desktop_ids` | 1 output, 2 managed views, 2 override-redirect views of which one wants focus, a layer surface, 3 tiles, all id classes but `next_id` and `shrink` | no view is lost, and the keyboard is where the focus rules put it, up to the points above |
| `ipc_server` | 2 clients, 3 events, a buffer that grows once, 2 bytes of input each | streams, sources and buffers under partial writes, hang-ups, errors and the limit; commands are consumed whole and in order, also when they drop clients; implements `EventStream` |
| `ipc_liveness` | 1 client, 4 bytes, 2 events | every event is read and every line run |
| `outputs` | 2 monitors, 3 structs, 1 view, 1 priority besides the default | types, order, membership of the two lists, timed messages; memory is misused only around disabled outputs; a permanent output keeps its place |
| `outputs_enable` | as above | finding 2 |
| `keys` | 2 keyboards of different make, a pointer, 2 groups, a key and a modifier, 3 bindings, 2 `input` commands, 4 modes | unique bindings, repeats, groups and capabilities, settings |
| `input_order` | a pointer, 2 settings with 2 values each | finding 3 |

### Why the bounds are enough

* Tiles: the first layout with a T crossing needs three tiles, the pinwheel-like
  and crossing layouts that distinguish tiles *on* a line from tiles *connected
  along* it need four. 5×3 pixels give tiles of one pixel, odd and even centres,
  and a resize that must be refused.
* Views and tiles: three views in two tiles give one shown by each and one hidden,
  which is what `next`, `prev` and closing tell apart. The third tile lets a
  freed address be reused while a stale pointer to it is alive.
* Outputs and workspaces: two of each, since no command relates three.
* `Outputs`: two monitors and three structs, so that a name can come back in a new
  struct while the old one is still disabled. One priority besides -1 gives equal and
  different ones. One view, since views only follow their output.
* `Keys`: two keyboards can share a group or not, and share a key or not; the array
  starts at capacity 1, as in the code, so the second binding already moves it, and
  the third replaces the first while the array is full. Of two `input` commands one is
  for a make and one for a type, which is where the two readers differ.
* IPC: an event of 2 bytes can be torn; the kernel holds 1 byte for a client, so
  writes are partial; the first event fits, the second makes the buffer grow and
  the third drops a client that never reads. Two bytes of input hold a
  command and its newline; four hold two lines. `LenMod` is far above what is
  sent, so the wrap of `read_buf_len` (`ipc_server.c:268`) is not reached; with
  `LenMod` at 3 `CommandsComplete` fails, as a line of 65536 bytes does in the code.
* Bounds that stop the model and not the code: `MaxEvents`, `MaxTold`, `MaxWs`, the
  sets `Tiles`, `Views`, `Structs` and `Groups` (an allocation needs a free address),
  `MaxModes`, `MaxBindings`, `MaxConfigs`, `quit` in `Desktop`, the last output in
  `Outputs`, and `ub`. For these the `desktop_*`, `ipc_*`, `outputs*`, `keys` and
  `input_order` configurations switch deadlock checking off. `Tiling` and `TileLayout`
  are checked for deadlock.

### Fairness

`FairSpec` of `IpcServer` assumes weak fairness of: the rounds of the loop over
lines, which is a `while` loop that nothing interrupts; the handlers of a hang-up, of
a readable and of a writable client, because `wl_event_loop_dispatch` serves each
descriptor `epoll` reports ready in turn and a descriptor stays ready while there
is something to do; and `Receive`, since only a client that keeps reading is
promised anything. Nothing is assumed of connections, closing, sending,
errors or shutdown. Both liveness properties allow for the client being
disconnected, and for `freed`. No other module assumes fairness. In particular that a
message disappears is stated as the invariant `MessagesTimed` (there is an alarm) and
not as liveness, because each new message restarts the clock for all of them.

## 4. The proofs

Proved for every value of the constants, from the assumptions named in the modules
(`LayoutAssumption`; `IpcAssumption`, which says that buffer sizes are such that the
doubling loop ends, and that one size up to the limit exists; `DesktopAssumption`,
`OutputsAssumption` and `KeysAssumption`, which say that NULL is no address, what the sets
of commands and devices contain, and which types the settings and actions have). Where a theorem
needs more, it says so as a hypothesis of its own, named in the list below.

* `ListProofs`: what `wl_list_insert`, `wl_list_remove`, `Filter`, `SelectSeq` and the folds over
  sequences and sets give: the elements, the length, that no element occurs twice, the last
  element. The induction theorems of the library take an operator as a parameter and cannot be
  used, so each fact about a fold or a recursive definition is proved by the least
  counterexample (`LeastNat`).
* `TileLayoutProofs`: `TilesWithin`, `TilesCover`, `TilesDisjoint`. `Disjoint` and
  `Covered` over pixels are inductive under `Whole`, `SplitAt` and `Join` by
  following one pixel. For `MoveLine` a pixel between the old and the new line
  changes hands. That this leaves no gap is shown row by row: for a tile ending at
  the line, the tile covering the pixel just behind the line in the same row abuts
  it (a partner), so it belongs to the moved set as well, and the two exchange the
  pixels between the old and the new line. The same partner argument excludes an
  overlap.
* `TilingProofs`: `TilesFormOneRing` and `TilePointersLive`, for any number of tiles and any
  commands. The ring is the existence of a sequence: `IsRing(s, ...)` says that `s` has each
  live tile once, that `next` leads from each place to the following one and from the last to
  the first, and `prev` back. `RingInv` adds the two pointers, and is inductive because a split inserts
  a tile behind the last one (`RingGrows`) and a merge drops the last one (`RingShrinks`), once the sequence is
  turned so that it ends where the surgery is (`Turned`). `TilePointersLive` is the conjunct `PointersLive` of
  `TypeOK`, without the proviso below. The invariant `OneRing` itself speaks of walking the links. `AlongRecursion` shows that `Along` satisfies its
  recursion, `AlongRing` that it visits the places of the sequence in order, and
  `RingVisits` that a walk around the ring thus meets each tile once. A merge cannot drop the tile it
  starts from since the tile it finds is another one (`FindsHit`).
* `TilingProofs`: `TilesImplementLayout`, `NeighboursFound` and `TypeCorrect`. What `TileLayoutProofs` proves holds of
  the rectangles of `Tiling` as long as its steps are steps of `TileLayout`
  (`LayoutFacts`). `OneSpans` takes the pixel on the other side of the border at the height of
  the centre: it belongs to one tile, which by the partition starts at the border, and no
  other tile qualifies. So the search, which takes the first hit in the order of the ring, depends
  on no order (`SearchFinds`). `SplitImplements` and `MergeImplements` show that a split cuts
  one tile in two and that a merge joins two that abut with equal sides. Hypothesis: `ResizeMovesLine`,
  each resize that changes the layout moves a line. It is the part of `Implements` that
  only TLC checks, on the instance of `tiling`: what the recursive `resize` computes
  rests on the end of its recursion, which follows from the geometry and
  would need an induction over it.
* `IpcServerProofs`: `StreamsIntact`, `WritersArmed`, `BuffersFit`. The invariant
  `OutInv` adds to the three the types and `IdleOutput`: a client that is not
  connected owns no bytes, so a new connection starts an empty stream.
  Without it a reconnection would not be inductive. One lemma per group of actions
  shows that `OutInv` is kept (`SendOut` for events, `WritableOut` for partial
  writes, `DisconnectOut` for everything that drops clients), `NextOut` puts them
  together.
* `IpcInputProofs`: `ServerTypes` and `CommandsWhole`. `TypeInv` adds to `OutInv` that a
  client that is not connected has sent nothing (`IdleInput`), and that the client whose
  commands run is connected until one of them frees it (`Running`). `CommandsWhole`
  assumes `MaxTold < LenMod`: a connection carries less text than `read_buf_len` can
  count. The assumption is used in one place, `ReadableInput`, where it keeps the length
  from wrapping; without it the property is false (`LenMod` above).
* `IpcServerProofs`: `ServerImplementsStream`, the refinement of `EventStream`. `NextStream`
  maps each step of the server: a partial write is a stutter (`WritableStutters`), as it
  moves bytes from one part of the queue to the other; a read is a `Deliver` of all that
  is in the kernel; an event is an `Emit` that drops the clients whose buffer would
  outgrow the limit; everything that disconnects is a `Leave`. It rests on `OutInv`:
  the buffers of clients that are not connected must be empty.
* `DesktopProofs`: `TypeCorrect`, `TilesAndViewsAgree`, `FocusFollowsTile`,
  `ShownInOwnWorkspace`, `NoViewIsLost`, `NodesFollowViews`, `FocusedViewIsLast` and
  `KeyboardOnFocusedView`, for any number of outputs, workspaces, tiles and views. None of
  these is inductive alone: the seat can only focus what the focused tile shows if that tile exists and
  is of the current workspace, and a workspace can only be refilled from its list if the list
  has exactly the views that are at home there. `DeskInv` is their conjunction with what
  connects them: `Placed` (outputs, current workspaces, focused tiles), `Linked` (tile and view
  point to each other and are of one workspace), `InLists` (the lists partition the mapped
  views), `Seated` (the seat). A handler breaks this on the way and restores it at
  its end. `Base(s, A, G)` is what holds in the middle, with the views of `A` in no list and
  the workspaces of `G` about to be freed; `output_clear` needs both. Each C function has a
  lemma that says which of the parts it needs and which it restores, `NextKeeps` puts the
  actions together. Hypothesis `ByPlace`: none of the classes `merge_id`, `moveview_id`,
  `exchange_id`, `next_id` and `shrink`. The table of classes above says which of the
  properties fails with each of them, so the hypothesis asks for what the code needs;
  `quit`, `layer` and `unplug_last` are allowed.
* `DesktopProofs`: `NoFreedMemoryIsUsed` (`NoUb`) for one output and
  `FreedMemoryIsDeadNode` (`UbNeedsDeadNode`) for any number. A handler that uses a freed tile
  or splices two lists contradicts `DeskInv`; what `DeskInv` does not exclude is a scene node that
  is gone, as it speaks of mapped views only. `Sound` says that no view that exists has lost its
  node, and that the focused view exists. The lemma of each C function says that it
  keeps `Sound`, except that `output_destroy` only keeps from using freed memory: by
  freeing a workspace it ends `Sound` for the views that were created there and not mapped
  since. So with one output, which is never destroyed, `Sound` is inductive (`NextKeepsSound`), and
  with more a handler that misuses memory was entered without `Sound`, which under `DeskInv`
  means an unmapped view without a node (`StepNeedsDeadNode`). Hypotheses: `ByPlace`, and not `unplug_last`.
* `DesktopProofs`: `ClosingAgreesWithNext` and `CyclingShowsEveryView`, which follow from `DeskInv`
  and say what a *sequence* of commands does. Both start from the focused view being last in
  its list and from what one `next` does to it: if the hidden view nearest to the end is at place
  k of n, every other hidden view moves n - k places towards the end, one at least,
  since the last place is the focused view's (`CycleStep`), and what was focused becomes the first hidden
  view, at place n - k, so that `prev` rotates the list back (`CycleBack`, `RotatedBack`).
  `NextsReach` counts the repetitions. Hypotheses: `ByPlace`, and for the second theorem
  that `Views` is finite, as it bounds the repetitions by the number of views.
* `OutputsProofs`: `OutputsSorted`. The order is not inductive by itself:
  `output_insert` finds a sorted list only if no priority in it changed since. The
  invariant `SortInv` adds that the list has no output twice, that an output in it has a
  name (so a struct that is allocated again is in no list), and, while `main()` lists
  the outputs again, that those still to come are not listed yet. Between the change of
  a priority and the next insertion the list is only in order *but for* one output
  (`SortedBut`); unlinking that one restores it (`UnlinkDetaches`), and
  `ApplyKeepsOrder` follows `output_apply_config` along its four ways out. `Quiet`
  collects the operators that do not touch what matters.
* `OutputsProofs`: `TypeCorrect`, `UseIsListed` and `MessagesAreHidden`. The invariant `Held`
  says that names and structs correspond (`Names`), that each struct is in at most one list
  (`Lists`), and that `curr_output`, the outputs of the views and the messages are *in use*
  (`Refs`): listed, or in `todo` while `main()` lists the outputs again, which is
  why the property itself, stated for the running server, is not inductive. `Left` describes
  the moment in `output_clear` at which one output is unlinked and what referred to it goes
  to another one; `LeaveFindsAnother` shows that there is one. Hypotheses: not
  `last_fails`, and for `MessagesAreHidden` not `time0`, with which the properties fail (table
  above). `fails` is allowed.
* `OutputsProofs`: `PermanentStays`, the action property `PermanentKeepsPlace`. The invariant
  `Ranked`, on top of `SortInv` and `Held`, says that an output in use has the priority that is
  stored for its name, if one is: `output_apply_config` lists an output again when its
  priority changes (`Enable`), so only then does a monitor that comes back leave the place
  alone (`ReinitStays`). `ApplyFits` follows the ways out of `output_apply_config`: what is
  listed afterwards fits. `PlaceKept` is the step itself; the case to look at is a *disabled*
  struct of the same name that is destroyed instead (`DestroyElsewhere`), to which nothing may refer.
  `OnlyPlugs` shows that no other action changes which monitors there are. Hypotheses: not
  `fails`, with which the property fails (table above), and not `last_fails`, which only means
  something together with it.
* `OutputsProofs`: `MemoryAroundDisabled`, the action property `UbNeedsDisabled`. Of a struct
  with a name, other than one being worked on, `Intact` says that its workspaces are allocated,
  and that it has a background and no raw message as long as its scene output is live; a
  scene output that is not live is dangling. With `clean`, for a state outside
  `AroundDisabled`, it says that every scene output is live and that no memory was misused. Each
  handler has one lemma for both readings: `NewOutputIntact` is where the order of `calloc`,
  `output_insert`, `output_configure` and the workspaces matters (nothing reads the
  workspaces in between unless the stored configuration disables the output or its mode is
  refused), and `DestroyIntact` where a permanent output keeps its workspaces. `NextOutcome`
  is the step. Hypothesis: not `last_fails`, since `Held` gives the current output that the
  messages go to.
* `KeysProofs`: `BindingsUnique` and `RepeatsAreHeld`. `KeysInv` has three parts:
  `ArrayInv`, the bindings are unique and the length is within the capacity;
  `DeviceInv`, a device that is unplugged, or is no keyboard, is in no group and holds
  no key; `RepeatInv`, a remembered binding was taken from an array of at most the present capacity, its
  key is held, and if the capacity is the same it is still at its index. The last part
  rests on the first: replacing a binding keeps the key at the index.
* `KeysProofs`: `TypeCorrect`, `DevicesStayKnown` and `SettingsAreUpToDate`. `SeatInv` adds to
  `DevicesAgree` that each count is the number of the plugged devices of its type, so that none
  falls below zero; `ModeInv` that the modes a binding enters have been defined; `SettingsInv`
  that the stored commands are `input` commands and their settings of the right type.
  `GroupConfigGives` says what merging
  the stored commands of a keyboard group gives: a value is set if and only if some
  matching command sets it. It is proved over the length of the list. `StaysGiven` is
  needed since `enable_keybindings` is left as it is when no command sets it: what
  was given by the commands so far is given by more commands as well. Hypotheses: fewer than 65536
  devices, as the counters are `uint16_t`, and not `no_keymap`.

Only model-checked: `ResizeIsExact` of `Tiling` and that a resize
moves a line (`ResizeMovesLine`); and the liveness properties. Out of the prover's reach
are liveness under fairness and the values of the recursive functions `resize` and
`resize_allowed`, as said above.

## 5. Findings

1. `tiling_resize_other`: `resize_tile` with a tile id compares that tile with the
   layout box of the *current* output (`keybinding.c:625`). If the outputs differ in
   size, the tile on the right edge is not recognised as such and grows off its
   output.
2. `outputs_enable`: `output <name> enable` for a disabled output whose priority does not
   change turns it on in wlroots and leaves it in `disabled_outputs` with its scene
   output destroyed (`output.c:472`). It is lit and cannot be used, where
   `cagebreak-config(5)` says the command enables it.
3. `input_order`: of two `input` commands for the same setting of a device the older one
   wins, because the list is walked from the newest to the oldest (`libinput.c:340`),
   where `cagebreak-config(5)` says configurations are applied sequentially.

Observed while modelling, described above and under the hazards, and not claimed as
findings of a run: merging by id leaves the focus on a hidden view; `next
<view_id>` does nothing for a view that another tile shows (class `next_id`); a command
line of 65536 bytes wraps `read_buf_len`; the repeat timer can read a freed
array; what is done to disabled outputs uses freed or NULL memory.

## 6. Not modelled

* Drawing (`pango.c`, anchors and stacking of messages), and what libinput does with a
  setting: output without state.
* Which lines `parse.c` rejects: string handling without state. What it makes of an
  accepted line is in the modules that use it.
* Pointer constraints, drag icons and touch: they depend on the life cycle of wlroots
  objects that is not in this repository.
* Stacking of layer surfaces, pointer focus, cursor images.
* Idle inhibition: one list, and the question whether it is empty is asked again after
  each change of it.
* Position, mode, scale and rotation of outputs, and with them the output layout
  (`wlr_output_layout`), which wlroots keeps.

Worth doing next: a walk of `resize` without recursion (which tiles it moves, and by how
much) from which `ResizeMovesLine` could be proved.
