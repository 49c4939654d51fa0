------------------------------ MODULE Desktop ------------------------------
(***************************************************************************)
(* The window-management core of cagebreak: outputs, workspaces, tiles,    *)
(* views and the seat's focus, as they are changed by surface life-cycle   *)
(* events, by commands and by output hot-plugging.                         *)
(*                                                                         *)
(* The compositor is a single-threaded event loop, so every handler is one *)
(* atomic action.  What makes the code hard is that the same fact is kept  *)
(* in several mutable places (tile->view, view->tile, view->workspace, the *)
(* workspace's view list, the parent of the scene node, the seat's focused *)
(* view, the keyboard focus) and that every handler updates them through a *)
(* chain of calls.  The chain is written as a composition of functions on  *)
(* the state record `desk`.                                                *)
(*                                                                         *)
(* Abstractions: tile geometry and the ring order are in module Tiling, so *)
(* a neighbour of a tile is any other tile of its workspace here; a tile   *)
(* is its address, so a freed one may be allocated again; ids, names,      *)
(* messages and IPC events are left out.                                   *)
(***************************************************************************)
EXTENDS Integers, Sequences, FiniteSets, WlList

CONSTANTS
  Views,        \* struct cg_view objects
  Unmanaged,    \* the override-redirect XWayland views among them
  WantsFocus,   \* unmanaged views for which XWayland reports wants_focus
  Tiles,        \* addresses of struct cg_tile objects
  Outputs,      \* outputs that may be connected
  FirstOutput,  \* the output present at start-up
  MaxWs,        \* bound on server->nws
  Layer,        \* a layer-shell surface that asks for keyboard focus
  NULL,
  Inputs        \* classes of events and command arguments a run explores

(* A workspace is named by its output and its index in output->workspaces. *)
Ws == Outputs \X (0 .. MaxWs - 1)

ASSUME DesktopAssumption ==
  /\ Unmanaged \subseteq Views
  /\ WantsFocus \subseteq Unmanaged
  /\ FirstOutput \in Outputs
  /\ MaxWs \in Nat \ {0}
  /\ NULL \notin Views \cup Tiles \cup Outputs \cup Ws
  /\ Layer \notin Views \cup {NULL}
  /\ Tiles # {}

VARIABLE desk

Managed == Views \ Unmanaged

(***************************************************************************)
(* The state record:                                                       *)
(*   outputs  server->outputs            nws     server->nws               *)
(*   output   server->curr_output        currWs  output->curr_workspace    *)
(*   ftile    workspace->focused_tile    tileWs  tile->workspace, or NULL  *)
(*                                               when the tile is free     *)
(*   tileView tile->view                 viewTile view->tile               *)
(*   viewWs   view->workspace            list    workspace->views          *)
(*   life     none, unmapped (view_init ran) or mapped (in a list)         *)
(*   focus    seat->focused_view         kb      keyboard focused_surface  *)
(*   tree     the workspace under whose scene tree the view's scene node   *)
(*            hangs, NULL once that node was destroyed                     *)
(*   layer    the layer surface is mapped                                  *)
(*   running  server->running                                              *)
(*   ub       a step used freed memory or spliced two view lists           *)
(***************************************************************************)
DeskType ==
  [outputs  : Seq(Outputs),
   nws      : 1 .. MaxWs,
   output   : Outputs,
   currWs   : [Outputs -> 0 .. MaxWs - 1],
   ftile    : [Ws -> Tiles \cup {NULL}],
   tileWs   : [Tiles -> Ws \cup {NULL}],
   tileView : [Tiles -> Views \cup {NULL}],
   viewTile : [Views -> Tiles \cup {NULL}],
   viewWs   : [Views -> Ws \cup {NULL}],
   list     : [Ws -> Seq(Managed)],
   life     : [Views -> {"none", "unmapped", "mapped"}],
   focus    : Views \cup {NULL},
   kb       : Views \cup {Layer, NULL},
   tree     : [Views -> Ws \cup {NULL}],
   layer    : BOOLEAN,
   running  : BOOLEAN,
   ub       : BOOLEAN]

-----------------------------------------------------------------------------
(* Reading the state.                                                      *)

CurrWs(s) == <<s.output, s.currWs[s.output]>>

FocusedTile(s) == s.ftile[CurrWs(s)]

TilesOf(s, w) == {t \in Tiles : s.tileWs[t] = w}

FreeTiles(s) == {t \in Tiles : s.tileWs[t] = NULL}

LiveWs(s) == ToSet(s.outputs) \X (0 .. s.nws - 1)

(* A tile that was freed shows nothing: merge_tile clears its view first.  *)
view_get_tile(s, v) ==
  IF s.viewTile[v] # NULL /\ s.tileView[s.viewTile[v]] = v
  THEN s.viewTile[v] ELSE NULL

view_is_visible(s, v) == v \in Unmanaged \/ view_get_tile(s, v) # NULL

FirstHidden(s, seq) ==
  LET hidden == {i \in DOMAIN seq : ~view_is_visible(s, seq[i])}
  IN  IF hidden = {} THEN NULL ELSE seq[Min(hidden)]

(* The managed view with this id, NULL when no workspace lists one.        *)
view_from_id(s, v) ==
  IF \E w \in LiveWs(s) : v \in ToSet(s.list[w]) THEN v ELSE NULL

(* Walks the ring backwards from the view, over the list head.             *)
OldestHidden(s, v) == FirstHidden(s, wl_list_remove(s.list[s.viewWs[v]], v))

view_get_prev_view(s, v) ==
  LET l == s.list[s.viewWs[v]]
      k == IndexIn(l, v)
  IN  FirstHidden(s, Reverse(SubSeq(l, 1, k - 1))
                       \o Reverse(SubSeq(l, k + 1, Len(l))))

-----------------------------------------------------------------------------
(* Steps shared by the handlers.                                           *)

(* Touching the scene node of a view whose node was destroyed.             *)
NodeDead(s, v) == v # NULL /\ s.tree[v] = NULL

(* wlr_scene_node_reparent(&view->scene_tree->node, ws->scene_tree).       *)
NotReparented(s, v, w) == s

Reparent(s, v, w) ==
  [s EXCEPT !.tree[v] = w, !.ub = @ \/ NodeDead(s, v)]

(* The view joins a workspace, at the head of its list of views.           *)
ListsAll(s, v, w) ==
  [s EXCEPT !.list[w] = <<v>> \o @, !.viewWs[v] = w]

JoinWs(s, v, w) ==
  [s EXCEPT !.list[w] = IF v \in Managed THEN <<v>> \o @ ELSE @,
            !.viewWs[v] = w]

(* wl_list_remove(&view->link)                                             *)
NotUnlinked(s, v) == s

Unlink(s, v) == [s EXCEPT !.list = [w \in Ws |-> wl_list_remove(@[w], v)]]

(* wlr_seat_keyboard_clear_focus                                           *)
KeyboardStays(s) == s

ClearKeyboard(s) == [s EXCEPT !.kb = NULL]

workspace_tile_update_view(s, t, v) ==
  LET old == s.tileView[t]
      vt  == [x \in Views |-> IF x = v THEN t
                              ELSE IF x = old THEN NULL ELSE s.viewTile[x]]
  IN  [s EXCEPT !.tileView[t] = v,
                !.viewTile = vt,
                !.ub = @ \/ s.tileWs[t] = NULL \/ NodeDead(s, old)
                         \/ NodeDead(s, v)]

view_maximize(s, v, t) ==
  [s EXCEPT !.viewTile[v] = t, !.ub = @ \/ NodeDead(s, v)]

(***************************************************************************)
(* wl_list_remove(&curr_workspace->views); wl_list_insert(&view->link,     *)
(* &curr_workspace->views): the list head is moved behind the view, which  *)
(* rotates the list so that the view becomes its last element.  When the   *)
(* view is not in this list the head lands in another ring.                *)
(***************************************************************************)
NotRotated(seq, v) == seq

MovedToEnd(seq, v) == Append(wl_list_remove(seq, v), v)

RotateTo(seq, v) ==
  LET k == IndexIn(seq, v)
  IN  SubSeq(seq, k + 1, Len(seq)) \o SubSeq(seq, 1, k)

seat_set_focus(s, v) ==
  LET w == CurrWs(s)
      u == workspace_tile_update_view(s, FocusedTile(s), v)
      stale == s.focus # NULL /\ s.life[s.focus] = "none"  \* prev_view freed
  IN  CASE v = NULL ->
             [ClearKeyboard(u) EXCEPT !.focus = NULL, !.ub = @ \/ stale]
        [] v \in Managed ->
             [u EXCEPT !.list[w] = IF v \in ToSet(@) THEN RotateTo(@, v) ELSE @,
                       !.focus = v,
                       !.kb = v,
                       !.ub = @ \/ stale \/ v \notin ToSet(s.list[w])]
        [] OTHER ->
             [s EXCEPT !.kb = IF v \in WantsFocus THEN v ELSE @]

(* Focus whatever the focused tile of the current workspace shows.         *)
Refocus(s) == seat_set_focus(s, s.tileView[FocusedTile(s)])

OutputWithoutFocus(s, o) == [s EXCEPT !.output = o]

set_output(s, o) == Refocus([s EXCEPT !.output = o])

workspace_focus(s, o, i) ==
  IF i >= s.nws THEN s ELSE [s EXCEPT !.currWs[o] = i]

keybinding_switch_ws(s, i) ==
  IF i >= s.nws THEN s ELSE Refocus(workspace_focus(s, s.output, i))

workspace_focus_tile(s, w, t) == [s EXCEPT !.ftile[w] = t]

keybinding_focus_tile(s, t) ==
  LET w  == s.tileWs[t]
      s1 == IF s.output # w[1] THEN set_output(s, w[1]) ELSE s
      s2 == IF s1.currWs[w[1]] # w[2] THEN keybinding_switch_ws(s1, w[2]) ELSE s1
  IN  Refocus(workspace_focus_tile(s2, w, t))

keybinding_cycle_outputs(s, reverse) ==
  LET n == Len(s.outputs)
      k == IndexIn(s.outputs, s.output)
  IN  set_output(s, IF reverse
                    THEN s.outputs[IF k = 1 THEN n ELSE k - 1]
                    ELSE s.outputs[IF k = n THEN 1 ELSE k + 1])

ShowInTile(s, t, v) ==
  LET u == workspace_tile_update_view(s, t, v)
  IN  IF t = FocusedTile(s) THEN seat_set_focus(u, v) ELSE u

(* `next`, `prev`: nothing happens when every view is already visible.     *)
keybinding_cycle_views(s, t, reverse) ==
  LET l == s.list[s.tileWs[t]]
      v == FirstHidden(s, IF reverse THEN l ELSE Reverse(l))
  IN  IF v = NULL THEN s ELSE ShowInTile(s, t, v)

(* workspace_free_tiles and the scene node destroyed by workspace_free.    *)
FreeTilesOf(s, W) ==
  [s EXCEPT !.tileWs = [t \in Tiles |-> IF @[t] \in W THEN NULL ELSE @[t]],
            !.tileView = [t \in Tiles |->
                            IF s.tileWs[t] \in W THEN NULL ELSE @[t]]]

workspace_free(s, W) ==
  [FreeTilesOf(s, W) EXCEPT
     !.list = [w \in Ws |-> IF w \in W THEN <<>> ELSE @[w]],
     !.ftile = [w \in Ws |-> IF w \in W THEN NULL ELSE @[w]],
     !.tree = [v \in Views |-> IF @[v] \in W THEN NULL ELSE @[v]]]

(* full_screen_workspace for every workspace of W; f gives each its tile.  *)
full_screen_workspace(s, W, f) ==
  [s EXCEPT !.tileWs = [t \in Tiles |->
                          IF \E w \in W : f[w] = t
                          THEN CHOOSE w \in W : f[w] = t ELSE @[t]],
            !.ftile = [w \in Ws |-> IF w \in W THEN f[w] ELSE @[w]],
            !.list = [w \in Ws |-> IF w \in W THEN <<>> ELSE @[w]]]

-----------------------------------------------------------------------------
(* Surface life cycle.                                                     *)

view_init(s, v) ==
  [s EXCEPT !.life[v] = "unmapped",
            !.tree[v] = CurrWs(s)]

view_map(s, v) ==
  LET w == CurrWs(s)
  IN  seat_set_focus(
        Reparent(JoinWs([s EXCEPT !.life[v] = "mapped"], v, w), v, w),
        v)

view_unmap(s, v) ==
  LET prev == view_get_prev_view(s, v)
      s1 == CASE v \in Managed /\ v = s.focus ->
                   seat_set_focus(s, prev)
              [] v \in Managed /\ v # s.focus /\ s.kb = v ->
                   seat_set_focus(ClearKeyboard(s), s.focus)
              [] v \in Unmanaged /\ s.kb \in {NULL, v} ->
                   seat_set_focus(s, s.focus)
              [] OTHER -> s
      t  == view_get_tile(s1, v)
      s2 == IF v \in Managed /\ t # NULL
            THEN workspace_tile_update_view(s1, t, prev) ELSE s1
  IN  [Unlink(s2, v) EXCEPT !.life[v] = "unmapped"]

(***************************************************************************)
(* The freed view's name may be used for a new surface, so a tile that     *)
(* still points to the freed view counts as undefined behaviour here.      *)
(***************************************************************************)
DestroyMapped(s, v) ==
  [s EXCEPT !.life[v] = "none",
            !.tree[v] = NULL,
            !.ub = \E t \in Tiles : s.tileView[t] = v]

view_destroy(s, v) ==
  LET s1 == IF s.life[v] = "mapped" THEN view_unmap(s, v) ELSE s
  IN  [s1 EXCEPT !.life[v] = "none",
                 !.viewTile[v] = NULL,
                 !.viewWs[v] = NULL,
                 !.tree[v] = NULL,
                 !.ub = @ \/ NodeDead(s, v)
                          \/ \E t \in Tiles : s1.tileView[t] = v]

-----------------------------------------------------------------------------
(* Commands.                                                               *)

keybinding_split_output(s, n) ==
  LET w    == CurrWs(s)
      orig == s.focus
      next == FirstHidden(s, wl_list_remove(s.list[w], orig))
      s1   == workspace_tile_update_view(
                [s EXCEPT !.tileWs[n] = w], n, next)
  IN  IF orig = NULL THEN s1 ELSE view_maximize(s1, orig, FocusedTile(s))

MergeKeepsView(s, t, m) ==
  LET w == s.tileWs[t]
  IN  [s EXCEPT !.ftile[w] = IF @ = m THEN t ELSE @,
                !.tileWs[m] = NULL]

merge_tile(s, t, m) ==
  LET w  == s.tileWs[t]
      s1 == workspace_tile_update_view(s, m, NULL)
      s2 == [s1 EXCEPT !.ftile[w] = IF @ = m THEN t ELSE @,
                       !.tileWs[m] = NULL]
  IN  IF s2.tileView[t] = NULL THEN s2
      ELSE view_maximize(s2, s2.tileView[t], t)

swap_tiles(s, t, u, follow) ==
  LET s1 == workspace_tile_update_view(s, t, NULL)
      s2 == workspace_tile_update_view(s1, u, s.tileView[t])
      s3 == workspace_tile_update_view(s2, t, s.tileView[u])
  IN  IF follow THEN keybinding_focus_tile(s3, u) ELSE Refocus(s3)

(* focusleft and its siblings: the neighbour is in the same workspace.     *)
focus_tile(s, t) == Refocus(workspace_focus_tile(s, s.tileWs[t], t))

(* `next <view_id>` on the focused tile.                                   *)
CycleToView(s, v) ==
  IF view_is_visible(s, v) THEN s ELSE ShowInTile(s, FocusedTile(s), v)

FirstVisible(s, seq) ==
  LET shown == {i \in DOMAIN seq : view_is_visible(s, seq[i])}
  IN  IF shown = {} THEN NULL ELSE seq[Min(shown)]

(* n is the tile that full_screen_workspace_tiles allocates, possibly at   *)
(* the address of one that workspace_free_tiles has just released.         *)
output_make_workspace_fullscreen(s, w, n) ==
  LET shown == s.tileView[s.ftile[w]]
      cur   == IF shown # NULL THEN shown ELSE FirstVisible(s, s.list[w])
      s1 == FreeTilesOf(s, {w})
      s2 == [s1 EXCEPT !.tileWs[n] = w,
                       !.ftile[w] = n,
                       !.viewTile = [v \in Views |->
                          IF v \in ToSet(s.list[w]) THEN n ELSE @[v]]]
      s3 == workspace_tile_update_view(s2, n, cur)
  IN  IF w = CurrWs(s) THEN seat_set_focus(s3, cur) ELSE s3

(* old is view->tile, whether or not that tile shows the view.             *)
LeaveTile(s, v) ==
  LET old == s.viewTile[v]
      s1 == Unlink(workspace_tile_update_view(s, old, NULL), v)
      s2 == keybinding_cycle_views(s1, old, FALSE)
  IN  IF s2.tileView[old] = NULL /\ old = FocusedTile(s2)
      THEN seat_set_focus(s2, NULL) ELSE s2

EntersForeign(s, v, t) ==
  LET w  == s.viewWs[v]
      s1 == [JoinWs(s, v, w) EXCEPT !.viewTile[v] = t,
                                    !.tileView[t] = v]
  IN  IF t = FocusedTile(s1) THEN seat_set_focus(s1, v) ELSE s1

EnterTile(s, v, t) ==
  LET w  == s.tileWs[t]
      s1 == [Reparent(JoinWs(s, v, w), v, w) EXCEPT
               !.viewTile[v] = t,
               !.tileView[t] = v]
  IN  IF t = FocusedTile(s1) THEN seat_set_focus(s1, v) ELSE s1

EmptyTile(s, t) ==
  [s EXCEPT !.viewTile = [v \in Views |->
                            IF v = s.tileView[t] THEN NULL ELSE @[v]],
            !.tileView[t] = NULL]

(* v = NULL stands for a view id that names no managed view: the target    *)
(* tile then loses its view.                                               *)
keybinding_move_view_to_tile(s, v, t, follow) ==
  LET s1 == CASE v = NULL -> EmptyTile(s, t)
              [] v # NULL /\ s.viewTile[v] = NULL -> EnterTile(Unlink(s, v), v, t)
              [] OTHER ->
                   IF s.tileWs[s.viewTile[v]] = NULL
                   THEN [s EXCEPT !.ub = TRUE]  \* view->tile was freed
                   ELSE EnterTile(LeaveTile(s, v), v, t)
  IN  CASE s1.ub -> s1
        [] ~s1.ub /\ follow -> keybinding_focus_tile(s1, t)
        [] OTHER -> IF s1.tileView[t] = NULL THEN s1
                    ELSE workspace_tile_update_view(s1, t, s1.tileView[t])

keybinding_move_view_to_cycle_output(s, reverse) ==
  LET v  == s.tileView[FocusedTile(s)]
      ft == FocusedTile(s)
      s1 == [Unlink(s, v) EXCEPT !.tileView[ft] = NULL]
      s2 == keybinding_cycle_views(s1, ft, FALSE)
      s3 == IF s2.tileView[ft] = NULL THEN seat_set_focus(s2, NULL) ELSE s2
      s4 == keybinding_cycle_outputs(s3, reverse)
      w  == CurrWs(s4)
      s5 == Reparent(JoinWs(s4, v, w), v, w)
      s6 == workspace_tile_update_view(s5, FocusedTile(s5), v)
  IN  CASE Len(s.outputs) <= 1 -> s
        [] Len(s.outputs) > 1 /\ v = NULL -> keybinding_cycle_outputs(s, reverse)
        [] OTHER -> seat_set_focus(s6, v)

(* Views of removed workspaces go to the head of the last one that stays,  *)
(* one by one; their scene nodes go down with the old workspace.           *)
keybinding_set_nws(s, n, f) ==
  LET gone == ToSet(s.outputs) \X (n .. s.nws - 1)
      new  == ToSet(s.outputs) \X (s.nws .. n - 1)
      moved(o) == FlattenSeq([i \in 1 .. IF s.nws > n THEN s.nws - n ELSE 0 |->
                                s.list[<<o, n + i - 1>>]])
      s1 == [s EXCEPT
               !.nws = n,
               !.list = [w \in Ws |->
                  IF w[1] \in ToSet(s.outputs) /\ w[2] = n - 1
                  THEN Reverse(moved(w[1])) \o @[w] ELSE @[w]],
               !.viewWs = [v \in Views |->
                  IF s.life[v] = "mapped" /\ @[v] \in gone
                  THEN <<@[v][1], n - 1>> ELSE @[v]]]
      s2 == full_screen_workspace(workspace_free(s1, gone), new, f)
      s3 == [s2 EXCEPT !.currWs = [o \in Outputs |->
               IF o \in ToSet(s.outputs) /\ @[o] >= n THEN n - 1 ELSE @[o]]]
  IN  Refocus(s3)

-----------------------------------------------------------------------------
(* Outputs.                                                                *)

(* One managed view of a vanishing output is taken over by the current     *)
(* workspace; then all of them in turn, and the unmanaged ones.            *)
AdoptedAbroad(s, v) ==
  LET w  == CurrWs(s)
      s1 == [Reparent(JoinWs(s, v, w), v, w) EXCEPT
               !.viewTile[v] = s.ftile[w], !.viewWs = s.viewWs]
  IN  IF s1.focus = NULL THEN seat_set_focus(s1, v) ELSE s1

Adopt(s, v) ==
  LET w  == CurrWs(s)
      s1 == [Reparent(JoinWs(s, v, w), v, w) EXCEPT
               !.viewTile[v] = s.ftile[w]]
  IN  IF s1.focus = NULL THEN seat_set_focus(s1, v) ELSE s1

AdoptAll(s, views) ==
  LET after[k \in 0 .. Len(views)] ==
        IF k = 0 THEN s ELSE Adopt(after[k - 1], views[k])
  IN  after[Len(views)]

AdoptUnmanaged(s, gone) ==
  LET w == CurrWs(s)
      X == {v \in Unmanaged : s.life[v] = "mapped" /\ s.viewWs[v] \in gone}
  IN  [s EXCEPT !.viewWs = [v \in Views |-> IF v \in X THEN w ELSE @[v]],
                !.tree = [v \in Views |-> IF v \in X THEN w ELSE @[v]],
                !.viewTile = [v \in Views |-> IF v \in X THEN s.ftile[w] ELSE @[v]],
                !.ub = @ \/ \E v \in X : NodeDead(s, v)]

output_clear(s, o) ==
  LET gone == {w \in Ws : w[1] = o}
      s1 == IF s.output = o /\ Len(s.outputs) > 1
            THEN keybinding_cycle_outputs(s, FALSE) ELSE s
      managed == FlattenSeq([i \in 1 .. s.nws |-> s1.list[<<o, i - 1>>]])
      s2 == [s1 EXCEPT
               !.outputs = wl_list_remove(@, o),
               !.viewTile = [v \in Views |->
                  IF \E t \in Tiles : s1.tileWs[t] \in gone /\ s1.tileView[t] = v
                  THEN NULL ELSE @[v]],
               !.tileView = [t \in Tiles |->
                  IF s1.tileWs[t] \in gone THEN NULL ELSE @[t]],
               !.list = [w \in Ws |-> IF w \in gone THEN <<>> ELSE @[w]]]
  IN  AdoptUnmanaged(AdoptAll(s2, managed), gone)

(***************************************************************************)
(* output_destroy of a peripheral output.  When the last output goes, its  *)
(* views are freed with their listeners still attached and the display is  *)
(* terminated.                                                             *)
(***************************************************************************)
output_destroy(s, o) ==
  LET gone == {w \in Ws : w[1] = o}
  IN  IF Len(s.outputs) = 1
      THEN [s EXCEPT !.running = FALSE,
                     !.ub = \E v \in Views : s.life[v] = "mapped"]
      ELSE workspace_free(output_clear(s, o), gone)

handle_new_output(s, o, f) ==
  [full_screen_workspace(s, {<<o, i>> : i \in 0 .. s.nws - 1}, f)
     EXCEPT !.outputs = Append(@, o), !.currWs[o] = 0]

-----------------------------------------------------------------------------
(* The event loop: one handler at a time.                                  *)

Allocation(W) ==
  {f \in [W -> FreeTiles(desk)] : \A w, x \in W : f[w] = f[x] => w = x}

Init ==
  \E t \in Tiles :
    desk = [outputs  |-> <<FirstOutput>>,
            nws      |-> 1,
            output   |-> FirstOutput,
            currWs   |-> [o \in Outputs |-> 0],
            ftile    |-> [w \in Ws |-> IF w = <<FirstOutput, 0>> THEN t ELSE NULL],
            tileWs   |-> [x \in Tiles |->
                            IF x = t THEN <<FirstOutput, 0>> ELSE NULL],
            tileView |-> [x \in Tiles |-> NULL],
            viewTile |-> [v \in Views |-> NULL],
            viewWs   |-> [v \in Views |-> NULL],
            list     |-> [w \in Ws |-> <<>>],
            life     |-> [v \in Views |-> "none"],
            focus    |-> NULL,
            kb       |-> NULL,
            tree     |-> [v \in Views |-> NULL],
            layer    |-> FALSE,
            running  |-> TRUE,
            ub       |-> FALSE]

(* After undefined behaviour nothing can be said: the state is frozen.     *)
Step(s) ==
  /\ desk.running /\ ~desk.ub
  /\ desk' = IF s.ub THEN [desk EXCEPT !.ub = TRUE] ELSE s

LiveTiles == {t \in Tiles : desk.tileWs[t] # NULL}

Neighbours(t) == TilesOf(desk, desk.tileWs[t]) \ {t}

NewView(v) == desk.life[v] = "none" /\ Step(view_init(desk, v))

MapView(v) == desk.life[v] = "unmapped" /\ Step(view_map(desk, v))

UnmapView(v) == desk.life[v] = "mapped" /\ Step(view_unmap(desk, v))

DestroyView(v) == desk.life[v] # "none" /\ Step(view_destroy(desk, v))

LayerMap ==
  /\ "layer" \in Inputs /\ ~desk.layer
  /\ Step([desk EXCEPT !.layer = TRUE, !.kb = Layer])

LayerUnmap ==
  /\ desk.layer
  /\ Step([desk EXCEPT !.layer = FALSE, !.kb = IF @ = Layer THEN NULL ELSE @])

Split == \E n \in FreeTiles(desk) : Step(keybinding_split_output(desk, n))

Merge ==
  \E t \in IF "merge_id" \in Inputs THEN LiveTiles ELSE {FocusedTile(desk)} :
    \E m \in Neighbours(t) : Step(merge_tile(desk, t, m))

Exchange ==
  \E t \in LiveTiles, follow \in BOOLEAN :
    \E u \in IF "exchange_id" \in Inputs THEN LiveTiles \ {t} ELSE Neighbours(t) :
      Step(swap_tiles(desk, t, u, follow))

FocusNeighbour ==
  \E t \in Neighbours(FocusedTile(desk)) : Step(focus_tile(desk, t))

FocusTile == \E t \in LiveTiles : Step(keybinding_focus_tile(desk, t))

CycleViews ==
  \E reverse \in BOOLEAN :
    Step(keybinding_cycle_views(desk, FocusedTile(desk), reverse))

(* Without "next_id" the ids given name views of the current workspace.    *)
NextView ==
  \E v \in IF "next_id" \in Inputs
           THEN {x \in Views : view_from_id(desk, x) # NULL} ELSE ToSet(desk.list[CurrWs(desk)]) :
    Step(CycleToView(desk, v))

SwitchWorkspace ==
  \E i \in 0 .. desk.nws - 1 : Step(keybinding_switch_ws(desk, i))

CycleOutputs ==
  \E reverse \in BOOLEAN : Step(keybinding_cycle_outputs(desk, reverse))

SwitchOutput == \E o \in ToSet(desk.outputs) : Step(set_output(desk, o))

Only ==
  \E w \in LiveWs(desk) : \E n \in FreeTiles(desk) \cup TilesOf(desk, w) :
    Step(output_make_workspace_fullscreen(desk, w, n))

MoveToTile ==
  \E t \in LiveTiles, follow \in BOOLEAN :
    Step(keybinding_move_view_to_tile(
           desk, view_from_id(desk, desk.tileView[FocusedTile(desk)]), t, follow))

MoveViewToTile ==
  /\ "moveview_id" \in Inputs
  /\ \E v \in Views, t \in LiveTiles, follow \in BOOLEAN :
       Step(keybinding_move_view_to_tile(desk, view_from_id(desk, v), t, follow))

MoveToCycleOutput ==
  \E reverse \in BOOLEAN :
    Step(keybinding_move_view_to_cycle_output(desk, reverse))

(* Without "shrink" no workspace that holds views is removed.              *)
SetNws ==
  \E n \in 1 .. MaxWs :
    LET new == ToSet(desk.outputs) \X (desk.nws .. n - 1)
    IN  /\ "shrink" \in Inputs
           \/ \A v \in Views, o \in Outputs, i \in n .. MaxWs - 1 :
                desk.tree[v] # <<o, i>>
        /\ \E f \in Allocation(new) : Step(keybinding_set_nws(desk, n, f))

OutputDestroy ==
  \E o \in ToSet(desk.outputs) :
    /\ "unplug_last" \in Inputs \/ Len(desk.outputs) > 1
    /\ Step(output_destroy(desk, o))

Quit == "quit" \in Inputs /\ Step([desk EXCEPT !.running = FALSE])

NewOutput ==
  \E o \in Outputs \ ToSet(desk.outputs) :
    \E f \in Allocation({<<o, i>> : i \in 0 .. desk.nws - 1}) :
      Step(handle_new_output(desk, o, f))

Next ==
  \/ \E v \in Views : NewView(v) \/ MapView(v) \/ UnmapView(v) \/ DestroyView(v)
  \/ LayerMap \/ LayerUnmap
  \/ Split \/ Merge \/ Exchange \/ FocusNeighbour \/ FocusTile \/ Only
  \/ CycleViews \/ NextView \/ MoveToTile \/ MoveViewToTile \/ MoveToCycleOutput
  \/ SwitchWorkspace \/ SwitchOutput \/ CycleOutputs \/ SetNws
  \/ OutputDestroy \/ NewOutput \/ Quit

Spec == Init /\ [][Next]_desk

-----------------------------------------------------------------------------
(* Properties.                                                             *)

(* Every field of the state has its type; an unmanaged view, in particular,*)
(* never gets into a workspace's list of views.                            *)
TypeOK == desk \in DeskType

(***************************************************************************)
(* tile->view and view->tile are two ends of one link: the view a tile     *)
(* shows is mapped and points back to that tile, and a tile that was freed *)
(* shows none.  merge_tile, swap_tiles, view_unmap, output_clear, `only`   *)
(* and the moves all rewrite both ends.                                    *)
(***************************************************************************)
TileViewLinked ==
  \A t \in Tiles : desk.tileView[t] # NULL =>
    /\ desk.tileWs[t] # NULL
    /\ desk.viewTile[desk.tileView[t]] = t
    /\ desk.life[desk.tileView[t]] = "mapped"

(***************************************************************************)
(* The seat's focused view is what the focused tile of the current         *)
(* workspace of the current output shows, after every command, surface     *)
(* event and hot-plug event: input never goes to a view the user does not  *)
(* look at.                                                                *)
(***************************************************************************)
FocusIsShown == desk.running => desk.focus = desk.tileView[FocusedTile(desk)]

(* A view is shown only in a tile of the workspace it belongs to           *)
(* (view->workspace), which is the one whose list view_unmap reads.        *)
ShownAtHome ==
  \A t \in Tiles : desk.tileView[t] # NULL =>
    desk.viewWs[desk.tileView[t]] = desk.tileWs[t]

(***************************************************************************)
(* A mapped managed view is in the list of its own workspace and in no     *)
(* other: whatever tiles, workspaces and outputs come and go, no view gets *)
(* lost and none can be reached from two workspaces.                       *)
(***************************************************************************)
Listed ==
  \A v \in Managed : \A w \in Ws :
    (v \in ToSet(desk.list[w])) <=> (desk.life[v] = "mapped" /\ desk.viewWs[v] = w)

(* The scene node of a mapped view hangs under its workspace's tree, so    *)
(* that it is alive, and drawn exactly when that workspace is.             *)
TreeFollows ==
  \A v \in Views : desk.life[v] = "mapped" => desk.tree[v] = desk.viewWs[v]

(* No handler touches a freed tile, view or scene node, and none splices   *)
(* the view lists of two workspaces into one another.                      *)
NoUb == ~desk.ub

(* Whatever comes and goes, freed memory is only ever used for the scene   *)
(* node of a surface that exists and is not mapped: output_clear moves the *)
(* mapped views to another output, and the node of an unmapped one goes    *)
(* down with the workspace it was created in (view_init, workspace_free).  *)
UbNeedsDeadNode ==
  desk.ub => \E v \in Views : desk.life[v] = "unmapped" /\ desk.tree[v] = NULL

(* seat_set_focus keeps the focused view last in its workspace's list,     *)
(* where `next`, `prev` and view_unmap start from.                         *)
FocusLast ==
  desk.focus # NULL => desk.focus = Last(desk.list[CurrWs(desk)])

(* The keyboard's focus is never left on a managed view that the seat no   *)
(* longer focuses, whatever unmanaged views and layer surfaces came and    *)
(* went in between.                                                        *)
KeyboardFollows == desk.kb \in Managed => desk.kb = desk.focus

Next1(s) == keybinding_cycle_views(s, FocusedTile(s), FALSE)

Prev1(s) == keybinding_cycle_views(s, FocusedTile(s), TRUE)

(* Cycling neither loses nor reorders views, in every layout of tiles and  *)
(* views: `prev` takes back what `next` did, the order of the list         *)
(* included, and repeating `next` brings every hidden view of the          *)
(* workspace to the focused tile (keybinding_cycle_views).                 *)
CyclingReachesAll ==
  LET run[k \in 0 .. Cardinality(Views)] ==
        IF k = 0 THEN desk ELSE Next1(run[k - 1])
      back == Prev1(Next1(desk))
  IN  desk.running /\ ~desk.ub =>
        /\ desk.focus # NULL => back.focus = desk.focus /\ back.list = desk.list
        /\ \A v \in ToSet(desk.list[CurrWs(desk)]) :
             view_is_visible(desk, v) \/ \E k \in DOMAIN run : run[k].focus = v

(* Closing the focused view (view_unmap, view_get_prev_view) shows the     *)
(* same view that `next` would have shown, although the two are computed   *)
(* by different walks over the list.                                       *)
ClosingShowsNext ==
  desk.running /\ ~desk.ub /\ desk.focus # NULL =>
    LET next == Next1(desk).focus
    IN  view_unmap(desk, desk.focus).focus = IF next = desk.focus THEN NULL ELSE next
=============================================================================
