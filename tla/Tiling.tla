------------------------------- MODULE Tiling -------------------------------
(***************************************************************************)
(* The tiles of one workspace as the code keeps them: a doubly linked ring *)
(* of rectangles, the workspace's focused tile and the seat's cursor_tile. *)
(* split, merge, resize, `only`, the focus commands and pointer motion are *)
(* the actions; module TileLayout states what they promise.                *)
(*                                                                         *)
(* Views are left out (module Desktop).  A tile is its address: a freed    *)
(* one has NULL links and may be allocated again.                          *)
(***************************************************************************)
EXTENDS Integers, Sequences, SequencesExt, FiniteSets

CONSTANTS
  Tiles,      \* addresses of struct cg_tile objects
  Size,       \* layout box of the workspace's output
  CurrSize,   \* layout box of server->curr_output, which resize_tile reads
  Percents,   \* split arguments, as fractions <<p, q>>
  Pixs,       \* resize arguments
  NULL

VARIABLES
  live, pos, dim,   \* as in TileLayout
  next, prev,       \* tile->next and tile->prev, NULL in a free tile
  focused_tile,     \* workspace->focused_tile
  cursor_tile       \* seat->cursor_tile, NULL when not in this workspace

geometry == <<pos, dim>>
vars == <<live, pos, dim, next, prev, focused_tile, cursor_tile>>

Layout == INSTANCE TileLayout

Axis == Layout!Axis
Other(a) == Layout!Other(a)

ASSUME TilingAssumption ==
  /\ Size \in [Axis -> Nat \ {0}] /\ CurrSize \in [Axis -> Nat \ {0}]
  /\ NULL \notin Tiles
  /\ Percents \subseteq Nat \X Nat
  /\ \A f \in Percents : 0 < f[1] /\ f[1] < f[2] /\ f[2] < 100 * f[1]
  /\ Pixs \subseteq Int \ {0}

(* n times it = it->next, from every tile.                                 *)
Along[n \in Nat] ==
  IF n = 0 THEN [t \in live |-> t] ELSE [t \in live |-> next[Along[n - 1][t]]]

(* for(c = t; first || c != t; c = c->next)                                *)
Ring(t) ==
  LET round == CHOOSE n \in 1 .. Cardinality(live) :
                 Along[n][t] = t /\ \A k \in 1 .. n - 1 : Along[k][t] # t
  IN  [i \in 1 .. round |-> Along[i - 1][t]]

(* for(it = t->next; it != t; it = it->next)                               *)
OthersInRing(t) == Tail(Ring(t))

(* The loop stops at place i of the walk, or ends (i = 0) without a match. *)
Found(walk, i, otherwise) == IF i = 0 THEN otherwise ELSE walk[i]

-----------------------------------------------------------------------------
(* The middle of a tile along o.                                           *)
TopCorner(o, t) == pos[o][t]

Centre(o, t) == pos[o][t] + dim[o][t] \div 2

(* find_left_tile, find_right_tile, find_top_tile and find_bottom_tile:    *)
(* the first tile of the ring that abuts t on that side and spans t's      *)
(* centre, the upper or left end of the span excluded.                     *)
find_tile(t, a, forward) ==
  LET o == Other(a)
      center == Centre(o, t)
      hit(it) == /\ IF forward THEN pos[a][it] = pos[a][t] + dim[a][t]
                              ELSE pos[a][it] + dim[a][it] = pos[a][t]
                 /\ pos[o][it] < center /\ center <= pos[o][it] + dim[o][it]
      walk == OthersInRing(t)
  IN  Found(walk, SelectInSeq(walk, hit), NULL)

(* The tile under a pointer position, edges included; focused_tile when    *)
(* the loop comes round without a match.                                   *)
TileAt(p, tile) ==
  LET under(c) == \A a \in Axis : pos[a][c] <= p[a] /\ p[a] <= pos[a][c] + dim[a][c]
      walk == Ring(tile)
  IN  Found(walk, SelectInSeq(walk, under), tile)

Pointer == {p \in [Axis -> 0 .. Size["x"] + Size["y"]] : \A a \in Axis : p[a] <= Size[a]}

-----------------------------------------------------------------------------
(* Do t and it share a piece of line along a?  g is <<pos, dim>>.          *)
Aligned(a, t, it, g) == g[1][Other(a)][t] = g[1][Other(a)][it]

MeetAtCorner(a, t, it, g) ==
  LET o == Other(a)
  IN  /\ g[2][o][it] + g[1][o][it] >= g[1][o][t]
      /\ g[1][o][it] <= g[1][o][t] + g[2][o][t]

Intersect(a, t, it, g) ==
  LET o == Other(a)
  IN  /\ g[2][o][it] + g[1][o][it] > g[1][o][t]
      /\ g[1][o][it] < g[1][o][t] + g[2][o][t]

(* The extent a tile is left with when it shrinks.                         *)
Positive(extent) == extent > 0

(* resize_allowed and resize: coord_offset and dim_offset are the changes  *)
(* of the tile's coordinate and extent along a; orig is the tile the user  *)
(* resizes.                                                                *)
Parent == Tiles \cup {NULL}

resize_allowed[t \in Tiles, parent \in Parent, coord, extent \in Int, a \in Axis, orig \in Tiles] ==
  \/ coord = 0 /\ extent = 0
  \/ /\ Positive(dim[a][t] + extent)
     /\ \A it \in ToSet(OthersInRing(t)) \ {parent, orig} :
          Intersect(a, t, it, geometry) =>
            IF pos[a][it] = pos[a][t] + dim[a][t]
            THEN resize_allowed[it, t, extent + coord, -extent - coord, a, orig]
            ELSE pos[a][it] + dim[a][it] = pos[a][t] =>
                   resize_allowed[it, t, 0, coord, a, orig]

Geometry == [Axis -> [Tiles -> Int]] \X [Axis -> [Tiles -> Int]]

(* g is the pair <<pos, dim>> while the recursion rewrites it in place.    *)
resize[g \in Geometry, t \in Tiles, parent \in Parent, coord, extent \in Int, a \in Axis, orig \in Tiles] ==
  LET visit(h, it) ==
        IF it \in {parent, orig} \/ ~Intersect(a, t, it, h) THEN h
        ELSE IF h[1][a][it] = h[1][a][t] + h[2][a][t]
        THEN resize[h, it, t, extent + coord, -extent - coord, a, orig]
        ELSE IF h[1][a][it] + h[2][a][it] = h[1][a][t]
        THEN resize[h, it, t, 0, coord, a, orig]
        ELSE h
      h == FoldLeft(visit, g, OthersInRing(t))
  IN  IF coord = 0 /\ extent = 0 THEN g
      ELSE <<[h[1] EXCEPT ![a] = [@ EXCEPT ![t] = @ + coord]],
             [h[2] EXCEPT ![a] = [@ EXCEPT ![t] = @ + extent]]>>

(* The adjustment along one axis, as resize_tile makes it.                 *)
resize_tile(t, a, pixs) ==
  LET coord == IF pos[a][t] + dim[a][t] = CurrSize[a] THEN -pixs ELSE 0
  IN  IF /\ dim[a][t] < CurrSize[a]
         /\ 0 < dim[a][t] + pixs /\ dim[a][t] + pixs < CurrSize[a]
         /\ resize_allowed[t, NULL, coord, pixs, a, t]
      THEN resize[geometry, t, NULL, coord, pixs, a, t]
      ELSE geometry

-----------------------------------------------------------------------------
full_screen_workspace_tiles(n) ==
  /\ Layout!Whole(n)
  /\ next' = [t \in Tiles |-> IF t = n THEN n ELSE NULL]
  /\ prev' = [t \in Tiles |-> IF t = n THEN n ELSE NULL]
  /\ focused_tile' = n

Init ==
  /\ Layout!Init
  /\ next = [t \in Tiles |-> IF t \in live THEN t ELSE NULL]
  /\ prev = [t \in Tiles |-> IF t \in live THEN t ELSE NULL]
  /\ focused_tile \in live
  /\ cursor_tile = NULL

(* seat_set_focus ends with process_cursor_motion.  The pointer is over    *)
(* this workspace, over another one, or over no output.                    *)
process_cursor_motion(tile) ==
  \/ \E p \in Pointer : cursor_tile' = TileAt(p, tile)
  \/ cursor_tile' = NULL
  \/ cursor_tile' = cursor_tile

(* `only` frees every tile first, cursor_tile with them.                   *)
Only ==
  \E n \in Tiles :
    /\ full_screen_workspace_tiles(n)
    /\ cursor_tile' \in {NULL, n}

(* The prev links when n is inserted after t.                              *)
NextKeepsPrev(n, t) == [prev EXCEPT ![n] = t]

PrevLinks(n, t) == [prev EXCEPT ![n] = t, ![next[t]] = n]

Split ==
  \E n \in Tiles \ live, a \in Axis, f \in Percents :
    LET t == focused_tile
        new == (dim[a][t] * f[1]) \div f[2]
    IN  /\ new >= 1
        /\ live' = live \cup {n}
        /\ pos' = [b \in Axis |-> [pos[b] EXCEPT
                     ![n] = IF b = a THEN pos[b][t] + new ELSE pos[b][t]]]
        /\ dim' = [b \in Axis |-> [dim[b] EXCEPT
                     ![n] = pos[b][t] + dim[b][t] - pos'[b][n],
                     ![t] = IF b = a THEN new ELSE @]]
        /\ next' = [next EXCEPT ![n] = next[t], ![t] = n]
        /\ prev' = PrevLinks(n, t)
        /\ UNCHANGED <<focused_tile, cursor_tile>>

(* Tile t takes the place of the tile m it swallows.                       *)
FocusStays(t, m) == focused_tile

FocusAfterMerge(t, m) == IF focused_tile = m THEN t ELSE focused_tile

CursorAfterMerge(t, m) == IF cursor_tile = m THEN t ELSE cursor_tile

(* The tile may be given by id, so it need not be the focused one.         *)
merge_tile(t, a, forward) ==
  LET m == find_tile(t, a, forward)
      o == Other(a)
  IN  /\ m # NULL
      /\ dim[o][t] = dim[o][m] /\ pos[o][t] = pos[o][m]
      /\ live' = live \ {m}
      /\ next' = [next EXCEPT ![prev[m]] = next[m], ![m] = NULL]
      /\ prev' = [prev EXCEPT ![next[m]] = prev[m], ![m] = NULL]
      /\ focused_tile' = FocusAfterMerge(t, m)
      /\ cursor_tile' = CursorAfterMerge(t, m)
      /\ dim' = [b \in Axis |-> [dim[b] EXCEPT
                   ![t] = IF b = a THEN @ + dim[b][m] ELSE @, ![m] = 0]]
      /\ pos' = [b \in Axis |-> [pos[b] EXCEPT
                   ![t] = IF b = a /\ pos[b][m] < @ THEN pos[b][m] ELSE @,
                   ![m] = 0]]

Merge == \E t \in live, a \in Axis, forward \in BOOLEAN : merge_tile(t, a, forward)

Resize ==
  \E t \in live, a \in Axis, pixs \in Pixs :
    LET g == resize_tile(t, a, pixs)
    IN  /\ pos' = g[1] /\ dim' = g[2]
        /\ UNCHANGED <<live, next, prev, focused_tile, cursor_tile>>

FocusNeighbour ==
  \E a \in Axis, forward \in BOOLEAN :
    LET t == find_tile(focused_tile, a, forward)
    IN  /\ t # NULL
        /\ focused_tile' = t
        /\ process_cursor_motion(t)
        /\ UNCHANGED <<live, pos, dim, next, prev>>

CycleTiles ==
  \E t \in {next[focused_tile], prev[focused_tile]} :
    /\ focused_tile' = t
    /\ process_cursor_motion(t)
    /\ UNCHANGED <<live, pos, dim, next, prev>>

CursorMotion ==
  /\ process_cursor_motion(focused_tile)
  /\ UNCHANGED <<live, pos, dim, next, prev, focused_tile>>

Next ==
  \/ Only \/ Split \/ Merge \/ Resize
  \/ FocusNeighbour \/ CycleTiles \/ CursorMotion

Spec == Init /\ [][Next]_vars

-----------------------------------------------------------------------------
(* No pointer to a tile that merge_tile or `only` freed is left: the code  *)
(* reads workspace->focused_tile without a check, and                      *)
(* process_cursor_motion prints the id and the workspace of                *)
(* seat->cursor_tile when the pointer moves on.                            *)
PointersLive == focused_tile \in live /\ cursor_tile \in live \cup {NULL}

(* The variables have the shape the code gives them, and no pointer        *)
(* dangles.                                                                *)
TypeOK ==
  /\ Layout!TypeOK
  /\ next \in [Tiles -> Tiles \cup {NULL}]
  /\ prev \in [Tiles -> Tiles \cup {NULL}]
  /\ PointersLive

(* Every command changes the layout as TileLayout allows: the ring         *)
(* surgery, the searches for a neighbour and the recursive resize amount   *)
(* to cutting, joining or moving a line of the partition.                  *)
Implements == Layout!Spec

(* next and prev are inverse and link all tiles of the workspace into one  *)
(* ring: the loops `first || it != focused_tile` of tile_from_id,          *)
(* output_clear or process_cursor_motion end and miss no tile.             *)
OneRing ==
  /\ \A t \in live : next[t] \in live /\ prev[next[t]] = t /\ next[prev[t]] = t
  /\ ToSet(Ring(focused_tile)) = live

Touches(t, a, forward) ==
  {u \in live \ {t} : IF forward THEN Layout!Abut(a, t, u) ELSE Layout!Abut(a, u, t)}

(* A tile of more than one pixel across that does not lie on the edge of   *)
(* the output has exactly one neighbour on that side that spans its        *)
(* centre, whatever the order of the ring, and find_*_tile returns it.     *)
NeighbourFound ==
  \A t \in live, a \in Axis, forward \in BOOLEAN :
    LET o == Other(a)
        center == pos[o][t] + dim[o][t] \div 2
        span == {u \in Touches(t, a, forward) :
                   pos[o][u] < center /\ center <= pos[o][u] + dim[o][u]}
        border == IF forward THEN pos[a][t] + dim[a][t] = Size[a] ELSE pos[a][t] = 0
    IN  dim[o][t] > 1 /\ ~border => span = {find_tile(t, a, forward)}

(* The tiles connected to t through tiles abutting along the line at e.    *)
Connected(t, a, e) ==
  LET onLine == {u \in live : pos[a][u] = e \/ pos[a][u] + dim[a][u] = e}
      closed(S) == \A u, v \in onLine :
                     pos[a][v] = e /\ Layout!Abut(a, u, v) => (u \in S <=> v \in S)
  IN  {u \in onLine : \A S \in SUBSET onLine : t \in S /\ closed(S) => u \in S}

(***************************************************************************)
(* Reference for resize: the edge of t moves together with exactly the     *)
(* tiles that are connected to t through tiles abutting along that line,   *)
(* so tiles beyond a crossing of lines keep their size; and it is refused  *)
(* exactly when one of these tiles would lose its last pixel, so that      *)
(* resize_allowed looks at the same tiles that resize changes.             *)
(***************************************************************************)
ResizeIsExact ==
  \A t \in live, a \in Axis, pixs \in Pixs :
    LET g == resize_tile(t, a, pixs)
        atEnd == pos[a][t] + dim[a][t] = Size[a]
        e == IF atEnd THEN pos[a][t] ELSE pos[a][t] + dim[a][t]
        d == IF atEnd THEN -pixs ELSE pixs
        C == Connected(t, a, e)
        fits == \A u \in C : dim[a][u] + (IF pos[a][u] = e THEN -d ELSE d) > 0
        moved(u, b) ==
          LET starts == b = a /\ u \in C /\ pos[a][u] = e
              ends   == b = a /\ u \in C /\ pos[a][u] # e
          IN  /\ g[1][b][u] = pos[b][u] + (IF starts THEN d ELSE 0)
              /\ g[2][b][u] = dim[b][u] + (IF starts THEN -d ELSE IF ends THEN d ELSE 0)
    IN  /\ g = geometry \/ \A u \in live, b \in Axis : moved(u, b)
        /\ 0 < e /\ e < Size[a] => (fits <=> g # geometry)
=============================================================================
