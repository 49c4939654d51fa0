---------------------------- MODULE TileLayout ----------------------------
(***************************************************************************)
(* What the tile commands promise about one workspace: the tiles cut the   *)
(* output into rectangles without gap or overlap, and each command changes *)
(* that partition in one of four ways.  Module Tiling, which follows the   *)
(* code's linked ring and its recursive resize, is shown to implement this *)
(* specification.                                                          *)
(*                                                                         *)
(* The code passes get_x/get_width or get_y/get_height as function         *)
(* pointers; here the two coordinates are the elements of Axis.            *)
(***************************************************************************)
EXTENDS Integers

CONSTANTS
  Tiles,   \* addresses of struct cg_tile objects
  Size     \* width and height of the workspace's output

Axis == {"x", "y"}

ASSUME LayoutAssumption == Size \in [Axis -> Nat \ {0}]

VARIABLES
  live,    \* the tiles in the workspace's ring
  pos,     \* pos["x"][t] is tile.x, pos["y"][t] is tile.y
  dim      \* dim["x"][t] is tile.width, dim["y"][t] is tile.height

vars == <<live, pos, dim>>

Other(a) == IF a = "x" THEN "y" ELSE "x"

End(a, t) == pos[a][t] + dim[a][t]

(* intervalls_intersect on the axis across the one that is changed.        *)
SameStart(a, t, u) == pos[Other(a)][t] = pos[Other(a)][u]

Beside(a, t, u) ==
  LET o == Other(a) IN pos[o][t] < End(o, u) /\ pos[o][u] < End(o, t)

(* t ends where u begins, and they share a piece of that line.             *)
Abut(a, t, u) == End(a, t) = pos[a][u] /\ Beside(a, t, u)

-----------------------------------------------------------------------------
(* A workspace is created, and made full screen by `only`, with one tile.  *)
Rotated(n) ==
  /\ live' = {n}
  /\ pos' = [a \in Axis |-> [t \in Tiles |-> 0]]
  /\ dim' = [a \in Axis |-> [t \in Tiles |-> IF t = n THEN Size[Other(a)] ELSE 0]]

Whole(n) ==
  /\ live' = {n}
  /\ pos' = [a \in Axis |-> [t \in Tiles |-> 0]]
  /\ dim' = [a \in Axis |-> [t \in Tiles |-> IF t = n THEN Size[a] ELSE 0]]

Init ==
  \E n \in Tiles :
    /\ live = {n}
    /\ pos = [a \in Axis |-> [t \in Tiles |-> 0]]
    /\ dim = [a \in Axis |-> [t \in Tiles |-> IF t = n THEN Size[a] ELSE 0]]

(* Tile t keeps its first k pixels along a, the new tile n gets the rest.  *)
SplitAt(t, n, a, k) ==
  /\ t \in live /\ n \in Tiles \ live
  /\ 1 <= k /\ k < dim[a][t]
  /\ live' = live \cup {n}
  /\ pos' = [b \in Axis |-> [pos[b] EXCEPT
               ![n] = IF b = a THEN pos[b][t] + k ELSE pos[b][t]]]
  /\ dim' = [b \in Axis |-> [dim[b] EXCEPT
               ![n] = IF b = a THEN dim[b][t] - k ELSE dim[b][t],
               ![t] = IF b = a THEN k ELSE dim[b][t]]]

(* Two tiles side by side along a and of equal extent across a become one. *)
Join(t, m, a) ==
  LET o == Other(a)
      first == IF pos[a][t] < pos[a][m] THEN pos[a][t] ELSE pos[a][m]
  IN  /\ t \in live /\ m \in live /\ t # m
      /\ pos[o][t] = pos[o][m] /\ dim[o][t] = dim[o][m]
      /\ End(a, t) = pos[a][m] \/ End(a, m) = pos[a][t]
      /\ live' = live \ {m}
      /\ pos' = [b \in Axis |-> [pos[b] EXCEPT
                   ![m] = 0, ![t] = IF b = a THEN first ELSE pos[b][t]]]
      /\ dim' = [b \in Axis |-> [dim[b] EXCEPT
                   ![m] = 0,
                   ![t] = IF b = a THEN dim[b][t] + dim[b][m] ELSE dim[b][t]]]

OnLine(a, e) == {t \in live : End(a, t) = e \/ pos[a][t] = e}

(***************************************************************************)
(* The line at coordinate e moves by d for the tiles of C, a set that      *)
(* holds with a tile every tile abutting it across the line.               *)
(***************************************************************************)
MoveLine(C, a, e, d) ==
  LET before == {t \in C : End(a, t) = e}
      after  == {t \in C : pos[a][t] = e}
  IN  /\ C \subseteq OnLine(a, e)
      /\ 0 < e /\ e < Size[a]
      /\ \A t \in before : dim[a][t] + d > 0
      /\ \A t \in after : dim[a][t] - d > 0
      /\ \A t, u \in live :
           End(a, t) = e /\ Abut(a, t, u) => (t \in C <=> u \in C)
      /\ live' = live
      /\ pos' = [pos EXCEPT ![a] = [t \in Tiles |->
                   IF t \in after THEN pos[a][t] + d ELSE pos[a][t]]]
      /\ dim' = [dim EXCEPT ![a] = [t \in Tiles |->
                   IF t \in before THEN dim[a][t] + d
                   ELSE IF t \in after THEN dim[a][t] - d ELSE dim[a][t]]]

Next ==
  \/ \E n \in Tiles : Whole(n)
  \/ \E t, n \in Tiles, a \in Axis : \E k \in 1 .. dim[a][t] : SplitAt(t, n, a, k)
  \/ \E t, m \in Tiles, a \in Axis : Join(t, m, a)
  \/ \E a \in Axis : \E e \in 1 .. Size[a] - 1 : \E C \in SUBSET OnLine(a, e) :
       \E d \in -Size[a] .. Size[a] : MoveLine(C, a, e, d)

Spec == Init /\ [][Next]_vars

-----------------------------------------------------------------------------
Pixels ==
  {p \in [Axis -> 0 .. Size["x"] + Size["y"]] : \A a \in Axis : p[a] < Size[a]}

Covers(t, p) == \A a \in Axis : pos[a][t] <= p[a] /\ p[a] < End(a, t)

(* The variables have the shape the code gives them.                       *)
TypeOK ==
  /\ live \in SUBSET Tiles
  /\ pos \in [Axis -> [Tiles -> Int]]
  /\ dim \in [Axis -> [Tiles -> Int]]

(* Every tile has at least one pixel and stays on the output: nothing a    *)
(* split, merge, resize or `only` does lets a view be given an empty or an *)
(* off-screen box (view_maximize sends these numbers to the client).       *)
Within ==
  \A t \in live, a \in Axis :
    0 <= pos[a][t] /\ 1 <= dim[a][t] /\ End(a, t) <= Size[a]

(* Every pixel of the output belongs to one tile.                          *)
Covered ==
  \A p \in Pixels : \E t \in live : Covers(t, p)

(* No pixel belongs to two tiles: "contrary to the idea of a tiling        *)
(* compositor" (Bugs.md, issue 8).                                         *)
Disjoint ==
  \A p \in Pixels : \A t, u \in live : Covers(t, p) /\ Covers(u, p) => t = u
=============================================================================
