-------------------------- MODULE TileLayoutProofs --------------------------
(***************************************************************************)
(* TileLayout keeps the tiles a partition of the output, for every size of *)
(* the output and every number of tiles.                                   *)
(***************************************************************************)
EXTENDS TileLayout, TLAPS

Inv == TypeOK /\ Within /\ Covered /\ Disjoint

(* The one tile of a new workspace (full_screen_workspace) is the output.  *)
LEMMA InitInv == Init => Inv
<1> SUFFICES ASSUME Init PROVE Inv
  OBVIOUS
<1> USE LayoutAssumption
<1>1. PICK n \in Tiles :
        /\ live = {n}
        /\ pos = [a \in Axis |-> [t \in Tiles |-> 0]]
        /\ dim = [a \in Axis |-> [t \in Tiles |-> IF t = n THEN Size[a] ELSE 0]]
  BY DEF Init
<1>2. TypeOK
  BY <1>1 DEF TypeOK
<1>3. Within
  BY <1>1 DEF Within, End
<1>4. Covered
  BY <1>1 DEF Covered, Covers, End, Pixels
<1>5. Disjoint
  BY <1>1 DEF Disjoint
<1> QED
  BY <1>2, <1>3, <1>4, <1>5 DEF Inv

(* So is the one tile that `only` leaves.                                  *)
LEMMA WholeInv == ASSUME NEW n \in Tiles, Whole(n) PROVE Inv'
<1> USE LayoutAssumption
<1>2. TypeOK'
  BY DEF TypeOK, Whole
<1>3. Within'
  BY DEF Within, End, Whole
<1>4. Covered'
  BY DEF Covered, Covers, End, Pixels, Whole
<1>5. Disjoint'
  BY DEF Disjoint, Whole
<1> QED
  BY <1>2, <1>3, <1>4, <1>5 DEF Inv

(* A split divides the pixels of t between t and the new tile.             *)
LEMMA SplitInv ==
  ASSUME Inv, NEW t \in Tiles, NEW n \in Tiles, NEW a \in Axis, NEW k \in Int,
         SplitAt(t, n, a, k)
  PROVE  Inv'
<1> USE LayoutAssumption
<1>0. /\ t \in live /\ n \notin live /\ t # n
      /\ 1 <= k /\ k < dim[a][t]
      /\ live' = live \cup {n}
  BY DEF SplitAt
<1>1. TypeOK /\ Within /\ Covered /\ Disjoint
  BY DEF Inv
<1>2. TypeOK'
  BY <1>0, <1>1 DEF TypeOK, SplitAt
<1>3. \A b \in Axis : /\ pos'[b][t] = pos[b][t]
                      /\ dim'[b][t] = IF b = a THEN k ELSE dim[b][t]
                      /\ pos'[b][n] = IF b = a THEN pos[b][t] + k ELSE pos[b][t]
                      /\ dim'[b][n] = IF b = a THEN dim[b][t] - k ELSE dim[b][t]
  BY <1>0, <1>1 DEF TypeOK, SplitAt
<1>4. \A b \in Axis, u \in Tiles \ {t, n} :
        pos'[b][u] = pos[b][u] /\ dim'[b][u] = dim[b][u]
  BY <1>0, <1>1 DEF TypeOK, SplitAt
<1>5. Within'
  <2> SUFFICES ASSUME NEW u \in live', NEW b \in Axis
               PROVE  0 <= pos'[b][u] /\ 1 <= dim'[b][u]
                      /\ pos'[b][u] + dim'[b][u] <= Size[b]
    BY DEF Within, End
  <2>1. 0 <= pos[b][t] /\ 1 <= dim[b][t] /\ pos[b][t] + dim[b][t] <= Size[b]
        /\ pos[b][t] \in Int /\ dim[b][t] \in Int /\ Size[b] \in Int
    BY <1>0, <1>1 DEF Within, TypeOK, End
  <2>2. CASE u = t
    BY <2>1, <2>2, <1>0, <1>3
  <2>3. CASE u = n
    BY <2>1, <2>3, <1>0, <1>3
  <2>4. CASE u # t /\ u # n
    BY <2>4, <1>0, <1>1, <1>4 DEF Within, TypeOK, End
  <2> QED
    BY <2>2, <2>3, <2>4
<1>6. ASSUME NEW p \in Pixels
      PROVE  /\ Covers(t, p)' <=> Covers(t, p) /\ p[a] < pos[a][t] + k
             /\ Covers(n, p)' <=> Covers(t, p) /\ p[a] >= pos[a][t] + k
             /\ \A u \in live \ {t} : Covers(u, p)' <=> Covers(u, p)
  <2>1. \A b \in Axis : p[b] \in Int /\ pos[b][t] \in Int /\ dim[b][t] \in Int
    BY <1>1 DEF TypeOK, Pixels
  <2>2. \A b \in Axis : b = a => 1 <= k /\ k < dim[b][t]
    BY <1>0
  <2>3. Covers(t, p)' <=> Covers(t, p) /\ p[a] < pos[a][t] + k
    BY <1>3, <2>1, <2>2 DEF Covers, End
  <2>4. Covers(n, p)' <=> Covers(t, p) /\ p[a] >= pos[a][t] + k
    BY <1>3, <2>1, <2>2 DEF Covers, End
  <2>5. \A u \in live \ {t} : Covers(u, p)' <=> Covers(u, p)
    BY <1>0, <1>1, <1>4 DEF Covers, End, TypeOK
  <2> QED
    BY <2>3, <2>4, <2>5
<1>7. Covered'
  <2> SUFFICES ASSUME NEW p \in Pixels PROVE \E u \in live' : Covers(u, p)'
    BY DEF Covered, Pixels
  <2>1. PICK u \in live : Covers(u, p)
    BY <1>1 DEF Covered
  <2>2. p[a] \in Int /\ pos[a][t] \in Int
    BY <1>1 DEF TypeOK, Pixels
  <2> QED
    BY <1>0, <1>6, <2>1, <2>2
<1>8. Disjoint'
  <2> SUFFICES ASSUME NEW p \in Pixels, NEW u \in live', NEW v \in live',
                      Covers(u, p)', Covers(v, p)'
               PROVE  u = v
    BY DEF Disjoint, Pixels
  <2>1. p[a] \in Int /\ pos[a][t] \in Int
    BY <1>1 DEF TypeOK, Pixels
  <2> QED
    BY <1>0, <1>1, <1>6, <2>1 DEF Disjoint
<1> QED
  BY <1>2, <1>5, <1>7, <1>8 DEF Inv

(* The joined tile has the pixels of both.                                 *)
LEMMA JoinInv ==
  ASSUME Inv, NEW t \in Tiles, NEW m \in Tiles, NEW a \in Axis, Join(t, m, a)
  PROVE  Inv'
<1> USE LayoutAssumption
<1> DEFINE o == Other(a)
           first == IF pos[a][t] < pos[a][m] THEN pos[a][t] ELSE pos[a][m]
<1>0. /\ t \in live /\ m \in live /\ t # m
      /\ pos[o][t] = pos[o][m] /\ dim[o][t] = dim[o][m]
      /\ \/ pos[a][t] + dim[a][t] = pos[a][m]
         \/ pos[a][m] + dim[a][m] = pos[a][t]
      /\ live' = live \ {m}
  BY DEF Join, End
<1>1. TypeOK /\ Within /\ Covered /\ Disjoint
  BY DEF Inv
<1>2. TypeOK'
  BY <1>0, <1>1 DEF TypeOK, Join
<1>3. \A b \in Axis :
        /\ pos'[b][t] = IF b = a THEN first ELSE pos[b][t]
        /\ dim'[b][t] = IF b = a THEN dim[b][t] + dim[b][m] ELSE dim[b][t]
  BY <1>0, <1>1 DEF TypeOK, Join
<1>4. \A b \in Axis, u \in Tiles \ {t, m} :
        pos'[b][u] = pos[b][u] /\ dim'[b][u] = dim[b][u]
  BY <1>0, <1>1 DEF TypeOK, Join
<1>5. \A b \in Axis, u \in live :
        /\ 0 <= pos[b][u] /\ 1 <= dim[b][u] /\ pos[b][u] + dim[b][u] <= Size[b]
        /\ pos[b][u] \in Int /\ dim[b][u] \in Int /\ Size[b] \in Int
  BY <1>1 DEF Within, TypeOK, End
<1>6. Within'
  <2> SUFFICES ASSUME NEW u \in live', NEW b \in Axis
               PROVE  0 <= pos'[b][u] /\ 1 <= dim'[b][u]
                      /\ pos'[b][u] + dim'[b][u] <= Size[b]
    BY DEF Within, End
  <2>1. CASE u # t
    BY <2>1, <1>0, <1>1, <1>4, <1>5 DEF TypeOK
  <2>2. CASE u = t
    BY <2>2, <1>0, <1>3, <1>5
  <2> QED
    BY <2>1, <2>2
<1>7. ASSUME NEW p \in Pixels
      PROVE  /\ Covers(t, p)' <=> Covers(t, p) \/ Covers(m, p)
             /\ \A u \in live \ {t, m} : Covers(u, p)' <=> Covers(u, p)
  <2>1. p[a] \in Int /\ p[o] \in Int /\ o \in Axis /\ o # a
        /\ \A b \in Axis : b = a \/ b = o
    BY DEF Pixels, Other, Axis
  <2>2. \A u : Covers(u, p) <=> /\ pos[a][u] <= p[a] /\ p[a] < pos[a][u] + dim[a][u]
                              /\ pos[o][u] <= p[o] /\ p[o] < pos[o][u] + dim[o][u]
    BY <2>1 DEF Covers, End
  <2>3. Covers(t, p)' <=> /\ first <= p[a] /\ p[a] < first + dim[a][t] + dim[a][m]
                          /\ pos[o][t] <= p[o] /\ p[o] < pos[o][t] + dim[o][t]
    BY <2>1, <1>3, <1>5, <1>0 DEF Covers, End
  <2>4. Covers(t, p)' <=> Covers(t, p) \/ Covers(m, p)
    BY <2>1, <2>2, <2>3, <1>0, <1>5
  <2>5. \A u \in live \ {t, m} : Covers(u, p)' <=> Covers(u, p)
    BY <1>1, <1>4 DEF Covers, End, TypeOK
  <2> QED
    BY <2>4, <2>5
<1>8. Covered'
  <2> SUFFICES ASSUME NEW p \in Pixels PROVE \E u \in live' : Covers(u, p)'
    BY DEF Covered, Pixels
  <2>1. PICK u \in live : Covers(u, p)
    BY <1>1 DEF Covered
  <2> QED
    BY <1>0, <1>7, <2>1
<1>9. Disjoint'
  <2> SUFFICES ASSUME NEW p \in Pixels, NEW u \in live', NEW v \in live',
                      Covers(u, p)', Covers(v, p)'
               PROVE  u = v
    BY DEF Disjoint, Pixels
  <2> QED
    BY <1>0, <1>1, <1>7 DEF Disjoint
<1> QED
  BY <1>2, <1>6, <1>8, <1>9 DEF Inv

(***************************************************************************)
(* A moved line.  Row(u, p): tile u meets the row of p across the line.    *)
(* On every row the tile before the line and the tile after it (Before-    *)
(* Partner, AfterPartner) move together or not at all, so what one gains   *)
(* the other loses.                                                        *)
(***************************************************************************)
Row(a, u, p) ==
  pos[Other(a)][u] <= p[Other(a)] /\ p[Other(a)] < End(Other(a), u)

(* The two axes are each other's Other.                                    *)
LEMMA AxisFacts ==
  ASSUME NEW a \in Axis
  PROVE  Other(a) \in Axis /\ Other(a) # a /\ \A b \in Axis : b = a \/ b = Other(a)
BY DEF Axis, Other

(* Inv in the form the leaves of the arithmetic use.                       *)
LEMMA Numbers ==
  ASSUME Inv
  PROVE  \A b \in Axis, u \in live :
           /\ 0 <= pos[b][u] /\ 1 <= dim[b][u] /\ End(b, u) <= Size[b]
           /\ pos[b][u] \in Int /\ dim[b][u] \in Int /\ Size[b] \in Int
           /\ u \in Tiles
BY LayoutAssumption DEF Inv, Within, TypeOK

(* A tile covers a pixel when it does along a, on a row of the tile.       *)
LEMMA CoversByRow ==
  ASSUME NEW a \in Axis, NEW u, NEW p
  PROVE  Covers(u, p) <=> pos[a][u] <= p[a] /\ p[a] < End(a, u) /\ Row(a, u, p)
BY AxisFacts DEF Covers, Row

(* A pixel may be slid along a row of the output.                          *)
LEMMA OnSameRow ==
  ASSUME NEW a \in Axis, NEW p \in Pixels, NEW i \in Int, 0 <= i, i < Size[a]
  PROVE  /\ [p EXCEPT ![a] = i] \in Pixels
         /\ \A u : Covers(u, [p EXCEPT ![a] = i]) <=>
                    pos[a][u] <= i /\ i < End(a, u) /\ Row(a, u, p)
<1> DEFINE q == [p EXCEPT ![a] = i]
<1>1. Size["x"] \in Nat /\ Size["y"] \in Nat /\ a \in {"x", "y"}
  BY LayoutAssumption DEF Axis
<1>2. i \in 0 .. Size["x"] + Size["y"]
  BY <1>1
<1>3. q \in [Axis -> 0 .. Size["x"] + Size["y"]]
  BY <1>2 DEF Pixels
<1>4. \A b \in Axis : q[b] < Size[b]
  BY DEF Pixels
<1>5. q[a] = i /\ q[Other(a)] = p[Other(a)]
  BY AxisFacts DEF Pixels
<1>6. \A u : Row(a, u, q) <=> Row(a, u, p)
  BY <1>5 DEF Row
<1>7. \A u : Covers(u, q) <=> pos[a][u] <= i /\ i < End(a, u) /\ Row(a, u, p)
  <2> HIDE DEF q
  <2> QED
    BY <1>5, <1>6, CoversByRow
<1> QED
  BY <1>3, <1>4, <1>7 DEF Pixels

(* Two tiles that end, or begin, on the line and share a row are the same. *)
LEMMA OneOnEachSide ==
  ASSUME Inv, NEW a \in Axis, NEW p \in Pixels, NEW u \in live, NEW v \in live,
         Row(a, u, p), Row(a, v, p),
         \/ End(a, u) = End(a, v)
         \/ pos[a][u] = pos[a][v]
  PROVE  u = v
<1>1. /\ 0 <= pos[a][u] /\ 1 <= dim[a][u] /\ End(a, u) <= Size[a]
      /\ 0 <= pos[a][v] /\ 1 <= dim[a][v] /\ End(a, v) <= Size[a]
      /\ pos[a][u] \in Int /\ dim[a][u] \in Int /\ Size[a] \in Int
      /\ pos[a][v] \in Int /\ dim[a][v] \in Int
  BY Numbers
<1>2. Disjoint
  BY DEF Inv
<1>3. CASE End(a, u) = End(a, v)
  <2> DEFINE i == End(a, u) - 1
             q == [p EXCEPT ![a] = i]
  <2>1. i \in Int /\ 0 <= i /\ i < Size[a]
    BY <1>1 DEF End
  <2>2. q \in Pixels /\ \A t : Covers(t, q) <=>
                            pos[a][t] <= i /\ i < End(a, t) /\ Row(a, t, p)
    BY <2>1, OnSameRow
  <2>3. pos[a][u] <= i /\ i < End(a, u) /\ pos[a][v] <= i /\ i < End(a, v)
    BY <1>1, <1>3 DEF End
  <2> QED
    BY <1>2, <2>2, <2>3 DEF Disjoint
<1>4. CASE pos[a][u] = pos[a][v]
  <2> DEFINE i == pos[a][u]
             q == [p EXCEPT ![a] = i]
  <2>1. i \in Int /\ 0 <= i /\ i < Size[a]
    BY <1>1 DEF End
  <2>2. q \in Pixels /\ \A t : Covers(t, q) <=>
                            pos[a][t] <= i /\ i < End(a, t) /\ Row(a, t, p)
    BY <2>1, OnSameRow
  <2>3. pos[a][u] <= i /\ i < End(a, u) /\ pos[a][v] <= i /\ i < End(a, v)
    BY <1>1, <1>4 DEF End
  <2> QED
    BY <1>2, <2>2, <2>3 DEF Disjoint
<1> QED
  BY <1>3, <1>4

(* On the row of a tile that begins on the line, a tile ends on the line.  *)
LEMMA BeforePartner ==
  ASSUME Inv, NEW a \in Axis, NEW p \in Pixels, NEW e \in Int, 0 < e, e < Size[a],
         NEW r \in live, pos[a][r] = e, Row(a, r, p)
  PROVE  \E l \in live : End(a, l) = e /\ Row(a, l, p) /\ Abut(a, l, r)
<1> DEFINE q == [p EXCEPT ![a] = e - 1]
           q2 == [p EXCEPT ![a] = e]
<1>1. e - 1 \in Int /\ 0 <= e - 1 /\ e - 1 < Size[a] /\ 0 <= e
  BY LayoutAssumption
<1>2. q \in Pixels /\ \A u : Covers(u, q) <=>
                          pos[a][u] <= e - 1 /\ e - 1 < End(a, u) /\ Row(a, u, p)
  BY <1>1, OnSameRow
<1>3. q2 \in Pixels /\ \A u : Covers(u, q2) <=>
                           pos[a][u] <= e /\ e < End(a, u) /\ Row(a, u, p)
  BY <1>1, OnSameRow
<1> HIDE DEF q, q2
<1>4. PICK l \in live : Covers(l, q)
  BY <1>2 DEF Inv, Covered
<1>5. pos[a][l] <= e - 1 /\ e - 1 < End(a, l) /\ Row(a, l, p)
  BY <1>2, <1>4
<1>6. \A u \in live : pos[a][u] \in Int /\ dim[a][u] \in Int /\ 1 <= dim[a][u]
  BY Numbers
<1>7. Covers(r, q2)
  BY <1>3, <1>6 DEF End
<1>8. End(a, l) = e
  <2>1. SUFFICES ASSUME e < End(a, l) PROVE FALSE
    BY <1>5, <1>6 DEF End
  <2>2. Covers(l, q2)
    BY <2>1, <1>3, <1>5, <1>6 DEF End
  <2>3. l = r
    BY <1>3, <1>7, <2>2 DEF Inv, Disjoint
  <2> QED
    BY <2>3, <1>5, <1>6
<1>9. Beside(a, l, r)
  <2>1. /\ pos[Other(a)][l] \in Int /\ dim[Other(a)][l] \in Int
        /\ pos[Other(a)][r] \in Int /\ dim[Other(a)][r] \in Int
        /\ p[Other(a)] \in Int
    BY Numbers, AxisFacts DEF Pixels
  <2> QED
    BY <2>1, <1>5 DEF Beside, Row, End
<1> QED
  BY <1>5, <1>8, <1>9 DEF Abut

(* On the row of a tile that ends on the line, a tile begins on the line.  *)
LEMMA AfterPartner ==
  ASSUME Inv, NEW a \in Axis, NEW p \in Pixels, NEW e \in Int, 0 < e, e < Size[a],
         NEW l \in live, End(a, l) = e, Row(a, l, p)
  PROVE  \E r \in live : pos[a][r] = e /\ Row(a, r, p) /\ Abut(a, l, r)
<1> DEFINE q == [p EXCEPT ![a] = e - 1]
           q2 == [p EXCEPT ![a] = e]
<1>1. e - 1 \in Int /\ 0 <= e - 1 /\ e - 1 < Size[a] /\ 0 <= e
  BY LayoutAssumption
<1>2. q \in Pixels /\ \A u : Covers(u, q) <=>
                          pos[a][u] <= e - 1 /\ e - 1 < End(a, u) /\ Row(a, u, p)
  BY <1>1, OnSameRow
<1>3. q2 \in Pixels /\ \A u : Covers(u, q2) <=>
                           pos[a][u] <= e /\ e < End(a, u) /\ Row(a, u, p)
  BY <1>1, OnSameRow
<1> HIDE DEF q, q2
<1>4. PICK r \in live : Covers(r, q2)
  BY <1>3 DEF Inv, Covered
<1>5. pos[a][r] <= e /\ e < End(a, r) /\ Row(a, r, p)
  BY <1>3, <1>4
<1>6. \A u \in live : pos[a][u] \in Int /\ dim[a][u] \in Int /\ 1 <= dim[a][u]
  BY Numbers
<1>7. Covers(l, q)
  BY <1>2, <1>6 DEF End
<1>8. pos[a][r] = e
  <2>1. SUFFICES ASSUME pos[a][r] < e PROVE FALSE
    BY <1>5, <1>6
  <2>2. Covers(r, q)
    BY <2>1, <1>2, <1>5, <1>6 DEF End
  <2>3. l = r
    BY <1>2, <1>7, <2>2 DEF Inv, Disjoint
  <2> QED
    BY <2>3, <1>5, <1>6 DEF End
<1>9. Beside(a, l, r)
  <2>1. /\ pos[Other(a)][l] \in Int /\ dim[Other(a)][l] \in Int
        /\ pos[Other(a)][r] \in Int /\ dim[Other(a)][r] \in Int
        /\ p[Other(a)] \in Int
    BY Numbers, AxisFacts DEF Pixels
  <2> QED
    BY <2>1, <1>5 DEF Beside, Row, End
<1> QED
  BY <1>5, <1>8, <1>9 DEF Abut

(* Every tile has a pixel.                                                 *)
LEMMA HasPixel ==
  ASSUME Inv, NEW a \in Axis, NEW u \in live
  PROVE  \E p \in Pixels : Row(a, u, p)
<1> DEFINE p == [b \in Axis |-> pos[b][u]]
<1>1. \A b \in Axis : /\ pos[b][u] \in Int /\ dim[b][u] \in Int /\ Size[b] \in Int
                      /\ 0 <= pos[b][u] /\ 1 <= dim[b][u] /\ End(b, u) <= Size[b]
  BY Numbers
<1>2. \A b \in Axis : 0 <= p[b] /\ p[b] < Size[b] /\ p[b] \in Int /\ p[b] < End(b, u)
  BY <1>1 DEF End
<1>3. \A b \in Axis : Size[b] <= Size["x"] + Size["y"]
  BY LayoutAssumption DEF Axis
<1>4. \A b \in Axis : p[b] \in 0 .. Size["x"] + Size["y"]
  BY <1>2, <1>3, <1>1 DEF Axis
<1>5. p \in Pixels
  BY <1>2, <1>4 DEF Pixels
<1>6. Row(a, u, p)
  BY <1>1, <1>2, AxisFacts DEF Row
<1> QED
  BY <1>5, <1>6

(***************************************************************************)
(* A resize: the tiles of C on one side of the line grow by what the       *)
(* tiles of C on the other side lose.  Only the pixels between the old and *)
(* the new line change hands, row by row, from a tile to its partner.      *)
(***************************************************************************)
LEMMA MoveInv ==
  ASSUME Inv, NEW a \in Axis, NEW e \in Int, NEW C \in SUBSET OnLine(a, e),
         NEW d \in Int, MoveLine(C, a, e, d)
  PROVE  Inv'
<1> DEFINE ends(u)   == u \in C /\ End(a, u) = e
           begins(u) == u \in C /\ pos[a][u] = e
<1>0. /\ 0 < e /\ e < Size[a] /\ live' = live /\ live \subseteq Tiles
      /\ C \subseteq live
      /\ \A u \in C : ends(u) \/ begins(u)
  BY DEF MoveLine, OnLine, Inv, TypeOK
<1>1. /\ \A u \in live : ends(u) => dim[a][u] + d > 0
      /\ \A u \in live : begins(u) => dim[a][u] - d > 0
  BY DEF MoveLine
<1>2. \A t, u \in live : End(a, t) = e /\ Abut(a, t, u) => (t \in C <=> u \in C)
  BY DEF MoveLine
<1>3. \A u \in live :
        /\ pos[a][u] \in Int /\ dim[a][u] \in Int /\ Size[a] \in Int
        /\ 0 <= pos[a][u] /\ 1 <= dim[a][u] /\ pos[a][u] + dim[a][u] <= Size[a]
        /\ End(a, u) = pos[a][u] + dim[a][u]
  BY Numbers DEF End
<1>4. \A u \in live : ~(ends(u) /\ begins(u))
  BY <1>3
<1>5. TypeOK'
  BY DEF Inv, TypeOK, MoveLine
<1>6. \A u \in live :
        /\ pos'[a][u] = IF begins(u) THEN pos[a][u] + d ELSE pos[a][u]
        /\ dim'[a][u] = IF ends(u) THEN dim[a][u] + d
                        ELSE IF begins(u) THEN dim[a][u] - d ELSE dim[a][u]
        /\ End(a, u)' = pos'[a][u] + dim'[a][u]
  BY <1>0 DEF Inv, TypeOK, MoveLine, End
<1>7. \A u \in live : LET o == Other(a) IN
        pos'[o][u] = pos[o][u] /\ dim'[o][u] = dim[o][u] /\ End(o, u)' = End(o, u)
  BY <1>0, AxisFacts DEF Inv, TypeOK, MoveLine, End
<1>8. Within'
  <2> SUFFICES ASSUME NEW u \in live, NEW b \in Axis
               PROVE  0 <= pos'[b][u] /\ 1 <= dim'[b][u] /\ End(b, u)' <= Size[b]
    BY <1>0 DEF Within
  <2>1. CASE b = Other(a)
    BY <2>1, <1>7, Numbers
  <2>2. CASE b = a
    <3>0. PICK p \in Pixels : Row(a, u, p)
      BY HasPixel
    <3>1. CASE ends(u)
      <4>1. PICK r \in live : pos[a][r] = e /\ Abut(a, u, r)
        BY <3>0, <3>1, <1>0, AfterPartner
      <4>2. begins(r)
        BY <3>1, <4>1, <1>2
      <4> QED
        BY <2>2, <3>1, <4>1, <4>2, <1>0, <1>1, <1>3, <1>4, <1>6
    <3>2. CASE begins(u)
      <4>1. PICK l \in live : End(a, l) = e /\ Abut(a, l, u)
        BY <3>0, <3>2, <1>0, BeforePartner
      <4>2. ends(l)
        BY <3>2, <4>1, <1>2
      <4> QED
        BY <2>2, <3>2, <4>1, <4>2, <1>0, <1>1, <1>3, <1>4, <1>6
    <3>3. CASE ~ends(u) /\ ~begins(u)
      BY <2>2, <3>3, <1>3, <1>6
    <3> QED
      BY <3>1, <3>2, <3>3
  <2> QED
    BY <2>1, <2>2, AxisFacts
<1>9. ASSUME NEW p \in Pixels
      PROVE  /\ p[a] \in Int
             /\ \A u \in live : Covers(u, p) <=>
                  pos[a][u] <= p[a] /\ p[a] < pos[a][u] + dim[a][u] /\ Row(a, u, p)
             /\ \A u \in live : Covers(u, p)' <=>
                  pos'[a][u] <= p[a] /\ p[a] < pos'[a][u] + dim'[a][u] /\ Row(a, u, p)
  <2>1. p[a] \in Int
    BY DEF Pixels
  <2>2. \A u \in live : Row(a, u, p)' <=> Row(a, u, p)
    BY <1>7 DEF Row
  <2>3. \A u \in live : Covers(u, p)' <=>
          pos'[a][u] <= p[a] /\ p[a] < End(a, u)' /\ Row(a, u, p)'
    BY AxisFacts DEF Covers, Row
  <2> QED
    BY <2>1, <2>2, <2>3, <1>3, <1>6, CoversByRow
<1>10. Covered'
  <2> SUFFICES ASSUME NEW p \in Pixels PROVE \E u \in live : Covers(u, p)'
    BY <1>0 DEF Covered, Pixels
  <2>1. PICK u \in live : Covers(u, p)
    BY DEF Inv, Covered
  <2>2. CASE ~ends(u) /\ ~begins(u)
    BY <2>1, <2>2, <1>6, <1>9
  <2>3. CASE ends(u) /\ p[a] < e + d
    BY <2>1, <2>3, <1>3, <1>4, <1>6, <1>9
  <2>4. CASE begins(u) /\ p[a] >= e + d
    BY <2>1, <2>4, <1>3, <1>4, <1>6, <1>9
  <2>5. CASE ends(u) /\ ~(p[a] < e + d)
    <3>1. PICK r \in live : pos[a][r] = e /\ Row(a, r, p) /\ Abut(a, u, r)
      BY <2>1, <2>5, <1>0, <1>9, AfterPartner
    <3>2. begins(r)
      BY <2>5, <3>1, <1>2
    <3>3. Covers(r, p)'
      BY <2>1, <2>5, <3>1, <3>2, <1>1, <1>3, <1>4, <1>6, <1>9
    <3> QED
      BY <3>3
  <2>6. CASE begins(u) /\ ~(p[a] >= e + d)
    <3>1. PICK l \in live : End(a, l) = e /\ Row(a, l, p) /\ Abut(a, l, u)
      BY <2>1, <2>6, <1>0, <1>9, BeforePartner
    <3>2. ends(l)
      BY <2>6, <3>1, <1>2
    <3>3. Covers(l, p)'
      BY <2>1, <2>6, <3>1, <3>2, <1>1, <1>3, <1>4, <1>6, <1>9
    <3> QED
      BY <3>3
  <2> QED
    BY <2>2, <2>3, <2>4, <2>5, <2>6
<1>11. ASSUME NEW p \in Pixels, NEW u \in live, NEW v \in live,
              Covers(u, p)', Covers(v, p)', ~Covers(u, p)
       PROVE  u = v
  <2>1. \/ ends(u) /\ e <= p[a] /\ p[a] < e + d
        \/ begins(u) /\ e + d <= p[a] /\ p[a] < e
    BY <1>11, <1>3, <1>4, <1>6, <1>9
  <2>2. CASE ends(u) /\ e <= p[a] /\ p[a] < e + d
    <3>1. PICK r \in live : pos[a][r] = e /\ Row(a, r, p) /\ Abut(a, u, r)
      BY <2>2, <1>11, <1>0, <1>6, <1>9, AfterPartner
    <3>2. begins(r)
      BY <2>2, <3>1, <1>2
    <3>3. Covers(r, p) /\ ~Covers(r, p)'
      BY <2>2, <3>1, <3>2, <1>1, <1>3, <1>4, <1>6, <1>9
    <3>4. ~Covers(v, p)
      BY <1>11, <3>3 DEF Inv, Disjoint
    <3>5. ends(v)
      BY <2>2, <3>4, <1>11, <1>3, <1>4, <1>6, <1>9
    <3> QED
      BY <2>2, <3>5, <1>11, <1>9, <1>0, OneOnEachSide
  <2>3. CASE begins(u) /\ e + d <= p[a] /\ p[a] < e
    <3>1. PICK l \in live : End(a, l) = e /\ Row(a, l, p) /\ Abut(a, l, u)
      BY <2>3, <1>11, <1>0, <1>6, <1>9, BeforePartner
    <3>2. ends(l)
      BY <2>3, <3>1, <1>2
    <3>3. Covers(l, p) /\ ~Covers(l, p)'
      BY <2>3, <3>1, <3>2, <1>1, <1>3, <1>4, <1>6, <1>9
    <3>4. ~Covers(v, p)
      BY <1>11, <3>3 DEF Inv, Disjoint
    <3>5. begins(v)
      BY <2>3, <3>4, <1>11, <1>3, <1>4, <1>6, <1>9
    <3> QED
      BY <2>3, <3>5, <1>11, <1>9, <1>0, OneOnEachSide
  <2> QED
    BY <2>1, <2>2, <2>3
<1>12. Disjoint'
  <2> SUFFICES ASSUME NEW p \in Pixels, NEW u \in live, NEW v \in live,
                      Covers(u, p)', Covers(v, p)'
               PROVE  u = v
    BY <1>0 DEF Disjoint, Pixels
  <2>1. CASE Covers(u, p) /\ Covers(v, p)
    BY <2>1 DEF Inv, Disjoint
  <2>2. CASE ~Covers(u, p)
    BY <2>2, <1>11
  <2>3. CASE ~Covers(v, p)
    BY <2>3, <1>11
  <2> QED
    BY <2>1, <2>2, <2>3
<1> QED
  BY <1>5, <1>8, <1>10, <1>12 DEF Inv

(* Nothing in Inv depends on anything but the three variables.             *)
LEMMA StutterInv == Inv /\ UNCHANGED vars => Inv'
BY DEF Inv, vars, TypeOK, Within, Covered, Disjoint, Covers, End, Pixels

(* Inv is inductive: one lemma for each way the layout changes.            *)
LEMMA NextInv == Inv /\ [Next]_vars => Inv'
<1> SUFFICES ASSUME Inv, [Next]_vars PROVE Inv'
  OBVIOUS
<1>1. CASE \E n \in Tiles : Whole(n)
  BY <1>1, WholeInv
<1>2. CASE \E t, n \in Tiles, a \in Axis : \E k \in 1 .. dim[a][t] : SplitAt(t, n, a, k)
  BY <1>2, SplitInv
<1>3. CASE \E t, m \in Tiles, a \in Axis : Join(t, m, a)
  BY <1>3, JoinInv
<1>4. CASE \E a \in Axis : \E e \in 1 .. Size[a] - 1 : \E C \in SUBSET OnLine(a, e) :
             \E d \in -Size[a] .. Size[a] : MoveLine(C, a, e, d)
  BY <1>4, MoveInv
<1>5. CASE UNCHANGED vars
  BY <1>5, StutterInv
<1> QED
  BY <1>1, <1>2, <1>3, <1>4, <1>5 DEF Next

(* The tiles of a workspace always have at least one pixel and lie on the  *)
(* output, whatever splits, merges, resizes and `only` were made before.   *)
THEOREM TilesWithin == Spec => []Within
<1>1. Inv => Within
  BY DEF Inv
<1> QED
  BY InitInv, NextInv, <1>1, PTL DEF Spec

(* No pixel of the output is ever left without a tile.                     *)
THEOREM TilesCover == Spec => []Covered
<1>1. Inv => Covered
  BY DEF Inv
<1> QED
  BY InitInv, NextInv, <1>1, PTL DEF Spec

(* No two tiles ever overlap.                                              *)
THEOREM TilesDisjoint == Spec => []Disjoint
<1>1. Inv => Disjoint
  BY DEF Inv
<1> QED
  BY InitInv, NextInv, <1>1, PTL DEF Spec

(* The type invariant.                                                     *)
THEOREM TypeCorrect == Spec => []TypeOK
<1>1. Inv => TypeOK
  BY DEF Inv
<1> QED
  BY InitInv, NextInv, <1>1, PTL DEF Spec
=============================================================================
