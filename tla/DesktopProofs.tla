--------------------------- MODULE DesktopProofs ---------------------------
(***************************************************************************)
(* Every handler keeps the tiles, the lists of views, the scene tree and   *)
(* the seat in agreement.                                                  *)
(*                                                                         *)
(* The properties of Desktop are not inductive one by one: that the seat   *)
(* focuses what the focused tile shows needs that tile to exist and to     *)
(* belong to the current workspace, that view_unmap finds a view which may *)
(* be shown needs the lists to follow view->workspace, and so on.  DeskInv *)
(* is their conjunction with what holds them together (Placed).  Handlers  *)
(* break it on the way: Base(s, A, G) is what is left while the views of A *)
(* are in no list and the workspaces of G are being taken down, and Seated *)
(* what seat_set_focus restores.  A lemma per shared step says which of    *)
(* these it needs and gives, a lemma per handler puts them together.       *)
(*                                                                         *)
(* The same lemmas carry Sound, under which no handler uses freed memory:  *)
(* only output_destroy can end it, by freeing the workspace under which    *)
(* the scene node of an unmapped view still hangs.                         *)
(***************************************************************************)
EXTENDS Desktop, ListProofs, FiniteSetTheorems

-----------------------------------------------------------------------------
(* The inductive invariant.                                                *)

(* A is the set of the views that a handler has taken out of their lists   *)
(* and not put in others yet, G the set of the workspaces it is about to   *)
(* free.  Both are empty between two handlers.                             *)

(* The current output is listed, its current workspace exists, the focused *)
(* tile of every workspace is one of its tiles, and a tile belongs to a    *)
(* workspace that exists.                                                  *)
Placed(s, G) ==
  /\ Distinct(s.outputs)
  /\ s.output \in ToSet(s.outputs)
  /\ \A o \in ToSet(s.outputs) : s.currWs[o] < s.nws
  /\ \A w \in LiveWs(s) : s.ftile[w] # NULL /\ s.tileWs[s.ftile[w]] = w
  /\ \A t \in Tiles : s.tileWs[t] \in LiveWs(s) \cup G \cup {NULL}
  /\ G \cap LiveWs(s) = {}

(* A tile shows a mapped managed view of its own workspace, which points   *)
(* back to it.                                                             *)
Linked(s, A, G) ==
  \A t \in Tiles : s.tileView[t] # NULL =>
    /\ s.tileWs[t] \notin G \cup {NULL}
    /\ s.tileView[t] \in Managed \ A
    /\ s.life[s.tileView[t]] = "mapped"
    /\ s.viewWs[s.tileView[t]] = s.tileWs[t]
    /\ s.viewTile[s.tileView[t]] = t

(* The lists of views partition the mapped managed views by workspace.     *)
InLists(s, A) ==
  /\ \A w \in Ws : Distinct(s.list[w])
  /\ \A v \in Managed, w \in Ws :
       v \in ToSet(s.list[w]) <=> s.life[v] = "mapped" /\ s.viewWs[v] = w /\ v \notin A
  /\ \A v \in Views \ A : s.life[v] = "mapped" =>
       s.viewWs[v] \in LiveWs(s) /\ s.tree[v] = s.viewWs[v]

Base(s, A, G) == s \in DeskType /\ Placed(s, G) /\ Linked(s, A, G) /\ InLists(s, A)

(* The seat's focus agrees with what is shown.                             *)
Seated(s) ==
  /\ s.focus = s.tileView[FocusedTile(s)]
  /\ s.focus # NULL => s.focus = Last(s.list[CurrWs(s)])
  /\ s.kb \in Managed => s.kb = s.focus

DeskInv(s) == Base(s, {}, {}) /\ Seated(s)

(* No step has used freed memory, and none can: a view that exists has its *)
(* scene node, and the seat's focused view exists.                         *)
Sound(s) ==
  /\ ~s.ub
  /\ \A v \in Views : s.life[v] # "none" => s.tree[v] # NULL
  /\ s.focus # NULL => s.life[s.focus] # "none"

-----------------------------------------------------------------------------
(* Frames.                                                                 *)

Fields ==
  {"outputs", "nws", "output", "currWs", "ftile", "tileWs", "tileView", "viewTile",
   "viewWs", "list", "life", "focus", "kb", "tree", "layer", "running", "ub"}

(* From s to t no field changed but those in fs.                           *)
Same(s, t, fs) == \A f \in Fields \ fs : t[f] = s[f]

(* The workspaces that exist: those of the connected outputs, numbered     *)
(* below server->nws.                                                      *)
LEMMA LiveProperties ==
  ASSUME NEW s \in DeskType
  PROVE  /\ LiveWs(s) \subseteq Ws
         /\ \A o, i : <<o, i>> \in LiveWs(s) <=> o \in ToSet(s.outputs) /\ i \in 0 .. s.nws - 1
         /\ \A w \in LiveWs(s) : w = <<w[1], w[2]>>
<1>1. ToSet(s.outputs) \subseteq Outputs
  BY EmptyList DEF DeskType
<1>2. 0 .. s.nws - 1 \subseteq 0 .. MaxWs - 1
  BY DesktopAssumption DEF DeskType
<1> QED
  BY <1>1, <1>2 DEF LiveWs, Ws

(* The current workspace exists and its focused tile is one of its own.    *)
LEMMA CurrentProperties ==
  ASSUME NEW s, NEW A, NEW G, Base(s, A, G)
  PROVE  /\ CurrWs(s) \in LiveWs(s) /\ CurrWs(s) \in Ws
         /\ FocusedTile(s) \in Tiles /\ s.tileWs[FocusedTile(s)] = CurrWs(s)
         /\ FocusedTile(s) = s.ftile[CurrWs(s)]
         /\ CurrWs(s) \notin G \cup {NULL}
<1>1. s.output \in ToSet(s.outputs) /\ s.currWs[s.output] \in 0 .. s.nws - 1
  BY DesktopAssumption DEF Base, Placed, DeskType
<1>2. CurrWs(s) \in LiveWs(s) /\ CurrWs(s) \in Ws
  BY <1>1, LiveProperties DEF CurrWs, Base
<1>3. CurrWs(s) # NULL
  BY <1>2, DesktopAssumption
<1> QED
  BY <1>2, <1>3 DEF Base, Placed, FocusedTile, DeskType

(* The base of the invariant does not read the seat's fields.              *)
LEMMA SameKeepsBase ==
  ASSUME NEW s, NEW t, NEW A, NEW G, Base(s, A, G), t \in DeskType,
         Same(s, t, {"focus", "kb", "layer", "running", "ub"})
  PROVE  Base(t, A, G)
<1>1. /\ t.outputs = s.outputs /\ t.nws = s.nws /\ t.output = s.output
      /\ t.currWs = s.currWs /\ t.ftile = s.ftile /\ t.tileWs = s.tileWs
      /\ t.tileView = s.tileView /\ t.viewTile = s.viewTile /\ t.viewWs = s.viewWs
      /\ t.list = s.list /\ t.life = s.life /\ t.tree = s.tree
  BY DEF Same, Fields
<1>2. LiveWs(t) = LiveWs(s)
  BY <1>1 DEF LiveWs
<1> QED
  BY <1>1, <1>2 DEF Base, Placed, Linked, InLists

-----------------------------------------------------------------------------
(* What a tile shows.                                                      *)

(* A view may be shown in tile t: it belongs there and no other shows it.  *)
Fits(s, A, t, v) ==
  v # NULL =>
    /\ v \in Managed \ A /\ s.life[v] = "mapped" /\ s.viewWs[v] = s.tileWs[t]
    /\ \A x \in Tiles : s.tileView[x] = v => x = t

(* A view in no tile fits everywhere in its workspace.                     *)
LEMMA HiddenFits ==
  ASSUME NEW s, NEW A, NEW G, Base(s, A, G), NEW v \in Managed, ~view_is_visible(s, v)
  PROVE  \A x \in Tiles : s.tileView[x] # v
<1>1. ASSUME NEW x \in Tiles, s.tileView[x] = v PROVE FALSE
  <2>1. s.viewTile[v] = x /\ x # NULL
    BY <1>1, DesktopAssumption DEF Base, Linked, Managed
  <2> QED
    BY <1>1, <2>1 DEF view_is_visible, view_get_tile
<1> QED
  BY <1>1

(* A view that is visible is shown by the tile it points to.               *)
LEMMA VisibleIsShown ==
  ASSUME NEW s, NEW A, NEW G, Base(s, A, G), NEW v \in Managed, view_is_visible(s, v)
  PROVE  s.viewTile[v] \in Tiles /\ s.tileView[s.viewTile[v]] = v
BY DEF view_is_visible, view_get_tile, Managed, Base, DeskType

(* workspace_tile_update_view: t now shows v, a view that may be shown     *)
(* there, or nothing.                                                      *)
LEMMA UpdateKeepsBase ==
  ASSUME NEW s, NEW A, NEW G, Base(s, A, G), NEW t \in Tiles, NEW v,
         s.tileWs[t] \notin G \cup {NULL}, Fits(s, A, t, v)
  PROVE  LET u == workspace_tile_update_view(s, t, v)
         IN  /\ Base(u, A, G)
             /\ Same(s, u, {"tileView", "viewTile", "ub"})
             /\ u.tileView = [s.tileView EXCEPT ![t] = v]
             /\ Sound(s) => Sound(u)
<1> DEFINE u == workspace_tile_update_view(s, t, v)
           old == s.tileView[t]
           vt == [x \in Views |-> IF x = v THEN t ELSE IF x = old THEN NULL
                                  ELSE s.viewTile[x]]
<1>1. v \in Views \cup {NULL}
  BY DEF Fits, Managed
<1>2. /\ u \in DeskType /\ Same(s, u, {"tileView", "viewTile", "ub"})
      /\ u.tileView = [s.tileView EXCEPT ![t] = v] /\ u.viewTile = vt
  BY <1>1 DEF Base, DeskType, workspace_tile_update_view, Same, Fields, NodeDead
<1>6. u.ub = (s.ub \/ s.tileWs[t] = NULL \/ NodeDead(s, old) \/ NodeDead(s, v))
  BY DEF Base, DeskType, workspace_tile_update_view
<1> HIDE DEF u
<1>3. /\ u.outputs = s.outputs /\ u.nws = s.nws /\ u.output = s.output
      /\ u.currWs = s.currWs /\ u.ftile = s.ftile /\ u.tileWs = s.tileWs
      /\ u.viewWs = s.viewWs /\ u.list = s.list /\ u.life = s.life /\ u.tree = s.tree
  BY <1>2 DEF Same, Fields
<1>4. Placed(u, G) /\ InLists(u, A)
  <2>1. LiveWs(u) = LiveWs(s)
    BY <1>3 DEF LiveWs
  <2> QED
    BY <1>3, <2>1 DEF Base, Placed, InLists
<1>5. Linked(u, A, G)
  <2>1. ASSUME NEW x \in Tiles, u.tileView[x] # NULL
        PROVE  /\ u.tileWs[x] \notin G \cup {NULL}
               /\ u.tileView[x] \in Managed \ A
               /\ u.life[u.tileView[x]] = "mapped"
               /\ u.viewWs[u.tileView[x]] = u.tileWs[x]
               /\ u.viewTile[u.tileView[x]] = x
    <3>1. CASE x = t
      BY <2>1, <3>1, <1>1, <1>2, <1>3 DEF Fits, Base, DeskType
    <3>2. CASE x # t
      <4>1. u.tileView[x] = s.tileView[x]
        BY <3>2, <1>2 DEF Base, DeskType
      <4>2. s.tileView[x] # v /\ s.tileView[x] # old
        BY <2>1, <3>2, <4>1 DEF Fits, Base, Linked
      <4> QED
        BY <2>1, <4>1, <4>2, <1>2, <1>3 DEF Base, Linked, Managed
    <3> QED
      BY <3>1, <3>2
  <2> QED
    BY <2>1 DEF Linked
<1>7. Sound(s) => Sound(u)
  <2>1. old # NULL => old \in Views /\ s.life[old] = "mapped"
    BY DEF Base, Linked, DeskType
  <2>2. v # NULL => v \in Views /\ s.life[v] = "mapped"
    BY <1>1 DEF Fits
  <2>3. Sound(s) => ~u.ub
    BY <2>1, <2>2, <1>6 DEF Sound, NodeDead
  <2>4. u.focus = s.focus
    BY <1>2 DEF Same, Fields
  <2> QED
    BY <2>3, <2>4, <1>3 DEF Sound
<1> QED
  BY <1>2, <1>4, <1>5, <1>7 DEF Base, u

(* view_maximize sets view->tile of a view that no other tile shows.       *)
LEMMA MaximizeKeepsBase ==
  ASSUME NEW s, NEW A, NEW G, Base(s, A, G), NEW v \in Views, NEW t \in Tiles,
         \A x \in Tiles : s.tileView[x] = v => x = t
  PROVE  /\ Base(view_maximize(s, v, t), A, G)
         /\ Same(s, view_maximize(s, v, t), {"viewTile", "ub"})
         /\ Sound(s) /\ s.life[v] # "none" => Sound(view_maximize(s, v, t))
<1> DEFINE u == view_maximize(s, v, t)
<1>2. /\ u \in DeskType /\ Same(s, u, {"viewTile", "ub"})
      /\ u.viewTile = [s.viewTile EXCEPT ![v] = t]
  BY DEF Base, DeskType, view_maximize, Same, Fields, NodeDead
<1>6. u.ub = (s.ub \/ NodeDead(s, v))
  BY DEF Base, DeskType, view_maximize
<1> HIDE DEF u
<1>3. /\ u.outputs = s.outputs /\ u.nws = s.nws /\ u.output = s.output
      /\ u.currWs = s.currWs /\ u.ftile = s.ftile /\ u.tileWs = s.tileWs
      /\ u.viewWs = s.viewWs /\ u.list = s.list /\ u.life = s.life /\ u.tree = s.tree
      /\ u.tileView = s.tileView
  BY <1>2 DEF Same, Fields
<1>4. Placed(u, G) /\ InLists(u, A)
  <2>1. LiveWs(u) = LiveWs(s)
    BY <1>3 DEF LiveWs
  <2> QED
    BY <1>3, <2>1 DEF Base, Placed, InLists
<1>5. Linked(u, A, G)
  BY <1>2, <1>3 DEF Base, Linked, DeskType, Managed
<1>7. Sound(s) /\ s.life[v] # "none" => Sound(u)
  <2>1. u.focus = s.focus
    BY <1>2 DEF Same, Fields
  <2> QED
    BY <2>1, <1>3, <1>6 DEF Sound, NodeDead
<1> QED
  BY <1>2, <1>4, <1>5, <1>7 DEF Base, u

-----------------------------------------------------------------------------
(* Lists of views.                                                         *)

(* A list cut behind place k, the parts exchanged.                         *)
LEMMA RotatedAt ==
  ASSUME NEW S, NEW seq \in Seq(S), Distinct(seq), NEW k \in 1 .. Len(seq)
  PROVE  LET r == SubSeq(seq, k + 1, Len(seq)) \o SubSeq(seq, 1, k)
         IN  /\ r \in Seq(S) /\ Distinct(r)
             /\ ToSet(r) = ToSet(seq)
             /\ Last(r) = seq[k]
<1> DEFINE p == SubSeq(seq, k + 1, Len(seq))
           q == SubSeq(seq, 1, k)
           r == p \o q
<1>1. k \in Int /\ Len(seq) \in Nat /\ DOMAIN seq = 1 .. Len(seq)
  BY LenProperties
<1>3. /\ q \in Seq(S) /\ Len(q) = k /\ \A i \in 1 .. k : q[i] = seq[i]
      /\ p \in Seq(S) /\ Len(p) = Len(seq) - k
      /\ \A i \in 1 .. Len(seq) - k : p[i] = seq[k + i]
  BY CutProperties
<1> HIDE DEF p, q
<1>4. DOMAIN q = 1 .. k /\ DOMAIN p = 1 .. Len(seq) - k
  BY <1>3, LenProperties
<1>5. Distinct(p) /\ Distinct(q) /\ ToSet(p) \cap ToSet(q) = {}
  <2>1. Distinct(q)
    BY <1>1, <1>3, <1>4 DEF Distinct
  <2>2. ASSUME NEW i \in DOMAIN p, NEW j \in DOMAIN p, p[i] = p[j] PROVE i = j
    <3>1. k + i \in DOMAIN seq /\ k + j \in DOMAIN seq /\ seq[k + i] = seq[k + j]
      BY <2>2, <1>1, <1>3, <1>4, SMTT(20)
    <3>2. k + i = k + j
      BY <3>1 DEF Distinct
    <3> QED
      BY <3>2, <1>1, <1>4
  <2>3. ASSUME NEW i \in DOMAIN p, NEW j \in DOMAIN q, p[i] = q[j] PROVE FALSE
    <3>1. /\ k + i \in DOMAIN seq /\ j \in DOMAIN seq /\ seq[k + i] = seq[j]
          /\ k + i # j
      BY <2>3, <1>1, <1>3, <1>4
    <3> QED
      BY <3>1 DEF Distinct
  <2> QED
    BY <2>1, <2>2, <2>3 DEF Distinct, ToSet
<1>6. r \in Seq(S) /\ Distinct(r) /\ ToSet(r) = ToSet(p) \cup ToSet(q)
  BY <1>3, <1>5, Concatenated
<1>7. ToSet(p) \cup ToSet(q) = ToSet(seq)
  <2>1. \A i \in DOMAIN q : i \in DOMAIN seq /\ q[i] = seq[i]
    BY <1>1, <1>3, <1>4
  <2>2. \A i \in DOMAIN p : k + i \in DOMAIN seq /\ p[i] = seq[k + i]
    BY <1>1, <1>3, <1>4
  <2>3. \A i \in DOMAIN seq : i > k => i - k \in DOMAIN p /\ p[i - k] = seq[i]
    BY <1>1, <1>3, <1>4
  <2>4. \A i \in DOMAIN seq : ~(i > k) => i \in DOMAIN q /\ q[i] = seq[i]
    BY <1>1, <1>3, <1>4
  <2>5. ToSet(p) \cup ToSet(q) \subseteq ToSet(seq)
    BY <2>1, <2>2 DEF ToSet
  <2>6. ToSet(seq) \subseteq ToSet(p) \cup ToSet(q)
    BY <2>3, <2>4 DEF ToSet
  <2> QED
    BY <2>5, <2>6
<1>8. Last(r) = seq[k]
  <2>1. /\ Len(r) = Len(p) + Len(q)
        /\ r[Len(p) + Len(q)] = IF Len(p) + Len(q) <= Len(p) THEN p[Len(p) + Len(q)]
                                ELSE q[Len(p) + Len(q) - Len(p)]
    <3>1. Len(p) + Len(q) \in 1 .. Len(p) + Len(q)
      BY <1>1, <1>3
    <3>2. /\ Len(p \o q) = Len(p) + Len(q)
          /\ \A i \in 1 .. Len(p) + Len(q) :
               (p \o q)[i] = IF i <= Len(p) THEN p[i] ELSE q[i - Len(p)]
      BY <1>3, ConcatProperties
    <3> QED
      BY <3>1, <3>2
  <2> QED
    BY <2>1, <1>1, <1>3 DEF Last
<1> QED
  BY <1>6, <1>7, <1>8 DEF p, q

(* The rotation of seat_set_focus keeps the views and makes v the last.    *)
LEMMA RotateProperties ==
  ASSUME NEW S, NEW seq \in Seq(S), Distinct(seq), NEW v \in ToSet(seq)
  PROVE  /\ RotateTo(seq, v) \in Seq(S) /\ Distinct(RotateTo(seq, v))
         /\ ToSet(RotateTo(seq, v)) = ToSet(seq)
         /\ Last(RotateTo(seq, v)) = v
<1>1. PICK k \in 1 .. Len(seq) : k = IndexIn(seq, v) /\ seq[k] = v
  BY IndexInProperties
<1>2. RotateTo(seq, v) = SubSeq(seq, k + 1, Len(seq)) \o SubSeq(seq, 1, k)
  BY <1>1 DEF RotateTo
<1> DEFINE r == SubSeq(seq, k + 1, Len(seq)) \o SubSeq(seq, 1, k)
<1>3. r \in Seq(S) /\ Distinct(r) /\ ToSet(r) = ToSet(seq) /\ Last(r) = seq[k]
  BY RotatedAt
<1> HIDE DEF r
<1>4. RotateTo(seq, v) = r
  BY <1>2 DEF r
<1> QED
  BY <1>1, <1>3, <1>4

(* A view found by the walks over a list of views is in the list and       *)
(* hidden ...                                                              *)
LEMMA FirstHiddenProperties ==
  ASSUME NEW s, NEW S, NEW seq \in Seq(S), FirstHidden(s, seq) # NULL
  PROVE  FirstHidden(s, seq) \in ToSet(seq) /\ ~view_is_visible(s, FirstHidden(s, seq))
<1> DEFINE hidden == {i \in DOMAIN seq : ~view_is_visible(s, seq[i])}
<1>1. hidden \in SUBSET Nat
  BY LenProperties
<1>2. hidden # {} /\ FirstHidden(s, seq) = seq[Min(hidden)]
  BY DEF FirstHidden
<1>3. Min(hidden) \in hidden
  <2> HIDE DEF hidden
  <2> QED
    BY <1>1, <1>2, LeastNat DEF Min
<1> QED
  BY <1>2, <1>3 DEF ToSet

(* ... or in the list and visible (output_make_workspace_fullscreen).      *)
LEMMA FirstVisibleProperties ==
  ASSUME NEW s, NEW S, NEW seq \in Seq(S), FirstVisible(s, seq) # NULL
  PROVE  FirstVisible(s, seq) \in ToSet(seq) /\ view_is_visible(s, FirstVisible(s, seq))
<1> DEFINE shown == {i \in DOMAIN seq : view_is_visible(s, seq[i])}
<1>1. shown \in SUBSET Nat
  BY LenProperties
<1>2. shown # {} /\ FirstVisible(s, seq) = seq[Min(shown)]
  BY DEF FirstVisible
<1>3. Min(shown) \in shown
  <2> HIDE DEF shown
  <2> QED
    BY <1>1, <1>2, LeastNat DEF Min
<1> QED
  BY <1>2, <1>3 DEF ToSet

-----------------------------------------------------------------------------
(* The seat.                                                               *)

(* From s to t at most the seat, what tiles show and the order within the  *)
(* lists changed.                                                          *)
Frame(s, t) ==
  /\ Same(s, t, {"tileView", "viewTile", "list", "focus", "kb", "ub"})
  /\ \A w \in Ws : ToSet(t.list[w]) = ToSet(s.list[w])

(* A handler within a frame leaves the place of everything as it was.      *)
LEMMA FrameProperties ==
  ASSUME NEW s, NEW t, Frame(s, t)
  PROVE  /\ t.outputs = s.outputs /\ t.nws = s.nws /\ t.output = s.output
         /\ t.currWs = s.currWs /\ t.ftile = s.ftile /\ t.tileWs = s.tileWs
         /\ t.viewWs = s.viewWs /\ t.life = s.life /\ t.tree = s.tree
         /\ t.layer = s.layer /\ t.running = s.running
         /\ LiveWs(t) = LiveWs(s) /\ CurrWs(t) = CurrWs(s)
         /\ FocusedTile(t) = FocusedTile(s)
BY DEF Frame, Same, Fields, LiveWs, CurrWs, FocusedTile

(* Frames compose.                                                         *)
LEMMA FrameTwice ==
  ASSUME NEW s, NEW t, NEW u, Frame(s, t), Frame(t, u)
  PROVE  Frame(s, u)
BY DEF Frame, Same

(* A view of the current workspace is mapped and not away.                 *)
LEMMA ListedIsHome ==
  ASSUME NEW s, NEW A, NEW G, Base(s, A, G), NEW w \in Ws, NEW v \in ToSet(s.list[w])
  PROVE  v \in Managed \ A /\ v # NULL /\ s.life[v] = "mapped" /\ s.viewWs[v] = w
<1>1. ToSet(s.list[w]) \subseteq Managed
  BY EmptyList DEF Base, DeskType
<1> QED
  BY <1>1, DesktopAssumption DEF Base, InLists, Managed

(* May be focused: nothing, or a view of the current workspace which no    *)
(* tile but the focused one shows.                                         *)
Focusable(s, v) ==
  v # NULL => /\ v \in ToSet(s.list[CurrWs(s)])
              /\ \A x \in Tiles : s.tileView[x] = v => x = FocusedTile(s)

(* seat_set_focus shows the view in the focused tile and seats it there.   *)
LEMMA FocusSeats ==
  ASSUME NEW s, NEW A, NEW G, Base(s, A, G), NEW v, Focusable(s, v)
  PROVE  LET t == seat_set_focus(s, v)
         IN  /\ Base(t, A, G) /\ Seated(t) /\ Frame(s, t)
             /\ t.tileView = [s.tileView EXCEPT ![FocusedTile(s)] = v]
             /\ Sound(s) => Sound(t)
<1> DEFINE ft == FocusedTile(s)
           w == CurrWs(s)
           u == workspace_tile_update_view(s, ft, v)
           t == seat_set_focus(s, v)
<1>1. /\ ft \in Tiles /\ s.tileWs[ft] = w /\ w \in Ws /\ w \notin G \cup {NULL}
  BY CurrentProperties
<1>2. v # NULL => /\ v \in Managed \ A /\ s.life[v] = "mapped" /\ s.viewWs[v] = w
  BY <1>1, ListedIsHome DEF Focusable
<1>3. Fits(s, A, ft, v)
  BY <1>1, <1>2 DEF Fits, Focusable
<1>4. /\ Base(u, A, G) /\ Same(s, u, {"tileView", "viewTile", "ub"})
      /\ u.tileView = [s.tileView EXCEPT ![ft] = v]
      /\ Sound(s) => Sound(u)
  BY <1>1, <1>3, UpdateKeepsBase
<1>5. CASE v = NULL
  <2>0. v \notin Managed
    BY <1>5, DesktopAssumption DEF Managed
  <2>1. t = [ClearKeyboard(u) EXCEPT !.focus = NULL,
               !.ub = @ \/ (s.focus # NULL /\ s.life[s.focus] = "none")]
    BY <1>5, <2>0, Zenon DEF seat_set_focus
  <2> HIDE DEF u, t
  <2>2. /\ t \in DeskType /\ Same(u, t, {"focus", "kb", "ub"}) /\ t.focus = NULL /\ t.kb = NULL
        /\ t.ub = (u.ub \/ (s.focus # NULL /\ s.life[s.focus] = "none"))
    BY <2>1, <1>4 DEF Base, DeskType, ClearKeyboard, Same, Fields
  <2>3. Base(t, A, G)
    BY <2>2, <1>4, SameKeepsBase DEF Same
  <2>4. /\ t.tileView = u.tileView /\ t.list = s.list
        /\ Same(s, t, {"tileView", "viewTile", "focus", "kb", "ub"})
    BY <2>2, <1>4 DEF Same, Fields
  <2>5. Frame(s, t)
    BY <2>4 DEF Frame, Same
  <2>6. FocusedTile(t) = ft
    BY <2>5, FrameProperties
  <2>7. Seated(t)
    BY <2>2, <2>4, <2>6, <1>1, <1>4, <1>5, DesktopAssumption DEF Seated, Base, DeskType, Managed
  <2>8. Sound(s) => Sound(t)
    <3>1. t.life = u.life /\ t.tree = u.tree
      BY <2>2 DEF Same, Fields
    <3> QED
      BY <3>1, <2>2, <1>4 DEF Sound
  <2> QED
    BY <2>3, <2>4, <2>5, <2>7, <2>8, <1>4 DEF t
<1>6. CASE v # NULL
  <2> DEFINE l == RotateTo(s.list[w], v)
  <2>1. v \in ToSet(s.list[w]) /\ v \in Managed
    BY <1>2, <1>6 DEF Focusable
  <2>2. t = [u EXCEPT !.list[w] = IF v \in ToSet(@) THEN RotateTo(@, v) ELSE @,
                      !.focus = v, !.kb = v,
                      !.ub = @ \/ (s.focus # NULL /\ s.life[s.focus] = "none")
                               \/ v \notin ToSet(s.list[w])]
    BY <1>6, <2>1, Zenon DEF seat_set_focus
  <2> HIDE DEF u, t
  <2>3. u.list = s.list /\ s.list[w] \in Seq(Managed) /\ Distinct(s.list[w])
        /\ s.list \in [Ws -> Seq(Managed)]
    BY <1>1, <1>4 DEF Same, Fields, Base, DeskType, InLists
  <2>4. /\ l \in Seq(Managed) /\ Distinct(l) /\ ToSet(l) = ToSet(s.list[w])
        /\ Last(l) = v
    BY <2>1, <2>3, RotateProperties
  <2>5. t.list = [s.list EXCEPT ![w] = l]
    BY <2>1, <2>2, <2>3, <1>1, <1>4 DEF Base, DeskType
  <2> HIDE DEF l
  <2>6. /\ t \in DeskType /\ Same(u, t, {"list", "focus", "kb", "ub"})
        /\ t.focus = v /\ t.kb = v
    <3>1. t.list \in [Ws -> Seq(Managed)]
      BY <2>3, <2>4, <2>5
    <3>2. /\ Same(u, t, {"list", "focus", "kb", "ub"}) /\ t.focus = v /\ t.kb = v
          /\ t = [f \in Fields |-> t[f]]
          /\ t.ub \in BOOLEAN
      BY <2>2, <1>4 DEF Base, DeskType, Same, Fields
    <3> QED
      BY <2>1, <3>1, <3>2, <1>4, ZenonT(40) DEF Base, DeskType, Same, Fields, Managed
  <2>7. \A x \in Ws : Distinct(t.list[x]) /\ ToSet(t.list[x]) = ToSet(s.list[x])
    BY <2>3, <2>4, <2>5, <1>1, <1>4 DEF Base, InLists
  <2>8. Frame(s, t)
    BY <2>6, <2>7, <1>4 DEF Frame, Same
  <2>9. /\ t.tileView = u.tileView /\ t.viewTile = u.viewTile
        /\ FocusedTile(t) = ft /\ CurrWs(t) = w
    BY <2>6, <2>8, FrameProperties DEF Same, Fields
  <2>10. Base(t, A, G)
    <3>1. /\ t.outputs = u.outputs /\ t.nws = u.nws /\ t.output = u.output
          /\ t.currWs = u.currWs /\ t.ftile = u.ftile /\ t.tileWs = u.tileWs
          /\ t.viewWs = u.viewWs /\ t.life = u.life /\ t.tree = u.tree
          /\ LiveWs(t) = LiveWs(u)
      BY <2>6 DEF Same, Fields, LiveWs
    <3>2. Placed(t, G) /\ Linked(t, A, G)
      BY <3>1, <2>9, <1>4 DEF Base, Placed, Linked
    <3>3. InLists(t, A)
      BY <3>1, <2>3, <2>7, <1>4 DEF Base, InLists
    <3> QED
      BY <2>6, <3>2, <3>3 DEF Base
  <2>11. Seated(t)
    <3>1. t.list[w] = l
      BY <2>3, <2>5, <1>1
    <3> QED
      BY <2>4, <2>6, <2>9, <3>1, <1>1, <1>4 DEF Seated, Base, DeskType
  <2>12. Sound(s) => Sound(t)
    <3>1. t.ub = (u.ub \/ (s.focus # NULL /\ s.life[s.focus] = "none")
                       \/ v \notin ToSet(s.list[w]))
      BY <2>2, <1>4 DEF Base, DeskType
    <3>2. t.life = u.life /\ t.tree = u.tree /\ u.life = s.life
      BY <2>6, <1>4 DEF Same, Fields
    <3> QED
      BY <3>1, <3>2, <2>1, <2>6, <1>2, <1>4, <1>6 DEF Sound
  <2> QED
    BY <2>8, <2>9, <2>10, <2>11, <2>12, <1>4 DEF t
<1> QED
  BY <1>5, <1>6

(* Focusing what the focused tile shows keeps what it shows.               *)
LEMMA RefocusSeats ==
  ASSUME NEW s, NEW A, NEW G, Base(s, A, G)
  PROVE  /\ Base(Refocus(s), A, G) /\ Seated(Refocus(s)) /\ Frame(s, Refocus(s))
         /\ Refocus(s).tileView = s.tileView
         /\ Sound(s) => Sound(Refocus(s))
<1> DEFINE v == s.tileView[FocusedTile(s)]
<1>1. FocusedTile(s) \in Tiles /\ CurrWs(s) \in Ws /\ s.tileWs[FocusedTile(s)] = CurrWs(s)
  BY CurrentProperties
<1>2. Focusable(s, v)
  <2>1. v # NULL => v \in ToSet(s.list[CurrWs(s)])
    BY <1>1 DEF Base, Linked, InLists
  <2>2. v # NULL => \A x \in Tiles : s.tileView[x] = v => x = FocusedTile(s)
    BY <1>1 DEF Base, Linked
  <2> QED
    BY <2>1, <2>2 DEF Focusable
<1>3. [s.tileView EXCEPT ![FocusedTile(s)] = v] = s.tileView
  BY <1>1 DEF Base, DeskType
<1> HIDE DEF v
<1>4. Refocus(s) = seat_set_focus(s, v)
  BY DEF Refocus, v
<1> QED
  BY <1>2, <1>3, <1>4, FocusSeats

(* Focusing an unmanaged view is a matter of the keyboard only.            *)
LEMMA UnmanagedFocus ==
  ASSUME NEW s \in DeskType, NEW v \in Unmanaged
  PROVE  /\ seat_set_focus(s, v) \in DeskType
         /\ Same(s, seat_set_focus(s, v), {"kb"})
         /\ seat_set_focus(s, v).kb \in {s.kb, v}
<1>1. v \in Views /\ v # NULL /\ v \notin Managed
  BY DesktopAssumption DEF Managed
<1>2. seat_set_focus(s, v) = [s EXCEPT !.kb = IF v \in WantsFocus THEN v ELSE @]
  BY <1>1 DEF seat_set_focus
<1> QED
  BY <1>1, <1>2 DEF DeskType, Same, Fields

(* The seat's part of the invariant reads these fields only.               *)
LEMMA SameKeepsSeat ==
  ASSUME NEW s, NEW t, Seated(s),
         t.output = s.output, t.currWs = s.currWs,
         t.ftile[CurrWs(s)] = s.ftile[CurrWs(s)],
         t.tileView[FocusedTile(s)] = s.tileView[FocusedTile(s)],
         s.focus # NULL => Last(t.list[CurrWs(s)]) = Last(s.list[CurrWs(s)]),
         t.focus = s.focus, t.kb \in Managed => t.kb = s.kb
  PROVE  Seated(t)
BY DEF Seated, FocusedTile, CurrWs

-----------------------------------------------------------------------------
(* Moving the focus.                                                       *)

(* The order in a list and what tiles show may change, and so may output.  *)
OutputFrame(s, t) ==
  /\ Same(s, t, {"output", "tileView", "viewTile", "list", "focus", "kb", "ub"})
  /\ \A w \in Ws : ToSet(t.list[w]) = ToSet(s.list[w])

(* Changing the current output leaves workspaces and tiles as they were.   *)
LEMMA OutputFrameProperties ==
  ASSUME NEW s, NEW t, OutputFrame(s, t)
  PROVE  /\ t.outputs = s.outputs /\ t.nws = s.nws
         /\ t.currWs = s.currWs /\ t.ftile = s.ftile /\ t.tileWs = s.tileWs
         /\ t.viewWs = s.viewWs /\ t.life = s.life /\ t.tree = s.tree
         /\ t.layer = s.layer /\ t.running = s.running
         /\ LiveWs(t) = LiveWs(s)
BY DEF OutputFrame, Same, Fields, LiveWs

(* set_output puts the seat on the view of the other output.               *)
LEMMA SetOutputSeats ==
  ASSUME NEW s, NEW A, NEW G, Base(s, A, G), NEW o \in ToSet(s.outputs)
  PROVE  LET t == set_output(s, o)
         IN  /\ Base(t, A, G) /\ Seated(t) /\ OutputFrame(s, t)
             /\ t.tileView = s.tileView /\ t.output = o
             /\ Sound(s) => Sound(t)
<1> DEFINE u == [s EXCEPT !.output = o]
<1>1. o \in Outputs
  BY EmptyList DEF Base, DeskType
<1>2. u \in DeskType /\ Same(s, u, {"output"}) /\ u.output = o
  BY <1>1 DEF Base, DeskType, Same, Fields
<1>3. set_output(s, o) = Refocus(u)
  BY DEF set_output
<1> HIDE DEF u
<1>4. /\ u.outputs = s.outputs /\ u.nws = s.nws
      /\ u.currWs = s.currWs /\ u.ftile = s.ftile /\ u.tileWs = s.tileWs
      /\ u.tileView = s.tileView /\ u.viewTile = s.viewTile /\ u.viewWs = s.viewWs
      /\ u.list = s.list /\ u.life = s.life /\ u.tree = s.tree
  BY <1>2 DEF Same, Fields
<1>5. LiveWs(u) = LiveWs(s)
  BY <1>4 DEF LiveWs
<1>6. Base(u, A, G)
  BY <1>2, <1>4, <1>5 DEF Base, Placed, Linked, InLists
<1>7. /\ Base(Refocus(u), A, G) /\ Seated(Refocus(u)) /\ Frame(u, Refocus(u))
      /\ Refocus(u).tileView = u.tileView
  BY <1>6, RefocusSeats
<1>10. Sound(s) => Sound(Refocus(u))
  <2>1. u.focus = s.focus /\ u.ub = s.ub
    BY <1>2 DEF Same, Fields
  <2>2. Sound(s) => Sound(u)
    BY <2>1, <1>4 DEF Sound
  <2> QED
    BY <2>2, <1>6, RefocusSeats
<1>8. OutputFrame(s, Refocus(u))
  BY <1>2, <1>4, <1>7 DEF OutputFrame, Frame, Same
<1>9. Refocus(u).output = o
  BY <1>2, <1>7, FrameProperties
<1> QED
  BY <1>3, <1>4, <1>7, <1>8, <1>9, <1>10

(* `nextoutput` and `prevoutput` always find an output, and with more than *)
(* one it is another one.                                                  *)
LEMMA CycleOutputsSeats ==
  ASSUME NEW s, NEW A, NEW G, Base(s, A, G), NEW reverse \in BOOLEAN
  PROVE  LET t == keybinding_cycle_outputs(s, reverse)
         IN  /\ Base(t, A, G) /\ Seated(t) /\ OutputFrame(s, t)
             /\ t.tileView = s.tileView
             /\ Sound(s) => Sound(t)
             /\ Len(s.outputs) > 1 => t.output # s.output
<1> DEFINE n == Len(s.outputs)
           k == IndexIn(s.outputs, s.output)
           i == IF reverse THEN IF k = 1 THEN n ELSE k - 1 ELSE IF k = n THEN 1 ELSE k + 1
<1>1. /\ s.outputs \in Seq(Outputs) /\ Distinct(s.outputs)
      /\ s.output \in ToSet(s.outputs)
  BY DEF Base, Placed, DeskType
<1>2. /\ k \in 1 .. n /\ s.outputs[k] = s.output /\ n \in Nat
      /\ DOMAIN s.outputs = 1 .. n
  BY <1>1, IndexInProperties, LenProperties
<1>3. keybinding_cycle_outputs(s, reverse) = set_output(s, s.outputs[i])
  BY DEF keybinding_cycle_outputs
<1> HIDE DEF k, n
<1>4. i \in DOMAIN s.outputs /\ (n > 1 => i # k)
  BY <1>2
<1> HIDE DEF i
<1>5. s.outputs[i] \in ToSet(s.outputs)
  BY <1>4 DEF ToSet
<1>6. n > 1 => s.outputs[i] # s.output
  BY <1>1, <1>2, <1>4 DEF Distinct
<1> QED
  BY <1>3, <1>5, <1>6, SetOutputSeats DEF n

(* workspace_focus_tile: any tile of a workspace may be its focused one.   *)
LEMMA FocusTileKeepsBase ==
  ASSUME NEW s, NEW A, NEW G, Base(s, A, G), NEW t \in Tiles, s.tileWs[t] \in LiveWs(s)
  PROVE  LET u == workspace_focus_tile(s, s.tileWs[t], t)
         IN  Base(u, A, G) /\ (Sound(s) => Sound(u))
<1> DEFINE w == s.tileWs[t]
           u == workspace_focus_tile(s, w, t)
<1>1. w \in Ws /\ t # NULL
  BY LiveProperties, DesktopAssumption DEF Base
<1>2. /\ u \in DeskType /\ Same(s, u, {"ftile"}) /\ u.ftile = [s.ftile EXCEPT ![w] = t]
  BY <1>1 DEF Base, DeskType, Same, Fields, workspace_focus_tile
<1> HIDE DEF u
<1>3. /\ u.outputs = s.outputs /\ u.nws = s.nws /\ u.output = s.output
      /\ u.currWs = s.currWs /\ u.tileWs = s.tileWs
      /\ u.tileView = s.tileView /\ u.viewTile = s.viewTile /\ u.viewWs = s.viewWs
      /\ u.list = s.list /\ u.life = s.life /\ u.tree = s.tree
  BY <1>2 DEF Same, Fields
<1>4. LiveWs(u) = LiveWs(s) /\ LiveWs(s) \subseteq Ws
  BY <1>3, LiveProperties DEF LiveWs, Base
<1>5. \A x \in LiveWs(s) : u.ftile[x] # NULL /\ s.tileWs[u.ftile[x]] = x
  BY <1>1, <1>2, <1>4 DEF Base, Placed, DeskType
<1>6. Placed(u, G)
  BY <1>3, <1>4, <1>5 DEF Base, Placed
<1>7. Linked(u, A, G) /\ InLists(u, A)
  BY <1>3, <1>4 DEF Base, Linked, InLists
<1>8. Sound(s) => Sound(u)
  <2>1. u.focus = s.focus /\ u.ub = s.ub
    BY <1>2 DEF Same, Fields
  <2> QED
    BY <2>1, <1>3 DEF Sound
<1> QED
  BY <1>2, <1>6, <1>7, <1>8 DEF Base, u

(* keybinding_switch_ws puts the seat on the view of the other workspace.  *)
LEMMA SwitchSeats ==
  ASSUME NEW s, NEW A, NEW G, Base(s, A, G), NEW i \in 0 .. s.nws - 1
  PROVE  LET t == keybinding_switch_ws(s, i)
         IN  /\ Base(t, A, G) /\ Seated(t) /\ t.tileWs = s.tileWs
             /\ LiveWs(t) = LiveWs(s)
             /\ Sound(s) => Sound(t)
<1> DEFINE u == [s EXCEPT !.currWs[s.output] = i]
<1>1. s.nws \in Nat /\ s.nws <= MaxWs /\ ~(i >= s.nws) /\ i \in 0 .. MaxWs - 1
      /\ s.output \in Outputs /\ ToSet(s.outputs) \subseteq Outputs
  BY EmptyList, DesktopAssumption DEF Base, DeskType
<1>2. keybinding_switch_ws(s, i) = Refocus(u)
  BY <1>1 DEF keybinding_switch_ws, workspace_focus
<1>3. /\ u \in DeskType /\ Same(s, u, {"currWs"})
      /\ u.currWs = [s.currWs EXCEPT ![s.output] = i]
  BY <1>1 DEF Base, DeskType, Same, Fields
<1> HIDE DEF u
<1>4. /\ u.outputs = s.outputs /\ u.nws = s.nws /\ u.output = s.output
      /\ u.ftile = s.ftile /\ u.tileWs = s.tileWs
      /\ u.tileView = s.tileView /\ u.viewTile = s.viewTile /\ u.viewWs = s.viewWs
      /\ u.list = s.list /\ u.life = s.life /\ u.tree = s.tree
  BY <1>3 DEF Same, Fields
<1>5. LiveWs(u) = LiveWs(s)
  BY <1>4 DEF LiveWs
<1>6. \A o \in ToSet(s.outputs) : u.currWs[o] < s.nws
  BY <1>1, <1>3 DEF Base, Placed, DeskType
<1>7. Base(u, A, G)
  BY <1>3, <1>4, <1>5, <1>6 DEF Base, Placed, Linked, InLists
<1>8. Sound(s) => Sound(u)
  <2>1. u.focus = s.focus /\ u.ub = s.ub
    BY <1>3 DEF Same, Fields
  <2> QED
    BY <2>1, <1>4 DEF Sound
<1>9. Sound(s) => Sound(Refocus(u))
  BY <1>7, <1>8, RefocusSeats
<1> QED
  BY <1>2, <1>4, <1>5, <1>7, <1>9, RefocusSeats, FrameProperties

(* `focus_tile`: whatever output and workspace the tile is on.             *)
LEMMA FocusTileSeats ==
  ASSUME NEW s, NEW A, NEW G, Base(s, A, G), NEW t \in Tiles, s.tileWs[t] \in LiveWs(s)
  PROVE  /\ Base(keybinding_focus_tile(s, t), A, G) /\ Seated(keybinding_focus_tile(s, t))
         /\ Sound(s) => Sound(keybinding_focus_tile(s, t))
<1> DEFINE w == s.tileWs[t]
           s1 == IF s.output # w[1] THEN set_output(s, w[1]) ELSE s
           s2 == IF s1.currWs[w[1]] # w[2] THEN keybinding_switch_ws(s1, w[2]) ELSE s1
           s3 == workspace_focus_tile(s2, w, t)
<1>1. keybinding_focus_tile(s, t) = Refocus(s3)
  BY DEF keybinding_focus_tile
<1>2. w[1] \in ToSet(s.outputs) /\ w[2] \in 0 .. s.nws - 1
  BY LiveProperties DEF Base
<1> HIDE DEF s1, s2, s3
<1>3. /\ Base(s1, A, G) /\ s1.tileWs = s.tileWs /\ s1.nws = s.nws /\ LiveWs(s1) = LiveWs(s)
      /\ Sound(s) => Sound(s1)
  BY <1>2, SetOutputSeats, OutputFrameProperties DEF s1
<1>4. /\ Base(s2, A, G) /\ s2.tileWs = s.tileWs /\ LiveWs(s2) = LiveWs(s)
      /\ Sound(s1) => Sound(s2)
  BY <1>2, <1>3, SwitchSeats DEF s2
<1>5. Base(s3, A, G) /\ (Sound(s2) => Sound(s3))
  BY <1>4, FocusTileKeepsBase DEF s3
<1> QED
  BY <1>1, <1>3, <1>4, <1>5, RefocusSeats

-----------------------------------------------------------------------------
(* Another view in a tile.                                                 *)

(* Showing a hidden view of its own workspace in a tile (next, prev).      *)
LEMMA ShowKeeps ==
  ASSUME NEW s, NEW A, NEW G, Base(s, A, G), NEW t \in Tiles,
         s.tileWs[t] \in LiveWs(s), NEW v \in ToSet(s.list[s.tileWs[t]]),
         ~view_is_visible(s, v)
  PROVE  LET r == ShowInTile(s, t, v)
         IN  /\ Base(r, A, G) /\ Frame(s, r)
             /\ r.tileView = [s.tileView EXCEPT ![t] = v]
             /\ t = FocusedTile(s) \/ Seated(s) => Seated(r)
             /\ Sound(s) => Sound(r)
<1> DEFINE u == workspace_tile_update_view(s, t, v)
           r == ShowInTile(s, t, v)
<1>1. s.tileWs[t] \in Ws /\ s.tileWs[t] \notin G \cup {NULL}
  BY LiveProperties, DesktopAssumption DEF Base, Placed
<1>2. v \in Managed \ A /\ v # NULL /\ s.life[v] = "mapped" /\ s.viewWs[v] = s.tileWs[t]
  BY <1>1, ListedIsHome
<1>3. \A x \in Tiles : s.tileView[x] # v
  BY <1>2, HiddenFits
<1>4. Fits(s, A, t, v)
  BY <1>2, <1>3 DEF Fits
<1>5. /\ Base(u, A, G) /\ Same(s, u, {"tileView", "viewTile", "ub"})
      /\ u.tileView = [s.tileView EXCEPT ![t] = v]
      /\ Sound(s) => Sound(u)
  BY <1>1, <1>4, UpdateKeepsBase
<1>6. r = IF t = FocusedTile(s) THEN seat_set_focus(u, v) ELSE u
  BY DEF ShowInTile
<1> HIDE DEF u, r
<1>7. Frame(s, u) /\ u.list = s.list
  BY <1>5 DEF Frame, Same, Fields
<1>8. FocusedTile(u) = FocusedTile(s) /\ CurrWs(u) = CurrWs(s)
  BY <1>7, FrameProperties
<1>9. s.tileView \in [Tiles -> Views \cup {NULL}]
  BY DEF Base, DeskType
<1>10. CASE t = FocusedTile(s)
  <2>1. s.tileWs[t] = CurrWs(s)
    BY <1>10, CurrentProperties
  <2>2. Focusable(u, v)
    BY <2>1, <1>3, <1>5, <1>7, <1>8, <1>9, <1>10 DEF Focusable
  <2>3. /\ Base(r, A, G) /\ Seated(r) /\ Frame(u, r)
        /\ r.tileView = [u.tileView EXCEPT ![t] = v]
        /\ Sound(u) => Sound(r)
    BY <2>2, <1>5, <1>6, <1>8, <1>10, FocusSeats
  <2>4. r.tileView = [s.tileView EXCEPT ![t] = v]
    BY <2>3, <1>5, <1>9
  <2> QED
    BY <2>3, <2>4, <1>5, <1>7, FrameTwice DEF r
<1>11. CASE t # FocusedTile(s)
  <2>1. r = u
    BY <1>6, <1>11
  <2>2. FocusedTile(s) \in Tiles
    BY CurrentProperties
  <2>3. u.tileView[FocusedTile(s)] = s.tileView[FocusedTile(s)]
    BY <2>2, <1>5, <1>9, <1>11
  <2>4. Seated(s) => Seated(u)
    <3>1. u.focus = s.focus /\ u.kb = s.kb /\ u.ftile = s.ftile
          /\ u.output = s.output /\ u.currWs = s.currWs
      BY <1>5 DEF Same, Fields
    <3> QED
      BY <3>1, <2>3, <1>7, SameKeepsSeat
  <2> QED
    BY <2>1, <2>4, <1>5, <1>7, <1>11 DEF r
<1> QED
  BY <1>10, <1>11

(* `next` and `prev` either find no hidden view and change nothing, or     *)
(* show one.                                                               *)
LEMMA CycleKeeps ==
  ASSUME NEW s, NEW A, NEW G, Base(s, A, G), NEW t \in Tiles,
         s.tileWs[t] \in LiveWs(s), NEW reverse \in BOOLEAN
  PROVE  LET r == keybinding_cycle_views(s, t, reverse)
         IN  \/ r = s
             \/ /\ Base(r, A, G) /\ Frame(s, r)
                /\ r.tileView[t] # NULL
                /\ r.tileView = [s.tileView EXCEPT ![t] = r.tileView[t]]
                /\ t = FocusedTile(s) \/ Seated(s) => Seated(r)
                /\ Sound(s) => Sound(r)
<1> DEFINE l == s.list[s.tileWs[t]]
           q == IF reverse THEN l ELSE Reverse(l)
           v == FirstHidden(s, q)
           r == keybinding_cycle_views(s, t, reverse)
<1>1. r = IF v = NULL THEN s ELSE ShowInTile(s, t, v)
  BY DEF keybinding_cycle_views
<1>2. l \in Seq(Managed)
  BY LiveProperties DEF Base, DeskType
<1>3. q \in Seq(Managed) /\ ToSet(q) = ToSet(l)
  BY <1>2, Reversed
<1> HIDE DEF l, q, r
<1>4. CASE v = NULL
  BY <1>1, <1>4 DEF r
<1>5. CASE v # NULL
  <2>1. v \in ToSet(q) /\ ~view_is_visible(s, v)
    BY <1>3, <1>5, FirstHiddenProperties
  <2> HIDE DEF v
  <2>2. v \in ToSet(s.list[s.tileWs[t]])
    BY <2>1, <1>3 DEF l
  <2>3. r = ShowInTile(s, t, v)
    BY <1>1, <1>5
  <2>4. /\ Base(r, A, G) /\ Frame(s, r)
        /\ r.tileView = [s.tileView EXCEPT ![t] = v]
        /\ t = FocusedTile(s) \/ Seated(s) => Seated(r)
        /\ Sound(s) => Sound(r)
    BY <2>1, <2>2, <2>3, ShowKeeps
  <2>5. r.tileView[t] = v
    BY <2>4 DEF Base, DeskType
  <2> QED
    BY <2>4, <2>5, <1>5 DEF r
<1> QED
  BY <1>4, <1>5

-----------------------------------------------------------------------------
(* Views that leave their lists and enter others.                          *)

(* wl_list_remove(&view->link): the hidden view v is away from the lists   *)
(* until it joins one, and no other list changes its end.                  *)
LEMMA UnlinkTakesAway ==
  ASSUME NEW s, NEW A, NEW G, Base(s, A, G), NEW v \in Views,
         \A x \in Tiles : s.tileView[x] # v
  PROVE  LET u == Unlink(s, v)
         IN  /\ Base(u, A \cup {v}, G) /\ Same(s, u, {"list"})
             /\ \A w \in Ws : /\ ToSet(u.list[w]) = ToSet(s.list[w]) \ {v}
                              /\ Last(s.list[w]) # v => Last(u.list[w]) = Last(s.list[w])
             /\ Sound(s) => Sound(u)
<1> DEFINE u == Unlink(s, v)
<1>1. \A w \in Ws : s.list[w] \in Seq(Managed) /\ Distinct(s.list[w])
  BY DEF Base, DeskType, InLists
<1>2. \A w \in Ws : LET r == wl_list_remove(s.list[w], v)
                    IN  /\ r \in Seq(Managed) /\ Distinct(r)
                        /\ ToSet(r) = ToSet(s.list[w]) \ {v}
                        /\ Last(s.list[w]) # v => Last(r) = Last(s.list[w])
  <2> TAKE w \in Ws
  <2>1. s.list[w] \in Seq(Managed) /\ Distinct(s.list[w])
    BY <1>1
  <2> QED
    BY <2>1, Removed
<1>3. u.list = [w \in Ws |-> wl_list_remove(s.list[w], v)] /\ Same(s, u, {"list"})
      /\ DOMAIN u = Fields /\ u = [f \in Fields |-> u[f]]
  BY DEF Unlink, Base, DeskType, Same, Fields
<1> HIDE DEF u
<1>4. \A w \in Ws : /\ u.list[w] \in Seq(Managed) /\ Distinct(u.list[w])
                    /\ ToSet(u.list[w]) = ToSet(s.list[w]) \ {v}
                    /\ Last(s.list[w]) # v => Last(u.list[w]) = Last(s.list[w])
  BY <1>2, <1>3
<1>5. u \in DeskType
  <2>1. u.list \in [Ws -> Seq(Managed)]
    BY <1>3, <1>4
  <2> QED
    BY <2>1, <1>3 DEF Base, DeskType, Same, Fields
<1>6. /\ u.outputs = s.outputs /\ u.nws = s.nws /\ u.output = s.output
      /\ u.currWs = s.currWs /\ u.ftile = s.ftile /\ u.tileWs = s.tileWs
      /\ u.tileView = s.tileView /\ u.viewTile = s.viewTile /\ u.viewWs = s.viewWs
      /\ u.life = s.life /\ u.tree = s.tree
  BY <1>3 DEF Same, Fields
<1>7. LiveWs(u) = LiveWs(s)
  BY <1>6 DEF LiveWs
<1>8. Placed(u, G)
  BY <1>6, <1>7 DEF Base, Placed
<1>9. Linked(u, A \cup {v}, G)
  BY <1>6 DEF Base, Linked
<1>10. InLists(u, A \cup {v})
  <2>1. \A x \in Managed, w \in Ws :
          x \in ToSet(u.list[w]) <=>
            u.life[x] = "mapped" /\ u.viewWs[x] = w /\ x \notin A \cup {v}
    BY <1>4, <1>6 DEF Base, InLists
  <2>2. \A x \in Views \ (A \cup {v}) : u.life[x] = "mapped" =>
          u.viewWs[x] \in LiveWs(u) /\ u.tree[x] = u.viewWs[x]
    BY <1>6, <1>7 DEF Base, InLists
  <2> QED
    BY <2>1, <2>2, <1>4 DEF InLists
<1>11. Sound(s) => Sound(u)
  <2>1. u.focus = s.focus /\ u.ub = s.ub
    BY <1>3 DEF Same, Fields
  <2> QED
    BY <2>1, <1>6 DEF Sound
<1> QED
  BY <1>3, <1>4, <1>5, <1>8, <1>9, <1>10, <1>11 DEF Base, u

(* A list that is not empty keeps its last element.                        *)
SameLast(s, t) ==
  \A w \in Ws : ToSet(s.list[w]) # {} => Last(t.list[w]) = Last(s.list[w])

(* A view that was away joins the list of w and its scene node the tree of *)
(* w.                                                                      *)
LEMMA JoinKeeps ==
  ASSUME NEW s, NEW A, NEW G, Base(s, A, G), NEW v \in Views, v \in A,
         s.life[v] = "mapped", NEW w \in LiveWs(s)
  PROVE  LET u == Reparent(JoinWs(s, v, w), v, w)
         IN  /\ Base(u, A \ {v}, G) /\ Same(s, u, {"list", "viewWs", "tree", "ub"})
             /\ u.viewWs = [s.viewWs EXCEPT ![v] = w]
             /\ (v \in Managed => v \in ToSet(u.list[w]))
             /\ SameLast(s, u)
             /\ Sound(s) => Sound(u)
<1> DEFINE u == Reparent(JoinWs(s, v, w), v, w)
           l == <<v>> \o s.list[w]
<1>1. w \in Ws /\ LiveWs(s) \subseteq Ws
  BY LiveProperties DEF Base
<1>2. s.list[w] \in Seq(Managed) /\ Distinct(s.list[w]) /\ s.list \in [Ws -> Seq(Managed)]
  BY <1>1 DEF Base, DeskType, InLists
<1>3. v \in Managed => \A x \in Ws : v \notin ToSet(s.list[x])
  BY DEF Base, InLists
<1>4. v \in Managed => /\ l \in Seq(Managed) /\ Distinct(l)
                       /\ ToSet(l) = ToSet(s.list[w]) \cup {v}
                       /\ ToSet(s.list[w]) # {} => Last(l) = Last(s.list[w])
  BY <1>1, <1>2, <1>3, Prepended
<1>5. /\ u.list = [s.list EXCEPT ![w] = IF v \in Managed THEN l ELSE @]
      /\ u.viewWs = [s.viewWs EXCEPT ![v] = w] /\ u.tree = [s.tree EXCEPT ![v] = w]
      /\ Same(s, u, {"list", "viewWs", "tree", "ub"})
      /\ u = [f \in Fields |-> u[f]] /\ u.ub \in BOOLEAN
  BY DEF Reparent, JoinWs, NodeDead, Base, DeskType, Same, Fields
<1>16. u.ub = (s.ub \/ NodeDead(s, v))
  BY DEF Reparent, JoinWs, NodeDead, Base, DeskType
<1> HIDE DEF u, l
<1>6. \A x \in Ws : /\ u.list[x] \in Seq(Managed) /\ Distinct(u.list[x])
                    /\ ToSet(u.list[x]) =
                         ToSet(s.list[x]) \cup IF x = w /\ v \in Managed THEN {v} ELSE {}
                    /\ ToSet(s.list[x]) # {} => Last(u.list[x]) = Last(s.list[x])
  <2> TAKE x \in Ws
  <2>1. s.list[x] \in Seq(Managed) /\ Distinct(s.list[x])
    BY DEF Base, DeskType, InLists
  <2>2. u.list[x] = IF x = w /\ v \in Managed THEN l ELSE s.list[x]
    BY <1>2, <1>5
  <2> QED
    BY <2>1, <2>2, <1>4
<1>7. u \in DeskType
  <2>1. u.list \in [Ws -> Seq(Managed)]
    BY <1>2, <1>5, <1>6
  <2>2. u.viewWs \in [Views -> Ws \cup {NULL}] /\ u.tree \in [Views -> Ws \cup {NULL}]
    BY <1>1, <1>5 DEF Base, DeskType
  <2> QED
    BY <2>1, <2>2, <1>5 DEF Base, DeskType, Same, Fields
<1>8. /\ u.outputs = s.outputs /\ u.nws = s.nws /\ u.output = s.output
      /\ u.currWs = s.currWs /\ u.ftile = s.ftile /\ u.tileWs = s.tileWs
      /\ u.tileView = s.tileView /\ u.viewTile = s.viewTile /\ u.life = s.life
  BY <1>5 DEF Same, Fields
<1>9. LiveWs(u) = LiveWs(s)
  BY <1>8 DEF LiveWs
<1>10. \A x \in Views : /\ u.viewWs[x] = IF x = v THEN w ELSE s.viewWs[x]
                        /\ u.tree[x] = IF x = v THEN w ELSE s.tree[x]
  BY <1>5 DEF Base, DeskType
<1>11. Placed(u, G)
  BY <1>8, <1>9 DEF Base, Placed
<1>12. Linked(u, A \ {v}, G)
  BY <1>8, <1>10 DEF Base, Linked, Managed
<1>13. InLists(u, A \ {v})
  <2>1. ASSUME NEW x \in Managed, NEW y \in Ws
        PROVE  x \in ToSet(u.list[y]) <=>
                 u.life[x] = "mapped" /\ u.viewWs[x] = y /\ x \notin A \ {v}
    <3>1. x \in Views
      BY DEF Managed
    <3>2. CASE x = v
      BY <3>1, <3>2, <1>3, <1>6, <1>8, <1>10
    <3>3. CASE x # v
      BY <3>1, <3>3, <1>6, <1>8, <1>10 DEF Base, InLists
    <3> QED
      BY <3>2, <3>3
  <2> QED
    BY <2>1, <1>6, <1>8, <1>9, <1>10 DEF Base, InLists
<1>14. v \in Managed => v \in ToSet(u.list[w])
  BY <1>1, <1>6
<1>15. SameLast(s, u)
  BY <1>6 DEF SameLast
<1>17. Sound(s) => Sound(u)
  <2>1. u.focus = s.focus
    BY <1>5 DEF Same, Fields
  <2>2. w # NULL
    BY <1>1, DesktopAssumption
  <2> QED
    BY <2>1, <2>2, <1>8, <1>10, <1>16 DEF Sound, NodeDead
<1> QED
  BY <1>5, <1>7, <1>11, <1>12, <1>13, <1>14, <1>15, <1>17 DEF Base, u

(* What view_unmap shows in the place of a view is another one of the same *)
(* workspace, and hidden.                                                  *)
LEMMA PrevProperties ==
  ASSUME NEW s, NEW A, NEW G, Base(s, A, G), NEW w \in Ws, NEW v \in ToSet(s.list[w]),
         view_get_prev_view(s, v) # NULL
  PROVE  LET p == view_get_prev_view(s, v)
         IN  p \in ToSet(s.list[w]) /\ p # v /\ ~view_is_visible(s, p)
<1> DEFINE seq == s.list[w]
<1>1. seq \in Seq(Managed) /\ Distinct(seq) /\ s.viewWs[v] = w
  <2>1. s.viewWs[v] = w
    BY ListedIsHome
  <2> QED
    BY <2>1 DEF Base, DeskType, InLists
<1>2. /\ IndexIn(seq, v) \in 1 .. Len(seq) /\ seq[IndexIn(seq, v)] = v
      /\ Len(seq) \in Nat /\ DOMAIN seq = 1 .. Len(seq)
  BY <1>1, IndexInProperties, LenProperties
<1>3. PICK k \in 1 .. Len(seq) : k = IndexIn(seq, v) /\ seq[k] = v
  BY <1>2
<1> DEFINE before == SubSeq(seq, 1, k - 1)
           after == SubSeq(seq, k + 1, Len(seq))
           q == Reverse(before) \o Reverse(after)
<1>4. view_get_prev_view(s, v) = FirstHidden(s, q)
  BY <1>1, <1>3 DEF view_get_prev_view
<1> HIDE DEF seq
<1>5. /\ before \in Seq(Managed) /\ Len(before) = k - 1
      /\ \A i \in 1 .. k - 1 : before[i] = seq[i]
      /\ after \in Seq(Managed) /\ Len(after) = Len(seq) - k
      /\ \A i \in 1 .. Len(seq) - k : after[i] = seq[k + i]
  BY <1>1, CutProperties
<1> HIDE DEF before, after
<1>6. DOMAIN before = 1 .. k - 1 /\ DOMAIN after = 1 .. Len(seq) - k
  BY <1>5, LenProperties
<1>7. ToSet(before) \subseteq ToSet(seq) \ {v}
  <2>1. \A i \in DOMAIN before : i \in DOMAIN seq /\ i # k /\ before[i] = seq[i]
    BY <1>2, <1>5, <1>6
  <2> QED
    BY <2>1, <1>1, <1>2, <1>3 DEF ToSet, Distinct
<1>8. ToSet(after) \subseteq ToSet(seq) \ {v}
  <2>1. \A n \in Nat : \A j \in 1 .. n : \A i \in 1 .. n - j : j + i \in 1 .. n /\ j + i # j
    OBVIOUS
  <2>2. \A i \in 1 .. Len(seq) - k : k + i \in 1 .. Len(seq) /\ k + i # k
    BY <2>1, <1>2, Zenon
  <2>3. \A i \in DOMAIN after : k + i \in DOMAIN seq /\ k + i # k /\ after[i] = seq[k + i]
    BY <2>2, <1>2, <1>5, <1>6, Zenon
  <2> QED
    BY <2>3, <1>1, <1>2, <1>3 DEF ToSet, Distinct
<1>9. q \in Seq(Managed) /\ ToSet(q) = ToSet(before) \cup ToSet(after)
  BY <1>5, Reversed, Concatenated
<1> HIDE DEF q
<1>10. FirstHidden(s, q) \in ToSet(q) /\ ~view_is_visible(s, FirstHidden(s, q))
  BY <1>4, <1>9, FirstHiddenProperties
<1> QED
  BY <1>4, <1>7, <1>8, <1>9, <1>10 DEF seq

-----------------------------------------------------------------------------
(* Surface life cycle.                                                     *)

(* The focused view is in the list of the current workspace.               *)
LEMMA FocusIsListed ==
  ASSUME NEW s, NEW A, NEW G, Base(s, A, G), Seated(s), s.focus # NULL
  PROVE  /\ s.focus \in Managed \ A /\ s.focus \in ToSet(s.list[CurrWs(s)])
         /\ s.viewWs[s.focus] = CurrWs(s)
<1>1. /\ FocusedTile(s) \in Tiles /\ CurrWs(s) \in Ws
      /\ s.tileWs[FocusedTile(s)] = CurrWs(s)
  BY CurrentProperties
<1> QED
  BY <1>1 DEF Base, Linked, InLists, Seated

(* view_init: the new surface is in no list and in no tile.                *)
LEMMA InitKeeps ==
  ASSUME NEW s, DeskInv(s), NEW v \in Views, s.life[v] = "none"
  PROVE  DeskInv(view_init(s, v)) /\ (Sound(s) => Sound(view_init(s, v)))
<1> DEFINE t == view_init(s, v)
<1>1. Base(s, {}, {}) /\ Seated(s)
  BY DEF DeskInv
<1>2. CurrWs(s) \in Ws
  BY <1>1, CurrentProperties
<1>3. /\ t \in DeskType /\ Same(s, t, {"life", "tree"})
      /\ t.life = [s.life EXCEPT ![v] = "unmapped"]
      /\ t.tree = [s.tree EXCEPT ![v] = CurrWs(s)]
  BY <1>1, <1>2 DEF Base, DeskType, view_init, Same, Fields
<1> HIDE DEF t
<1>4. /\ t.outputs = s.outputs /\ t.nws = s.nws /\ t.output = s.output
      /\ t.currWs = s.currWs /\ t.ftile = s.ftile /\ t.tileWs = s.tileWs
      /\ t.tileView = s.tileView /\ t.viewTile = s.viewTile /\ t.viewWs = s.viewWs
      /\ t.list = s.list /\ t.focus = s.focus /\ t.kb = s.kb
  BY <1>3 DEF Same, Fields
<1>5. LiveWs(t) = LiveWs(s)
  BY <1>4 DEF LiveWs
<1>6. Placed(t, {})
  BY <1>1, <1>4, <1>5 DEF Base, Placed
<1>7. \A x \in Views : /\ t.life[x] = IF x = v THEN "unmapped" ELSE s.life[x]
                       /\ x # v => t.tree[x] = s.tree[x]
  BY <1>1, <1>3 DEF Base, DeskType
<1>8. Linked(t, {}, {})
  BY <1>1, <1>4, <1>7 DEF Base, Linked, Managed
<1>9. InLists(t, {})
  BY <1>1, <1>4, <1>5, <1>7 DEF Base, InLists, Managed
<1>10. Seated(t)
  BY <1>1, <1>4, SameKeepsSeat
<1>11. Sound(s) => Sound(t)
  <2>1. t.ub = s.ub
    BY <1>3 DEF Same, Fields
  <2>2. CurrWs(s) # NULL
    BY <1>2, DesktopAssumption
  <2>3. t.tree[v] = CurrWs(s)
    BY <1>1, <1>3 DEF Base, DeskType
  <2>4. s.focus \in Views \cup {NULL}
    BY <1>1 DEF Base, DeskType
  <2> QED
    BY <2>1, <2>2, <2>3, <2>4, <1>4, <1>7 DEF Sound
<1> QED
  BY <1>11, <1>3, <1>6, <1>8, <1>9, <1>10 DEF DeskInv, Base, t

(* view_map: the view joins the current workspace and is focused in its    *)
(* focused tile.                                                           *)
LEMMA MapKeeps ==
  ASSUME NEW s, DeskInv(s), NEW v \in Views, s.life[v] = "unmapped"
  PROVE  DeskInv(view_map(s, v)) /\ (Sound(s) => Sound(view_map(s, v)))
<1> DEFINE w == CurrWs(s)
           s0 == [s EXCEPT !.life[v] = "mapped"]
           u == Reparent(JoinWs(s0, v, w), v, w)
<1>1. Base(s, {}, {}) /\ Seated(s)
  BY DEF DeskInv
<1>2. w \in LiveWs(s) /\ w \in Ws
  BY <1>1, CurrentProperties
<1>3. /\ s0 \in DeskType /\ Same(s, s0, {"life"})
      /\ s0.life = [s.life EXCEPT ![v] = "mapped"]
  BY <1>1 DEF Base, DeskType, Same, Fields
<1>4. view_map(s, v) = seat_set_focus(u, v)
  BY DEF view_map
<1> HIDE DEF w, s0, u
<1>5. /\ s0.outputs = s.outputs /\ s0.nws = s.nws /\ s0.output = s.output
      /\ s0.currWs = s.currWs /\ s0.ftile = s.ftile /\ s0.tileWs = s.tileWs
      /\ s0.tileView = s.tileView /\ s0.viewTile = s.viewTile /\ s0.viewWs = s.viewWs
      /\ s0.list = s.list /\ s0.focus = s.focus /\ s0.kb = s.kb /\ s0.tree = s.tree
  BY <1>3 DEF Same, Fields
<1>6. LiveWs(s0) = LiveWs(s)
  BY <1>5 DEF LiveWs
<1>7. \A x \in Views : s0.life[x] = IF x = v THEN "mapped" ELSE s.life[x]
  BY <1>1, <1>3 DEF Base, DeskType
<1>8. \A x \in Tiles : s.tileView[x] # v
  BY <1>1, DesktopAssumption DEF Base, Linked
<1>9. Base(s0, {v}, {})
  <2>1. Placed(s0, {})
    BY <1>1, <1>5, <1>6 DEF Base, Placed
  <2>2. Linked(s0, {v}, {})
    BY <1>1, <1>5, <1>7, <1>8 DEF Base, Linked, Managed
  <2>3. InLists(s0, {v})
    BY <1>1, <1>5, <1>6, <1>7 DEF Base, InLists, Managed
  <2> QED
    BY <1>3, <2>1, <2>2, <2>3 DEF Base
<1>10. /\ Base(u, {}, {}) /\ Same(s0, u, {"list", "viewWs", "tree", "ub"})
       /\ (v \in Managed => v \in ToSet(u.list[w]))
       /\ SameLast(s0, u)
       /\ Sound(s0) => Sound(u)
  <2>1. PICK A : A = {v}
    OBVIOUS
  <2>2. Base(s0, A, {}) /\ v \in A /\ s0.life[v] = "mapped" /\ w \in LiveWs(s0)
        /\ A \ {v} = {}
    BY <2>1, <1>2, <1>6, <1>7, <1>9
  <2>3. Base(u, A \ {v}, {})
    BY <2>2, JoinKeeps DEF u
  <2>4. Same(s0, u, {"list", "viewWs", "tree", "ub"})
    BY <2>2, JoinKeeps DEF u
  <2>5. v \in Managed => v \in ToSet(u.list[w])
    BY <2>2, JoinKeeps DEF u
  <2>6. SameLast(s0, u)
    BY <2>2, JoinKeeps DEF u
  <2>7. Sound(s0) => Sound(u)
    BY <2>2, JoinKeeps DEF u
  <2> QED
    BY <2>2, <2>3, <2>4, <2>5, <2>6, <2>7
<1>11. Base(u, {}, {})
  BY <1>10
<1>12. /\ u.tileView = s.tileView /\ u.output = s.output /\ u.currWs = s.currWs
       /\ u.ftile = s.ftile /\ u.focus = s.focus /\ u.kb = s.kb
  BY <1>5, <1>10 DEF Same, Fields
<1>13. CurrWs(u) = w
  BY <1>12 DEF CurrWs, w
<1>16. Sound(s) => Sound(u)
  <2>1. s0.ub = s.ub
    BY <1>3 DEF Same, Fields
  <2>2. s.focus \in Views \cup {NULL}
    BY <1>1 DEF Base, DeskType
  <2>3. Sound(s) => Sound(s0)
    BY <2>1, <2>2, <1>5, <1>7 DEF Sound
  <2> QED
    BY <2>3, <1>10
<1>14. CASE v \in Managed
  <2>1. Focusable(u, v)
    BY <1>8, <1>10, <1>12, <1>13, <1>14 DEF Focusable
  <2>2. /\ Base(seat_set_focus(u, v), {}, {}) /\ Seated(seat_set_focus(u, v))
        /\ Sound(u) => Sound(seat_set_focus(u, v))
    BY <2>1, <1>11, FocusSeats
  <2> QED
    BY <2>2, <1>4, <1>16 DEF DeskInv
<1>15. CASE v \notin Managed
  <2> DEFINE t == seat_set_focus(u, v)
  <2>1. v \in Unmanaged
    BY <1>15 DEF Managed
  <2>2. /\ t \in DeskType /\ Same(u, t, {"kb"}) /\ t.kb \in {u.kb, v}
    BY <2>1, <1>11, UnmanagedFocus DEF Base
  <2> HIDE DEF t
  <2>3. Base(t, {}, {})
    BY <2>2, <1>11, SameKeepsBase DEF Same
  <2>4. /\ t.tileView = s.tileView /\ t.output = s.output /\ t.currWs = s.currWs
        /\ t.ftile = s.ftile /\ t.focus = s.focus /\ t.list = u.list
    BY <2>2, <1>12 DEF Same, Fields
  <2>5. s.focus # NULL => ToSet(s.list[w]) # {}
    BY <1>1, FocusIsListed DEF w
  <2>6. s.focus # NULL => Last(t.list[CurrWs(s)]) = Last(s.list[CurrWs(s)])
    BY <2>4, <2>5, <1>2, <1>5, <1>10 DEF w, SameLast
  <2>7. t.kb \in Managed => t.kb = s.kb
    BY <2>2, <1>12, <1>15
  <2>8. Seated(t)
    BY <2>4, <2>6, <2>7, <1>1, SameKeepsSeat
  <2>9. Sound(u) => Sound(t)
    <3>1. t.ub = u.ub /\ t.life = u.life /\ t.tree = u.tree /\ t.focus = u.focus
      BY <2>2 DEF Same, Fields
    <3> QED
      BY <3>1 DEF Sound
  <2> QED
    BY <2>3, <2>8, <2>9, <1>4, <1>16 DEF DeskInv, t
<1> QED
  BY <1>14, <1>15

(* What view_unmap does before it unlinks the view: no tile shows it and   *)
(* the seat does not focus it any more.                                    *)
LEMMA UnmapHides ==
  ASSUME NEW s, DeskInv(s), NEW v \in Views, s.life[v] = "mapped"
  PROVE  \E u : /\ view_unmap(s, v) = [Unlink(u, v) EXCEPT !.life[v] = "unmapped"]
                /\ DeskInv(u) /\ Frame(s, u)
                /\ u.focus # v /\ \A x \in Tiles : u.tileView[x] # v
                /\ Sound(s) => Sound(u)
<1> DEFINE prev == view_get_prev_view(s, v)
           s1 == CASE v \in Managed /\ v = s.focus ->
                        seat_set_focus(s, prev)
                   [] v \in Managed /\ v # s.focus /\ s.kb = v ->
                        seat_set_focus(ClearKeyboard(s), s.focus)
                   [] v \in Unmanaged /\ s.kb \in {NULL, v} ->
                        seat_set_focus(s, s.focus)
                   [] OTHER -> s
           t  == view_get_tile(s1, v)
           s2 == IF v \in Managed /\ t # NULL
                 THEN workspace_tile_update_view(s1, t, prev) ELSE s1
<1>1. Base(s, {}, {}) /\ Seated(s) /\ v # NULL
  BY DesktopAssumption DEF DeskInv
<1>2. view_unmap(s, v) = [Unlink(s2, v) EXCEPT !.life[v] = "unmapped"]
  BY DEF view_unmap
<1>3. Frame(s, s)
  BY DEF Frame, Same
<1>4. v \notin Managed => \A x \in Tiles : s.tileView[x] # v
  BY <1>1 DEF Base, Linked
<1>5. v \in Managed => s.viewWs[v] \in Ws /\ v \in ToSet(s.list[s.viewWs[v]])
  BY <1>1, LiveProperties DEF Base, InLists
<1>6. prev # NULL /\ v \in Managed =>
        /\ prev \in ToSet(s.list[s.viewWs[v]]) /\ prev # v
        /\ ~view_is_visible(s, prev) /\ prev \in Managed /\ s.life[prev] = "mapped"
        /\ s.viewWs[prev] = s.viewWs[v]
  BY <1>1, <1>5, PrevProperties, ListedIsHome
<1>7. prev # NULL /\ v \in Managed => \A x \in Tiles : s.tileView[x] # prev
  BY <1>1, <1>6, HiddenFits
<1>8. /\ FocusedTile(s) \in Tiles /\ CurrWs(s) \in Ws
      /\ s.tileWs[FocusedTile(s)] = CurrWs(s)
      /\ s.tileView \in [Tiles -> Views \cup {NULL}]
  BY <1>1, CurrentProperties DEF Base, DeskType
<1>9. SUFFICES /\ DeskInv(s2) /\ Frame(s, s2)
               /\ s2.focus # v /\ \A x \in Tiles : s2.tileView[x] # v
               /\ Sound(s) => Sound(s2)
  <2> HIDE DEF s2
  <2> QED
    BY <1>2
<1>10. CASE v \in Managed /\ v = s.focus
  <2>1. s1 = seat_set_focus(s, prev)
    BY <1>10 DEF Managed
  <2> HIDE DEF prev, s1
  <2>2. s.viewWs[v] = CurrWs(s)
    BY <1>1, <1>10, FocusIsListed
  <2>3. Focusable(s, prev)
    BY <2>2, <1>6, <1>7, <1>10 DEF Focusable
  <2>4. /\ Base(s1, {}, {}) /\ Seated(s1) /\ Frame(s, s1)
        /\ s1.tileView = [s.tileView EXCEPT ![FocusedTile(s)] = prev]
        /\ Sound(s) => Sound(s1)
    BY <2>1, <2>3, <1>1, FocusSeats
  <2>5. \A x \in Tiles : s.tileView[x] = v => x = FocusedTile(s)
    BY <1>1, <1>8, <1>10 DEF Seated, Base, Linked
  <2>6. prev # v
    BY <1>1, <1>6, <1>10
  <2>7. \A x \in Tiles : s1.tileView[x] # v
    BY <2>4, <2>5, <2>6, <1>8
  <2>8. t = NULL
    BY <2>4, <2>7 DEF view_get_tile, Base, DeskType
  <2>9. s2 = s1
    BY <2>8
  <2>10. FocusedTile(s1) = FocusedTile(s)
    BY <2>4, FrameProperties
  <2>11. s1.focus # v
    BY <2>4, <2>7, <2>10, <1>8 DEF Seated
  <2> QED
    BY <2>4, <2>7, <2>9, <2>11 DEF DeskInv
<1>11. CASE v \in Managed /\ v # s.focus
  <2>1. s.kb # v
    BY <1>1, <1>11 DEF Seated
  <2>2. s1 = s
    BY <2>1, <1>11 DEF Managed
  <2> HIDE DEF prev, s1
  <2>3. CASE t = NULL
    <3>1. s2 = s
      BY <2>2, <2>3
    <3>2. \A x \in Tiles : s.tileView[x] # v
      BY <2>2, <2>3, <1>1, DesktopAssumption DEF view_get_tile, Base, Linked
    <3> QED
      BY <3>1, <3>2, <1>3, <1>11
  <2>4. CASE t # NULL
    <3>1. s2 = workspace_tile_update_view(s, t, prev)
      BY <2>2, <2>4, <1>11
    <3>2. t \in Tiles /\ s.tileView[t] = v
      BY <2>2, <2>4, <1>1 DEF view_get_tile, Base, DeskType
    <3> HIDE DEF t, s2
    <3>3. s.tileWs[t] \notin {} \cup {NULL} /\ s.tileWs[t] = s.viewWs[v]
      BY <3>2, <1>1 DEF Base, Linked
    <3>4. Fits(s, {}, t, prev)
      BY <3>3, <1>6, <1>7, <1>11 DEF Fits
    <3>5. /\ Base(s2, {}, {}) /\ Same(s, s2, {"tileView", "viewTile", "ub"})
          /\ s2.tileView = [s.tileView EXCEPT ![t] = prev]
          /\ Sound(s) => Sound(s2)
      BY <3>1, <3>2, <3>3, <3>4, <1>1, UpdateKeepsBase
    <3>6. /\ s2.output = s.output /\ s2.currWs = s.currWs /\ s2.ftile = s.ftile
          /\ s2.list = s.list /\ s2.focus = s.focus /\ s2.kb = s.kb
      BY <3>5 DEF Same, Fields
    <3>7. Frame(s, s2)
      BY <3>5, <3>6 DEF Frame, Same
    <3>8. t # FocusedTile(s)
      BY <3>2, <1>1, <1>11 DEF Seated
    <3>9. s2.tileView[FocusedTile(s)] = s.tileView[FocusedTile(s)]
      BY <3>5, <3>8, <1>8
    <3>10. Seated(s2)
      BY <3>6, <3>9, <1>1, SameKeepsSeat
    <3>11. \A x \in Tiles : s2.tileView[x] # v
      BY <3>2, <3>5, <1>1, <1>6, <1>8, <1>11 DEF Base, Linked
    <3> QED
      BY <3>5, <3>6, <3>7, <3>10, <3>11, <1>11 DEF DeskInv
  <2> QED
    BY <2>3, <2>4
<1>12. CASE v \notin Managed
  <2>1. s2 = s1
    BY <1>12
  <2>2. s1 = s \/ s1 = Refocus(s)
    <3>1. s1 = s \/ s1 = seat_set_focus(s, s.focus)
      BY <1>12
    <3> QED
      BY <3>1, <1>1 DEF Seated, Refocus
  <2> HIDE DEF s1, s2
  <2>3. /\ Base(s1, {}, {}) /\ Seated(s1) /\ Frame(s, s1) /\ s1.tileView = s.tileView
        /\ Sound(s) => Sound(s1)
    BY <2>2, <1>1, <1>3, RefocusSeats
  <2>4. FocusedTile(s1) = FocusedTile(s)
    BY <2>3, FrameProperties
  <2>5. s1.focus # v
    BY <2>3, <2>4, <1>4, <1>8, <1>12 DEF Seated
  <2> QED
    BY <2>1, <2>3, <2>5, <1>4, <1>12 DEF DeskInv
<1> QED
  BY <1>10, <1>11, <1>12


(* view_unmap: the tile, the seat and the keyboard get the previous view   *)
(* before v leaves its list.                                               *)
LEMMA UnmapKeeps ==
  ASSUME NEW s, DeskInv(s), NEW v \in Views, s.life[v] = "mapped"
  PROVE  /\ DeskInv(view_unmap(s, v)) /\ view_unmap(s, v).life[v] = "unmapped"
         /\ view_unmap(s, v).tree = s.tree
         /\ Sound(s) => Sound(view_unmap(s, v))
<1>1. PICK u : /\ view_unmap(s, v) = [Unlink(u, v) EXCEPT !.life[v] = "unmapped"]
               /\ DeskInv(u) /\ Frame(s, u)
               /\ u.focus # v /\ \A x \in Tiles : u.tileView[x] # v
               /\ Sound(s) => Sound(u)
  BY UnmapHides
<1> DEFINE r == Unlink(u, v)
           t == [r EXCEPT !.life[v] = "unmapped"]
<1>2. Base(u, {}, {}) /\ Seated(u)
  BY <1>1 DEF DeskInv
<1>3. PICK A : A = {}
  OBVIOUS
<1>4. /\ Base(r, A \cup {v}, {}) /\ Same(u, r, {"list"})
      /\ \A w \in Ws : /\ ToSet(r.list[w]) = ToSet(u.list[w]) \ {v}
                       /\ Last(u.list[w]) # v => Last(r.list[w]) = Last(u.list[w])
      /\ Sound(u) => Sound(r)
  BY <1>1, <1>2, <1>3, UnlinkTakesAway
<1> HIDE DEF r
<1>5. Base(r, {v}, {})
  BY <1>3, <1>4
<1>6. /\ t \in DeskType /\ Same(r, t, {"life"})
      /\ t.life = [r.life EXCEPT ![v] = "unmapped"]
  BY <1>5 DEF Base, DeskType, Same, Fields
<1>7. view_unmap(s, v) = t
  BY <1>1 DEF r
<1> HIDE DEF t
<1>8. /\ t.outputs = r.outputs /\ t.nws = r.nws /\ t.output = r.output
      /\ t.currWs = r.currWs /\ t.ftile = r.ftile /\ t.tileWs = r.tileWs
      /\ t.tileView = r.tileView /\ t.viewTile = r.viewTile /\ t.viewWs = r.viewWs
      /\ t.list = r.list /\ t.tree = r.tree
  BY <1>6 DEF Same, Fields
<1>9. LiveWs(t) = LiveWs(r)
  BY <1>8 DEF LiveWs
<1>10. \A x \in Views : t.life[x] = IF x = v THEN "unmapped" ELSE r.life[x]
  BY <1>5, <1>6 DEF Base, DeskType
<1>11. Placed(t, {})
  BY <1>5, <1>8, <1>9 DEF Base, Placed
<1>12. Linked(t, {}, {})
  BY <1>5, <1>8, <1>10 DEF Base, Linked, Managed
<1>13. InLists(t, {})
  BY <1>5, <1>8, <1>9, <1>10 DEF Base, InLists, Managed
<1>14. /\ t.output = u.output /\ t.currWs = u.currWs /\ t.ftile = u.ftile
       /\ t.tileView = u.tileView /\ t.focus = u.focus /\ t.kb = u.kb
  BY <1>4, <1>6 DEF Same, Fields
<1>15. u.focus # NULL => Last(t.list[CurrWs(u)]) = Last(u.list[CurrWs(u)])
  <2>1. CurrWs(u) \in Ws
    BY <1>2, CurrentProperties
  <2> QED
    BY <2>1, <1>1, <1>2, <1>4, <1>8 DEF Seated
<1>16. Seated(t)
  BY <1>2, <1>14, <1>15, SameKeepsSeat
<1>17. Sound(s) => Sound(t)
  <2>1. t.ub = r.ub /\ t.focus = r.focus
    BY <1>6 DEF Same, Fields
  <2>2. r.focus \in Views \cup {NULL}
    BY <1>5 DEF Base, DeskType
  <2>3. ASSUME Sound(r) PROVE Sound(t)
    <3>1. /\ ~r.ub /\ \A x \in Views : r.life[x] # "none" => r.tree[x] # NULL
          /\ r.focus # NULL => r.life[r.focus] # "none"
      BY <2>3 DEF Sound
    <3>2. r.life[v] = "mapped"
      <4>1. r.life = u.life
        BY <1>4 DEF Same, Fields
      <4>2. u.life = s.life
        BY <1>1, FrameProperties
      <4> QED
        BY <4>1, <4>2
    <3>3. \A x \in Views : t.life[x] # "none" => t.tree[x] # NULL
      BY <3>1, <3>2, <1>8, <1>10
    <3>4. t.focus # NULL => t.life[t.focus] # "none"
      BY <3>1, <2>1, <2>2, <1>10
    <3> QED
      BY <3>1, <3>3, <3>4, <2>1 DEF Sound
  <2> QED
    BY <2>3, <1>1, <1>4
<1>18. t.tree = s.tree
  <2>1. r.tree = u.tree
    BY <1>4 DEF Same, Fields
  <2> QED
    BY <2>1, <1>1, <1>8, FrameProperties
<1> QED
  BY <1>6, <1>7, <1>10, <1>11, <1>12, <1>13, <1>16, <1>17, <1>18 DEF DeskInv, Base

(* view_destroy unmaps the view first, so that nothing points to it any    *)
(* more.                                                                   *)
LEMMA DestroyKeeps ==
  ASSUME NEW s, DeskInv(s), NEW v \in Views, s.life[v] # "none"
  PROVE  DeskInv(view_destroy(s, v)) /\ (Sound(s) => Sound(view_destroy(s, v)))
<1> DEFINE s1 == IF s.life[v] = "mapped" THEN view_unmap(s, v) ELSE s
           t == [s1 EXCEPT !.life[v] = "none", !.viewTile[v] = NULL,
                           !.viewWs[v] = NULL, !.tree[v] = NULL,
                           !.ub = @ \/ NodeDead(s, v)
                                    \/ \E x \in Tiles : s1.tileView[x] = v]
<1>1. view_destroy(s, v) = t
  BY DEF view_destroy
<1>2. DeskInv(s1) /\ s1.life[v] # "mapped" /\ (Sound(s) => Sound(s1))
  BY UnmapKeeps
<1> HIDE DEF s1
<1>3. Base(s1, {}, {}) /\ Seated(s1)
  BY <1>2 DEF DeskInv
<1>4. /\ t \in DeskType /\ Same(s1, t, {"life", "viewTile", "viewWs", "tree", "ub"})
      /\ t.life = [s1.life EXCEPT ![v] = "none"]
      /\ t.viewTile = [s1.viewTile EXCEPT ![v] = NULL]
      /\ t.viewWs = [s1.viewWs EXCEPT ![v] = NULL]
      /\ t.tree = [s1.tree EXCEPT ![v] = NULL]
  BY <1>3 DEF Base, DeskType, Same, Fields, NodeDead
<1>12. t.ub = (s1.ub \/ NodeDead(s, v) \/ \E x \in Tiles : s1.tileView[x] = v)
  BY <1>3 DEF Base, DeskType
<1> HIDE DEF t
<1>5. /\ t.outputs = s1.outputs /\ t.nws = s1.nws /\ t.output = s1.output
      /\ t.currWs = s1.currWs /\ t.ftile = s1.ftile /\ t.tileWs = s1.tileWs
      /\ t.tileView = s1.tileView /\ t.list = s1.list /\ t.focus = s1.focus
      /\ t.kb = s1.kb
  BY <1>4 DEF Same, Fields
<1>6. LiveWs(t) = LiveWs(s1)
  BY <1>5 DEF LiveWs
<1>7. /\ \A x \in Views \ {v} : /\ t.life[x] = s1.life[x] /\ t.viewTile[x] = s1.viewTile[x]
                                /\ t.viewWs[x] = s1.viewWs[x] /\ t.tree[x] = s1.tree[x]
      /\ t.life[v] = "none"
  BY <1>3, <1>4 DEF Base, DeskType
<1>8. Placed(t, {})
  BY <1>3, <1>5, <1>6 DEF Base, Placed
<1>9. Linked(t, {}, {})
  <2>1. \A x \in Tiles : s1.tileView[x] # NULL =>
          s1.tileView[x] # v /\ s1.tileView[x] \in Views
    BY <1>2, <1>3 DEF Base, Linked, Managed
  <2> QED
    BY <2>1, <1>3, <1>5, <1>7 DEF Base, Linked
<1>10. InLists(t, {})
  BY <1>2, <1>3, <1>5, <1>6, <1>7 DEF Base, InLists, Managed
<1>11. Seated(t)
  BY <1>3, <1>5, SameKeepsSeat
<1>13. Sound(s) => Sound(t)
  <2>1. ~NodeDead(s, v) \/ ~Sound(s)
    BY DEF NodeDead, Sound
  <2>2. \A x \in Tiles : s1.tileView[x] # v
    BY <1>2, <1>3, DesktopAssumption DEF Base, Linked
  <2>3. s1.focus # NULL => s1.focus \in Views \ {v}
    <3>1. FocusedTile(s1) \in Tiles
      BY <1>3, CurrentProperties
    <3> QED
      BY <3>1, <2>2, <1>3 DEF Seated, Base, DeskType
  <2>4. Sound(s) => ~t.ub
    BY <2>1, <2>2, <1>2, <1>12, Zenon DEF Sound
  <2> QED
    BY <2>3, <2>4, <1>2, <1>5, <1>7 DEF Sound
<1> QED
  BY <1>13, <1>1, <1>4, <1>8, <1>9, <1>10, <1>11 DEF DeskInv, Base

(* The keyboard's focus may go anywhere but to another managed view, and   *)
(* the flags are free.                                                     *)
LEMMA SeatKeeps ==
  ASSUME NEW s, DeskInv(s), NEW t \in DeskType,
         Same(s, t, {"kb", "layer", "running", "ub"}), t.kb \in Managed => t.kb = s.kb
  PROVE  DeskInv(t)
<1>1. /\ t.output = s.output /\ t.currWs = s.currWs /\ t.ftile = s.ftile
      /\ t.tileView = s.tileView /\ t.list = s.list /\ t.focus = s.focus
  BY DEF Same, Fields
<1>2. Seated(t)
  BY <1>1, SameKeepsSeat DEF DeskInv
<1>3. Base(t, {}, {})
  BY SameKeepsBase DEF DeskInv, Same
<1> QED
  BY <1>2, <1>3 DEF DeskInv

-----------------------------------------------------------------------------
(* Commands on tiles.                                                      *)

(* keybinding_split_output: the new tile n shows a hidden view.            *)
LEMMA SplitKeeps ==
  ASSUME NEW s, DeskInv(s), NEW n \in FreeTiles(s)
  PROVE  /\ DeskInv(keybinding_split_output(s, n))
         /\ Sound(s) => Sound(keybinding_split_output(s, n))
<1> DEFINE w == CurrWs(s)
           ft == FocusedTile(s)
           orig == s.focus
           rest == wl_list_remove(s.list[w], orig)
           next == FirstHidden(s, rest)
           s0 == [s EXCEPT !.tileWs[n] = w]
           s1 == workspace_tile_update_view(s0, n, next)
           t == IF orig = NULL THEN s1 ELSE view_maximize(s1, orig, ft)
<1>1. keybinding_split_output(s, n) = t
  BY DEF keybinding_split_output
<1>2. /\ Base(s, {}, {}) /\ Seated(s) /\ n \in Tiles /\ s.tileWs[n] = NULL
      /\ NULL \notin Ws
  BY DesktopAssumption DEF DeskInv, FreeTiles
<1>3. /\ ft \in Tiles /\ w \in Ws /\ s.tileWs[ft] = w /\ w # NULL /\ ft # n
      /\ w \in LiveWs(s) /\ ft = s.ftile[w]
  BY <1>2, CurrentProperties
<1>4. next # NULL => /\ next \in ToSet(s.list[w]) /\ next # orig
                     /\ \A x \in Tiles : s.tileView[x] # next
  <2>1. /\ rest \in Seq(Managed) /\ ToSet(rest) = ToSet(s.list[w]) \ {orig}
        /\ ToSet(rest) \subseteq Managed
    <3>1. s.list[w] \in Seq(Managed) /\ Distinct(s.list[w])
      BY <1>2, <1>3 DEF Base, DeskType, InLists
    <3>2. rest \in Seq(Managed) /\ ToSet(rest) = ToSet(s.list[w]) \ {orig}
      BY <3>1, Removed
    <3> QED
      BY <3>2, EmptyList
  <2> HIDE DEF rest
  <2>2. next # NULL => next \in ToSet(rest) /\ ~view_is_visible(s, next)
    BY <2>1, FirstHiddenProperties
  <2> HIDE DEF next
  <2> QED
    BY <2>1, <2>2, <1>2, HiddenFits
<1> HIDE DEF next, s0, s1, t, w, ft
<1>5. /\ s0 \in DeskType /\ Same(s, s0, {"tileWs"})
      /\ s0.tileWs = [s.tileWs EXCEPT ![n] = w]
  BY <1>2, <1>3, ZenonT(40) DEF s0, Base, DeskType, Same, Fields
<1>6. /\ s0.outputs = s.outputs /\ s0.nws = s.nws /\ s0.output = s.output
      /\ s0.currWs = s.currWs /\ s0.ftile = s.ftile
      /\ s0.tileView = s.tileView /\ s0.viewTile = s.viewTile /\ s0.viewWs = s.viewWs
      /\ s0.list = s.list /\ s0.life = s.life /\ s0.tree = s.tree
      /\ s0.focus = s.focus /\ s0.kb = s.kb
  BY <1>5 DEF Same, Fields
<1>7. LiveWs(s0) = LiveWs(s) /\ LiveWs(s) \subseteq Ws
  BY <1>2, <1>6, LiveProperties DEF LiveWs, Base
<1>8. \A x \in Tiles : s0.tileWs[x] = IF x = n THEN w ELSE s.tileWs[x]
  BY <1>2, <1>5 DEF Base, DeskType
<1>9. Base(s0, {}, {})
  <2>1. \A x \in LiveWs(s) : s.ftile[x] # n /\ s.ftile[x] \in Tiles
    BY <1>2, <1>7 DEF Base, Placed, DeskType
  <2>2. Placed(s0, {})
    BY <2>1, <1>2, <1>3, <1>6, <1>7, <1>8 DEF Base, Placed
  <2>3. Linked(s0, {}, {})
    BY <1>2, <1>6, <1>8 DEF Base, Linked
  <2>4. InLists(s0, {})
    BY <1>2, <1>6, <1>7 DEF Base, InLists
  <2> QED
    BY <2>2, <2>3, <2>4, <1>5 DEF Base
<1>10. Fits(s0, {}, n, next)
  BY <1>2, <1>3, <1>4, <1>6, <1>8, ListedIsHome DEF Fits
<1>11. /\ Base(s1, {}, {}) /\ Same(s0, s1, {"tileView", "viewTile", "ub"})
       /\ s1.tileView = [s0.tileView EXCEPT ![n] = next]
       /\ Sound(s0) => Sound(s1)
  BY <1>2, <1>3, <1>8, <1>9, <1>10, UpdateKeepsBase DEF s1
<1>12. \A x \in Tiles : s1.tileView[x] = IF x = n THEN next ELSE s.tileView[x]
  BY <1>2, <1>6, <1>11 DEF Base, DeskType
<1>13. \A x \in Tiles : s.tileView[x] = orig /\ orig # NULL => x = ft
  BY <1>2, <1>3 DEF Base, Linked, Seated, ft
<1>14. Base(t, {}, {}) /\ Same(s1, t, {"viewTile", "ub"}) /\ (Sound(s1) => Sound(t))
  <2>1. CASE orig = NULL
    BY <2>1, <1>11 DEF t, Same
  <2>2. CASE orig # NULL
    <3>1. \A x \in Tiles : s1.tileView[x] = orig => x = ft
      BY <2>2, <1>4, <1>12, <1>13
    <3>2. orig \in Views
      BY <2>2, <1>2 DEF Base, DeskType
    <3>3. s1.focus = orig
      BY <1>6, <1>11 DEF Same, Fields
    <3>4. Sound(s1) => s1.life[orig] # "none"
      BY <2>2, <3>3 DEF Sound
    <3> QED
      BY <2>2, <3>1, <3>2, <3>4, <1>3, <1>11, MaximizeKeepsBase DEF t
  <2> QED
    BY <2>1, <2>2
<1>15. /\ t.output = s.output /\ t.currWs = s.currWs /\ t.ftile = s.ftile
       /\ t.tileView = s1.tileView /\ t.list = s.list /\ t.focus = s.focus
       /\ t.kb = s.kb
  BY <1>6, <1>11, <1>14 DEF Same, Fields
<1>16. Seated(t)
  BY <1>2, <1>3, <1>12, <1>15, SameKeepsSeat DEF ft
<1>17. Sound(s) => Sound(t)
  <2>1. s0.ub = s.ub
    BY <1>5 DEF Same, Fields
  <2>2. Sound(s) => Sound(s0)
    BY <2>1, <1>6 DEF Sound
  <2> QED
    BY <2>2, <1>11, <1>14
<1> QED
  BY <1>1, <1>14, <1>16, <1>17 DEF DeskInv

(* `merge*` from the focused tile.                                         *)
LEMMA MergeKeeps ==
  ASSUME NEW s, DeskInv(s), NEW m \in Tiles, m # FocusedTile(s),
         s.tileWs[m] = s.tileWs[FocusedTile(s)]
  PROVE  /\ DeskInv(merge_tile(s, FocusedTile(s), m))
         /\ Sound(s) => Sound(merge_tile(s, FocusedTile(s), m))
<1> DEFINE ft == FocusedTile(s)
           w == s.tileWs[ft]
           s1 == workspace_tile_update_view(s, m, NULL)
           s2 == [s1 EXCEPT !.ftile[w] = IF @ = m THEN ft ELSE @, !.tileWs[m] = NULL]
           t == IF s2.tileView[ft] = NULL THEN s2
                ELSE view_maximize(s2, s2.tileView[ft], ft)
<1>1. merge_tile(s, FocusedTile(s), m) = t
  BY DEF merge_tile
<1>2. Base(s, {}, {}) /\ Seated(s) /\ m # ft /\ s.tileWs[m] = w
  BY DEF DeskInv
<1>3. /\ ft \in Tiles /\ w \in Ws /\ w = CurrWs(s) /\ ft = s.ftile[w] /\ w # NULL
      /\ w \in LiveWs(s)
  BY <1>2, CurrentProperties
<1> HIDE DEF s1, s2, t, w, ft
<1>4. /\ Base(s1, {}, {}) /\ Same(s, s1, {"tileView", "viewTile", "ub"})
      /\ s1.tileView = [s.tileView EXCEPT ![m] = NULL]
      /\ Sound(s) => Sound(s1)
  BY <1>2, <1>3, UpdateKeepsBase DEF s1, Fits
<1>5. s1.ftile = s.ftile /\ s1.tileWs = s.tileWs /\ LiveWs(s1) = LiveWs(s)
  BY <1>4 DEF Same, Fields, LiveWs
<1>6. s1.tileView[m] = NULL /\ \A x \in Tiles \ {m} : s1.tileView[x] = s.tileView[x]
  BY <1>2, <1>4 DEF Base, DeskType
<1>7. /\ s2 \in DeskType /\ Same(s1, s2, {"ftile", "tileWs"})
      /\ s2.ftile = s1.ftile /\ s2.tileWs = [s1.tileWs EXCEPT ![m] = NULL]
  <2>1. /\ s2 \in DeskType /\ Same(s1, s2, {"ftile", "tileWs"})
        /\ s2.ftile = [s1.ftile EXCEPT ![w] = IF @ = m THEN ft ELSE @]
        /\ s2.tileWs = [s1.tileWs EXCEPT ![m] = NULL]
    BY <1>3, <1>4 DEF s2, Base, DeskType, Same, Fields
  <2>2. s1.ftile[w] # m /\ s1.ftile \in [Ws -> Tiles \cup {NULL}]
    BY <1>2, <1>3, <1>4, <1>5 DEF Base, DeskType
  <2> QED
    BY <2>1, <2>2, <1>3
<1>8. /\ s2.outputs = s1.outputs /\ s2.nws = s1.nws /\ s2.output = s1.output
      /\ s2.currWs = s1.currWs
      /\ s2.tileView = s1.tileView /\ s2.viewTile = s1.viewTile /\ s2.viewWs = s1.viewWs
      /\ s2.list = s1.list /\ s2.life = s1.life /\ s2.tree = s1.tree
      /\ s2.focus = s1.focus /\ s2.kb = s1.kb
  BY <1>7 DEF Same, Fields
<1>9. LiveWs(s2) = LiveWs(s1) /\ LiveWs(s1) \subseteq Ws
  BY <1>4, <1>8, LiveProperties DEF LiveWs, Base
<1>10. \A x \in Tiles : s2.tileWs[x] = IF x = m THEN NULL ELSE s1.tileWs[x]
  BY <1>4, <1>7 DEF Base, DeskType
<1>11. Base(s2, {}, {})
  <2>1. \A x \in LiveWs(s1) : s1.ftile[x] # m /\ s1.ftile[x] \in Tiles
    BY <1>2, <1>3, <1>4, <1>5, <1>9 DEF Base, Placed, DeskType
  <2>2. Placed(s2, {})
    BY <2>1, <1>4, <1>7, <1>8, <1>9, <1>10 DEF Base, Placed
  <2>3. Linked(s2, {}, {})
    BY <1>4, <1>6, <1>8, <1>10 DEF Base, Linked
  <2>4. InLists(s2, {})
    BY <1>4, <1>8, <1>9 DEF Base, InLists
  <2> QED
    BY <2>2, <2>3, <2>4, <1>7 DEF Base
<1>12. Base(t, {}, {}) /\ Same(s2, t, {"viewTile", "ub"}) /\ (Sound(s2) => Sound(t))
  <2>1. CASE s2.tileView[ft] = NULL
    BY <2>1, <1>11 DEF t, Same
  <2>2. CASE s2.tileView[ft] # NULL
    <3>1. s2.tileView[ft] \in Views
      BY <2>2, <1>3, <1>11 DEF Base, DeskType
    <3>2. \A x \in Tiles : s2.tileView[x] = s2.tileView[ft] => x = ft
      BY <2>2, <1>3, <1>11 DEF Base, Linked
    <3>3. s2.life[s2.tileView[ft]] # "none"
      BY <2>2, <1>3, <1>11 DEF Base, Linked
    <3> QED
      BY <2>2, <3>1, <3>2, <3>3, <1>3, <1>11, MaximizeKeepsBase DEF t
  <2> QED
    BY <2>1, <2>2
<1>13. /\ t.output = s.output /\ t.currWs = s.currWs /\ t.ftile = s.ftile
       /\ t.tileView = s1.tileView /\ t.list = s.list /\ t.focus = s.focus
       /\ t.kb = s.kb
  BY <1>4, <1>7, <1>8, <1>12 DEF Same, Fields
<1>14. Seated(t)
  BY <1>2, <1>3, <1>6, <1>13, SameKeepsSeat DEF ft
<1>15. Sound(s) => Sound(t)
  <2>1. s2.ub = s1.ub
    BY <1>7 DEF Same, Fields
  <2>2. Sound(s1) => Sound(s2)
    BY <2>1, <1>8 DEF Sound
  <2> QED
    BY <2>2, <1>4, <1>12
<1> QED
  BY <1>1, <1>12, <1>14, <1>15 DEF DeskInv

(* The exchange of two tiles of one workspace.                             *)
LEMMA SwapKeeps ==
  ASSUME NEW s, DeskInv(s), NEW t \in Tiles, NEW u \in Tiles, t # u,
         s.tileWs[t] = s.tileWs[u], s.tileWs[t] # NULL, NEW follow \in BOOLEAN
  PROVE  /\ DeskInv(swap_tiles(s, t, u, follow))
         /\ Sound(s) => Sound(swap_tiles(s, t, u, follow))
<1> DEFINE a == s.tileView[t]
           b == s.tileView[u]
           s1 == workspace_tile_update_view(s, t, NULL)
           s2 == workspace_tile_update_view(s1, u, a)
           s3 == workspace_tile_update_view(s2, t, b)
<1>1. swap_tiles(s, t, u, follow) =
        IF follow THEN keybinding_focus_tile(s3, u) ELSE Refocus(s3)
  BY DEF swap_tiles
<1>2. Base(s, {}, {}) /\ s.tileWs[u] \in LiveWs(s)
  BY DEF DeskInv, Base, Placed
<1> HIDE DEF s1, s2, s3, a, b
<1>3. /\ Base(s1, {}, {}) /\ Same(s, s1, {"tileView", "viewTile", "ub"})
      /\ s1.tileView = [s.tileView EXCEPT ![t] = NULL]
  BY <1>2, UpdateKeepsBase DEF s1, Fits
<1>4. /\ s1.tileWs = s.tileWs /\ s1.life = s.life /\ s1.viewWs = s.viewWs
      /\ LiveWs(s1) = LiveWs(s)
      /\ \A x \in Tiles : s1.tileView[x] = IF x = t THEN NULL ELSE s.tileView[x]
  BY <1>2, <1>3 DEF Same, Fields, Base, DeskType, LiveWs
<1>5. Fits(s1, {}, u, a)
  BY <1>2, <1>4 DEF Fits, Base, Linked, a
<1>6. /\ Base(s2, {}, {}) /\ Same(s1, s2, {"tileView", "viewTile", "ub"})
      /\ s2.tileView = [s1.tileView EXCEPT ![u] = a]
  BY <1>3, <1>4, <1>5, UpdateKeepsBase DEF s2
<1>7. /\ s2.tileWs = s.tileWs /\ s2.life = s.life /\ s2.viewWs = s.viewWs
      /\ LiveWs(s2) = LiveWs(s)
      /\ \A x \in Tiles : s2.tileView[x] = IF x = u THEN a ELSE IF x = t THEN NULL
                                           ELSE s.tileView[x]
  BY <1>3, <1>4, <1>6 DEF Same, Fields, Base, DeskType, LiveWs
<1>8. Fits(s2, {}, t, b)
  BY <1>2, <1>7 DEF Fits, Base, Linked, a, b
<1>9. Base(s3, {}, {}) /\ Same(s2, s3, {"tileView", "viewTile", "ub"})
  <2>1. s2.tileWs[t] \notin {} \cup {NULL}
    BY <1>7
  <2> QED
    BY <2>1, <1>6, <1>8, UpdateKeepsBase DEF s3
<1>10. s3.tileWs[u] \in LiveWs(s3)
  BY <1>2, <1>7, <1>9 DEF Same, Fields, LiveWs
<1>11. Sound(s) => Sound(s3)
  <2>0. /\ s.tileWs[t] \notin {} \cup {NULL} /\ s1.tileWs[u] \notin {} \cup {NULL}
        /\ s2.tileWs[t] \notin {} \cup {NULL} /\ Fits(s, {}, t, NULL)
    BY <1>4, <1>7 DEF Fits
  <2>1. Sound(s) => Sound(s1)
    BY <2>0, <1>2, UpdateKeepsBase DEF s1
  <2>2. Sound(s1) => Sound(s2)
    BY <2>0, <1>3, <1>5, UpdateKeepsBase DEF s2
  <2>3. Sound(s2) => Sound(s3)
    BY <2>0, <1>6, <1>8, UpdateKeepsBase DEF s3
  <2> QED
    BY <2>1, <2>2, <2>3
<1> QED
  BY <1>1, <1>9, <1>11, <1>10, FocusTileSeats, RefocusSeats DEF DeskInv

(* A live tile is in a workspace that exists.                              *)
LEMMA FocusKeeps ==
  ASSUME NEW s, DeskInv(s), NEW t \in Tiles, s.tileWs[t] # NULL
  PROVE  /\ DeskInv(focus_tile(s, t)) /\ DeskInv(keybinding_focus_tile(s, t))
         /\ Sound(s) => Sound(focus_tile(s, t)) /\ Sound(keybinding_focus_tile(s, t))
<1>1. Base(s, {}, {}) /\ s.tileWs[t] \in LiveWs(s)
  BY DEF DeskInv, Base, Placed
<1>2. /\ Base(workspace_focus_tile(s, s.tileWs[t], t), {}, {})
      /\ Sound(s) => Sound(workspace_focus_tile(s, s.tileWs[t], t))
  BY <1>1, FocusTileKeepsBase
<1>3. DeskInv(focus_tile(s, t)) /\ (Sound(s) => Sound(focus_tile(s, t)))
  BY <1>2, RefocusSeats DEF focus_tile, DeskInv
<1> QED
  BY <1>1, <1>3, FocusTileSeats DEF DeskInv

(* `next`, `prev` and `next <id>` on the focused tile.                     *)
LEMMA CycleViewsKeeps ==
  ASSUME NEW s, DeskInv(s)
  PROVE  /\ \A reverse \in BOOLEAN :
              /\ DeskInv(keybinding_cycle_views(s, FocusedTile(s), reverse))
              /\ Sound(s) => Sound(keybinding_cycle_views(s, FocusedTile(s), reverse))
         /\ \A v \in ToSet(s.list[CurrWs(s)]) :
              DeskInv(CycleToView(s, v)) /\ (Sound(s) => Sound(CycleToView(s, v)))
<1>1. /\ Base(s, {}, {}) /\ FocusedTile(s) \in Tiles
      /\ s.tileWs[FocusedTile(s)] \in LiveWs(s)
      /\ s.tileWs[FocusedTile(s)] = CurrWs(s)
  BY CurrentProperties DEF DeskInv
<1>2. ASSUME NEW reverse \in BOOLEAN
      PROVE  /\ DeskInv(keybinding_cycle_views(s, FocusedTile(s), reverse))
             /\ Sound(s) => Sound(keybinding_cycle_views(s, FocusedTile(s), reverse))
  <2> DEFINE r == keybinding_cycle_views(s, FocusedTile(s), reverse)
  <2>1. r = s \/ (Base(r, {}, {}) /\ Seated(r) /\ (Sound(s) => Sound(r)))
    BY <1>1, CycleKeeps
  <2> QED
    BY <2>1 DEF DeskInv
<1>3. ASSUME NEW v \in ToSet(s.list[CurrWs(s)])
      PROVE  DeskInv(CycleToView(s, v)) /\ (Sound(s) => Sound(CycleToView(s, v)))
  <2>1. CASE view_is_visible(s, v)
    BY <2>1 DEF CycleToView
  <2>2. CASE ~view_is_visible(s, v)
    <3> DEFINE r == ShowInTile(s, FocusedTile(s), v)
    <3>1. Base(r, {}, {}) /\ Seated(r) /\ (Sound(s) => Sound(r))
      BY <2>2, <1>1, ShowKeeps
    <3>2. CycleToView(s, v) = r
      BY <2>2 DEF CycleToView
    <3> QED
      BY <3>1, <3>2 DEF DeskInv
  <2> QED
    BY <2>1, <2>2
<1> QED
  BY <1>2, <1>3

(* Commands that only move the seat: switching workspaces and outputs.     *)
LEMMA SwitchKeeps ==
  ASSUME NEW s, DeskInv(s)
  PROVE  /\ \A i \in 0 .. s.nws - 1 :
              /\ DeskInv(keybinding_switch_ws(s, i))
              /\ Sound(s) => Sound(keybinding_switch_ws(s, i))
         /\ \A o \in ToSet(s.outputs) :
              DeskInv(set_output(s, o)) /\ (Sound(s) => Sound(set_output(s, o)))
         /\ \A reverse \in BOOLEAN :
              /\ DeskInv(keybinding_cycle_outputs(s, reverse))
              /\ Sound(s) => Sound(keybinding_cycle_outputs(s, reverse))
BY SwitchSeats, SetOutputSeats, CycleOutputsSeats DEF DeskInv

(* `only`: the workspace gets one tile, whichever address it has, for the  *)
(* view its focused tile showed or else the first that was visible.        *)
LEMMA OnlyKeeps ==
  ASSUME NEW s, DeskInv(s), NEW w \in LiveWs(s), NEW n \in FreeTiles(s) \cup TilesOf(s, w)
  PROVE  /\ DeskInv(output_make_workspace_fullscreen(s, w, n))
         /\ Sound(s) => Sound(output_make_workspace_fullscreen(s, w, n))
<1> DEFINE shown == s.tileView[s.ftile[w]]
           cur == IF shown # NULL THEN shown ELSE FirstVisible(s, s.list[w])
           s2 == [FreeTilesOf(s, {w}) EXCEPT
                    !.tileWs[n] = w, !.ftile[w] = n,
                    !.viewTile = [v \in Views |->
                       IF v \in ToSet(s.list[w]) THEN n ELSE @[v]]]
           s3 == workspace_tile_update_view(s2, n, cur)
           t == IF w = CurrWs(s) THEN seat_set_focus(s3, cur) ELSE s3
<1>1. output_make_workspace_fullscreen(s, w, n) = t
  BY DEF output_make_workspace_fullscreen
<1>2. /\ Base(s, {}, {}) /\ Seated(s) /\ n \in Tiles /\ s.tileWs[n] \in {NULL, w}
      /\ w \in Ws /\ w # NULL /\ n # NULL
  BY LiveProperties, DesktopAssumption DEF DeskInv, Base, FreeTiles, TilesOf
<1>3. /\ FocusedTile(s) \in Tiles /\ FocusedTile(s) = s.ftile[CurrWs(s)]
      /\ s.tileWs[FocusedTile(s)] = CurrWs(s) /\ CurrWs(s) \in Ws /\ CurrWs(s) # NULL
  BY <1>2, CurrentProperties
<1>4. cur # NULL => cur \in ToSet(s.list[w])
  <2>1. CASE shown # NULL
    <3>1. s.ftile[w] \in Tiles /\ s.tileWs[s.ftile[w]] = w
      BY <1>2 DEF Base, Placed, DeskType
    <3>2. shown \in ToSet(s.list[w])
      BY <2>1, <3>1, <1>2 DEF Base, Linked, InLists
    <3> QED
      BY <2>1, <3>2
  <2>2. CASE shown = NULL
    <3>1. s.list[w] \in Seq(Managed)
      BY <1>2 DEF Base, DeskType
    <3>2. cur = FirstVisible(s, s.list[w])
      BY <2>2
    <3> QED
      BY <3>1, <3>2, FirstVisibleProperties
  <2> QED
    BY <2>1, <2>2
<1> HIDE DEF shown, cur, s2, s3, t
<1>5. /\ DOMAIN s2 = Fields /\ Same(s, s2, {"tileWs", "tileView", "ftile", "viewTile"})
      /\ s2.tileWs = [x \in Tiles |-> IF x = n THEN w
                                      ELSE IF s.tileWs[x] = w THEN NULL ELSE s.tileWs[x]]
      /\ s2.tileView = [x \in Tiles |-> IF s.tileWs[x] = w THEN NULL ELSE s.tileView[x]]
      /\ s2.ftile = [s.ftile EXCEPT ![w] = n]
      /\ s2.viewTile = [v \in Views |-> IF v \in ToSet(s.list[w]) THEN n
                                        ELSE s.viewTile[v]]
  BY <1>2 DEF s2, FreeTilesOf, Base, DeskType, Same, Fields
<1>6. s2 \in DeskType
  <2>1. s2 = [f \in Fields |-> s2[f]]
    BY <1>2 DEF s2, FreeTilesOf, Base, DeskType, Fields
  <2>2. s2.tileWs \in [Tiles -> Ws \cup {NULL}] /\ s2.ftile \in [Ws -> Tiles \cup {NULL}]
    BY <1>2, <1>5 DEF Base, DeskType
  <2>3. s2.tileView \in [Tiles -> Views \cup {NULL}]
    BY <1>2, <1>5 DEF Base, DeskType
  <2>4. s2.viewTile \in [Views -> Tiles \cup {NULL}]
    BY <1>2, <1>5 DEF Base, DeskType
  <2> QED
    BY <2>1, <2>2, <2>3, <2>4, <1>2, <1>5 DEF Base, DeskType, Same, Fields
<1>7. /\ s2.outputs = s.outputs /\ s2.nws = s.nws /\ s2.output = s.output
      /\ s2.currWs = s.currWs /\ s2.viewWs = s.viewWs
      /\ s2.list = s.list /\ s2.life = s.life /\ s2.tree = s.tree
      /\ s2.focus = s.focus /\ s2.kb = s.kb
  BY <1>5 DEF Same, Fields
<1>8. LiveWs(s2) = LiveWs(s) /\ LiveWs(s) \subseteq Ws
  BY <1>2, <1>7, LiveProperties DEF LiveWs, Base
<1>9. Placed(s2, {})
  <2>1. s2.ftile[w] = n /\ s2.tileWs[n] = w
    BY <1>2, <1>5 DEF Base, DeskType
  <2>2. ASSUME NEW x \in LiveWs(s), x # w
        PROVE  s2.ftile[x] # NULL /\ s2.tileWs[s2.ftile[x]] = x
    <3>1. s.ftile[x] \in Tiles /\ s.tileWs[s.ftile[x]] = x /\ x # NULL
      <4>1. x \in Ws /\ x # NULL
        BY <1>8, DesktopAssumption
      <4> QED
        BY <4>1, <1>2 DEF Base, Placed, DeskType
    <3>2. s2.ftile[x] = s.ftile[x]
      BY <2>2, <1>2, <1>5, <1>8 DEF Base, DeskType
    <3>3. s.ftile[x] # n
      BY <2>2, <3>1, <1>2
    <3> QED
      BY <2>2, <3>1, <3>2, <3>3, <1>2, <1>5, DesktopAssumption
  <2> QED
    BY <2>1, <2>2, <1>2, <1>5, <1>7, <1>8 DEF Base, Placed
<1>10. \A x \in Tiles : s2.tileView[x] # NULL =>
         /\ s2.tileView[x] = s.tileView[x] /\ x # n /\ s.tileWs[x] \notin {w, NULL}
         /\ s2.tileWs[x] = s.tileWs[x]
  BY <1>2, <1>5 DEF Base, Linked
<1>11. Linked(s2, {}, {})
  <2>1. ASSUME NEW x \in Tiles, s2.tileView[x] # NULL
        PROVE  s2.viewTile[s2.tileView[x]] = x
    <3>1. /\ s.tileView[x] \in Managed /\ s.viewWs[s.tileView[x]] # w
          /\ s.viewTile[s.tileView[x]] = x
      BY <2>1, <1>2, <1>10 DEF Base, Linked
    <3>2. s.tileView[x] \notin ToSet(s.list[w])
      BY <3>1, <1>2 DEF Base, InLists
    <3> QED
      BY <2>1, <3>1, <3>2, <1>5, <1>10 DEF Managed
  <2> QED
    BY <2>1, <1>2, <1>7, <1>10 DEF Base, Linked
<1>12. Base(s2, {}, {})
  BY <1>2, <1>6, <1>7, <1>8, <1>9, <1>11 DEF Base, InLists
<1>13. cur # NULL => /\ cur \in Managed /\ s.life[cur] = "mapped" /\ s.viewWs[cur] = w
  BY <1>2, <1>4, ListedIsHome
<1>14. cur # NULL => \A x \in Tiles : s2.tileView[x] # cur
  BY <1>2, <1>10, <1>13 DEF Base, Linked
<1>15. s2.tileWs[n] = w /\ Fits(s2, {}, n, cur)
  BY <1>2, <1>5, <1>7, <1>13, <1>14 DEF Fits
<1>16. /\ Base(s3, {}, {}) /\ Same(s2, s3, {"tileView", "viewTile", "ub"})
       /\ s3.tileView = [s2.tileView EXCEPT ![n] = cur]
  BY <1>2, <1>12, <1>15, UpdateKeepsBase DEF s3
<1>22. Sound(s) => Sound(s3)
  <2>1. s2.ub = s.ub
    BY <1>5 DEF Same, Fields
  <2>2. Sound(s) => Sound(s2)
    BY <2>1, <1>7 DEF Sound
  <2>3. s2.tileWs[n] \notin {} \cup {NULL}
    BY <1>2, <1>15
  <2>4. Sound(s2) => Sound(s3)
    BY <2>3, <1>2, <1>12, <1>15, UpdateKeepsBase DEF s3
  <2> QED
    BY <2>2, <2>4
<1>17. /\ s3.output = s.output /\ s3.currWs = s.currWs /\ s3.ftile = s2.ftile
       /\ s3.list = s.list /\ s3.focus = s.focus /\ s3.kb = s.kb
  BY <1>7, <1>16 DEF Same, Fields
<1>18. CurrWs(s3) = CurrWs(s)
  BY <1>17 DEF CurrWs
<1>19. \A x \in Tiles : s3.tileView[x] = IF x = n THEN cur ELSE s2.tileView[x]
  BY <1>12, <1>16 DEF Base, DeskType
<1>20. CASE w = CurrWs(s)
  <2>1. FocusedTile(s3) = n
    BY <1>2, <1>5, <1>17, <1>18, <1>20 DEF FocusedTile, Base, DeskType
  <2>2. Focusable(s3, cur)
    BY <2>1, <1>4, <1>14, <1>17, <1>18, <1>19, <1>20 DEF Focusable
  <2>3. Base(t, {}, {}) /\ Seated(t)
    BY <2>2, <1>16, <1>20, FocusSeats DEF t
  <2>4. Sound(s3) => Sound(t)
    BY <2>2, <1>16, <1>20, FocusSeats DEF t
  <2> QED
    BY <2>3, <2>4, <1>1, <1>22 DEF DeskInv
<1>21. CASE w # CurrWs(s)
  <2>1. FocusedTile(s) # n
    BY <1>2, <1>3, <1>21
  <2>2. s3.ftile[CurrWs(s)] = s.ftile[CurrWs(s)]
    BY <1>2, <1>3, <1>5, <1>17, <1>21 DEF Base, DeskType
  <2>3. s3.tileView[FocusedTile(s)] = s.tileView[FocusedTile(s)]
    BY <2>1, <1>3, <1>5, <1>19, <1>21
  <2>4. Seated(s3)
    BY <2>2, <2>3, <1>2, <1>17, SameKeepsSeat
  <2> QED
    BY <2>4, <1>1, <1>16, <1>21, <1>22 DEF DeskInv, t
<1> QED
  BY <1>20, <1>21

-----------------------------------------------------------------------------
(* Moving a view.                                                          *)

(* The focused tile has lost its view: the next hidden one, or none, gets  *)
(* both the tile and the focus.                                            *)
Refilled(s) ==
  LET u == keybinding_cycle_views(s, FocusedTile(s), FALSE)
  IN  IF u.tileView[FocusedTile(s)] = NULL THEN seat_set_focus(u, NULL) ELSE u

(* The tile the moved view left shows the next hidden view, and the seat   *)
(* focuses it, or nothing.                                                 *)
LEMMA RefillSeats ==
  ASSUME NEW s, NEW A, NEW G, Base(s, A, G), s.tileView[FocusedTile(s)] = NULL
  PROVE  /\ Base(Refilled(s), A, G) /\ Seated(Refilled(s)) /\ Frame(s, Refilled(s))
         /\ Sound(s) => Sound(Refilled(s))
<1> DEFINE ft == FocusedTile(s)
           u == keybinding_cycle_views(s, ft, FALSE)
<1>1. ft \in Tiles /\ s.tileWs[ft] \in LiveWs(s)
  BY CurrentProperties
<1>2. Refilled(s) = IF u.tileView[ft] = NULL THEN seat_set_focus(u, NULL) ELSE u
  BY DEF Refilled
<1>3. \/ u = s
      \/ /\ Base(u, A, G) /\ Frame(s, u) /\ u.tileView[ft] # NULL /\ Seated(u)
         /\ Sound(s) => Sound(u)
  BY <1>1, CycleKeeps
<1> HIDE DEF u, ft
<1>4. CASE u = s
  <2>1. Refilled(s) = seat_set_focus(s, NULL)
    BY <1>2, <1>4 DEF ft
  <2>2. Focusable(s, NULL)
    BY DEF Focusable
  <2>3. /\ Base(seat_set_focus(s, NULL), A, G) /\ Seated(seat_set_focus(s, NULL))
        /\ Frame(s, seat_set_focus(s, NULL))
        /\ Sound(s) => Sound(seat_set_focus(s, NULL))
    BY <2>2, FocusSeats
  <2> QED
    BY <2>1, <2>3
<1>5. CASE /\ Base(u, A, G) /\ Frame(s, u) /\ u.tileView[ft] # NULL /\ Seated(u)
           /\ Sound(s) => Sound(u)
  BY <1>2, <1>5
<1> QED
  BY <1>3, <1>4, <1>5

(* Taking the focused view out of its workspace, for `moveview` to another *)
(* tile.                                                                   *)
LEMMA LeaveSeats ==
  ASSUME NEW s, DeskInv(s), NEW v \in Managed, s.tileView[FocusedTile(s)] = v
  PROVE  LET r == LeaveTile(s, v)
         IN  /\ Base(r, {v}, {}) /\ Seated(r) /\ r.tileWs = s.tileWs
             /\ r.life = s.life /\ LiveWs(r) = LiveWs(s)
             /\ Sound(s) => Sound(r)
<1> DEFINE ft == FocusedTile(s)
           u == workspace_tile_update_view(s, ft, NULL)
           x == Unlink(u, v)
           y == keybinding_cycle_views(x, ft, FALSE)
<1>1. /\ Base(s, {}, {}) /\ ft \in Tiles /\ s.tileWs[ft] = CurrWs(s) /\ CurrWs(s) # NULL
      /\ v \in Views /\ v # NULL
  BY CurrentProperties, DesktopAssumption DEF DeskInv, Managed
<1>2. s.viewTile[v] = ft /\ \A t \in Tiles : s.tileView[t] = v => t = ft
  BY <1>1 DEF Base, Linked
<1>3. LeaveTile(s, v) = IF y.tileView[ft] = NULL /\ ft = FocusedTile(y)
                        THEN seat_set_focus(y, NULL) ELSE y
  BY <1>2 DEF LeaveTile
<1> HIDE DEF u, x, y, ft
<1>4. /\ Base(u, {}, {}) /\ Same(s, u, {"tileView", "viewTile", "ub"})
      /\ u.tileView = [s.tileView EXCEPT ![ft] = NULL]
  BY <1>1, UpdateKeepsBase DEF u, Fits
<1>5. \A t \in Tiles : u.tileView[t] # v
  BY <1>1, <1>2, <1>4 DEF Base, DeskType
<1>6. Base(x, {} \cup {v}, {}) /\ Same(u, x, {"list"})
  BY <1>1, <1>4, <1>5, UnlinkTakesAway DEF x
<1>7. Base(x, {v}, {})
  BY <1>6
<1>8. /\ x.tileView = u.tileView /\ x.tileWs = s.tileWs /\ x.life = s.life
      /\ LiveWs(x) = LiveWs(s) /\ FocusedTile(x) = ft
  BY <1>4, <1>6 DEF Same, Fields, LiveWs, FocusedTile, CurrWs, ft
<1>9. x.tileView[FocusedTile(x)] = NULL
  BY <1>1, <1>4, <1>8 DEF Base, DeskType
<1>10. \/ y = x
       \/ Base(y, {v}, {}) /\ Frame(x, y)
  <2>1. x.tileWs[ft] \in LiveWs(x)
    BY <1>1, <1>8, CurrentProperties
  <2> QED
    BY <2>1, <1>1, <1>7, CycleKeeps DEF y
<1>11. FocusedTile(y) = ft
  BY <1>8, <1>10, FrameProperties
<1>12. LeaveTile(s, v) = Refilled(x)
  BY <1>3, <1>8, <1>11 DEF Refilled, y
<1>13. Base(Refilled(x), {v}, {}) /\ Seated(Refilled(x)) /\ Frame(x, Refilled(x))
  BY <1>7, <1>9, RefillSeats
<1>14. Sound(s) => Sound(Refilled(x))
  <2>0. s.tileWs[ft] \notin {} \cup {NULL} /\ Fits(s, {}, ft, NULL)
    BY <1>1 DEF Fits
  <2>1. Sound(s) => Sound(u)
    BY <2>0, <1>1, UpdateKeepsBase DEF u
  <2>2. Sound(u) => Sound(x)
    BY <1>1, <1>4, <1>5, UnlinkTakesAway DEF x
  <2>3. Sound(x) => Sound(Refilled(x))
    BY <1>7, <1>9, RefillSeats
  <2> QED
    BY <2>1, <2>2, <2>3
<1> QED
  BY <1>8, <1>12, <1>13, <1>14, FrameProperties

(* The view arrives in tile t, whose own view loses the tile.              *)
LEMMA EnterSeats ==
  ASSUME NEW s, NEW v \in Managed, Base(s, {v}, {}), Seated(s), s.life[v] = "mapped",
         NEW t \in Tiles, s.tileWs[t] \in LiveWs(s)
  PROVE  /\ DeskInv(EnterTile(s, v, t)) /\ EnterTile(s, v, t).tileWs = s.tileWs
         /\ Sound(s) => Sound(EnterTile(s, v, t))
<1> DEFINE w == s.tileWs[t]
           j == Reparent(JoinWs(s, v, w), v, w)
           e == [j EXCEPT !.viewTile[v] = t, !.tileView[t] = v]
<1>1. EnterTile(s, v, t) = IF t = FocusedTile(e) THEN seat_set_focus(e, v) ELSE e
  BY DEF EnterTile
<1>2. w \in Ws /\ w # NULL /\ v \in Views /\ v # NULL /\ w \in LiveWs(s)
  BY LiveProperties, DesktopAssumption DEF Base, Managed
<1>3. PICK A : A = {v}
  OBVIOUS
<1>4. Base(s, A, {}) /\ v \in A /\ A \ {v} = {}
  BY <1>3
<1>5. Base(j, A \ {v}, {})
  BY <1>2, <1>4, JoinKeeps
<1>6. Same(s, j, {"list", "viewWs", "tree", "ub"})
  BY <1>2, <1>4, JoinKeeps
<1>7. j.viewWs = [s.viewWs EXCEPT ![v] = w]
  BY <1>2, <1>4, JoinKeeps
<1>8. v \in ToSet(j.list[w])
  BY <1>2, <1>4, JoinKeeps
<1>9. SameLast(s, j)
  BY <1>2, <1>4, JoinKeeps
<1>22. Sound(s) => Sound(j)
  BY <1>2, <1>4, JoinKeeps
<1> HIDE DEF j, e, w
<1>10. Base(j, {}, {})
  BY <1>4, <1>5
<1>11. /\ e \in DeskType /\ Same(j, e, {"viewTile", "tileView"})
       /\ e.viewTile = [j.viewTile EXCEPT ![v] = t]
       /\ e.tileView = [j.tileView EXCEPT ![t] = v]
  BY <1>2, <1>10 DEF e, Base, DeskType, Same, Fields
<1>12. /\ e.outputs = j.outputs /\ e.nws = j.nws /\ e.output = j.output
       /\ e.currWs = j.currWs /\ e.ftile = j.ftile /\ e.tileWs = j.tileWs
       /\ e.viewWs = j.viewWs /\ e.list = j.list /\ e.life = j.life /\ e.tree = j.tree
       /\ e.focus = j.focus /\ e.kb = j.kb
  BY <1>11 DEF Same, Fields
<1>13. /\ j.outputs = s.outputs /\ j.nws = s.nws /\ j.output = s.output
       /\ j.currWs = s.currWs /\ j.ftile = s.ftile /\ j.tileWs = s.tileWs
       /\ j.tileView = s.tileView /\ j.life = s.life
       /\ j.focus = s.focus /\ j.kb = s.kb
  BY <1>6 DEF Same, Fields
<1>14. LiveWs(e) = LiveWs(j) /\ CurrWs(e) = CurrWs(s) /\ FocusedTile(e) = FocusedTile(s)
  BY <1>12, <1>13 DEF LiveWs, CurrWs, FocusedTile
<1>15. \A x \in Tiles : e.tileView[x] = IF x = t THEN v ELSE s.tileView[x]
  BY <1>10, <1>11, <1>13 DEF Base, DeskType
<1>16. \A x \in Tiles : s.tileView[x] # v
  BY <1>2 DEF Base, Linked
<1>17. Linked(e, {}, {})
  <2>1. ASSUME NEW x \in Tiles, e.tileView[x] # NULL
        PROVE  /\ e.tileWs[x] # NULL
               /\ e.tileView[x] \in Managed
               /\ e.life[e.tileView[x]] = "mapped"
               /\ e.viewWs[e.tileView[x]] = e.tileWs[x]
               /\ e.viewTile[e.tileView[x]] = x
    <3>1. CASE x = t
      <4>1. e.viewWs[v] = w
        BY <1>2, <1>7, <1>12 DEF Base, DeskType
      <4>2. e.viewTile[v] = t
        BY <1>2, <1>10, <1>11 DEF Base, DeskType
      <4>3. e.tileView[x] = v
        BY <3>1, <1>15
      <4> QED
        BY <3>1, <4>1, <4>2, <4>3, <1>2, <1>12, <1>13 DEF w
    <3>2. CASE x # t
      <4>1. e.tileView[x] = j.tileView[x] /\ e.tileView[x] # v
        BY <3>2, <1>13, <1>15, <1>16
      <4>2. /\ j.tileWs[x] # NULL /\ j.tileView[x] \in Managed
            /\ j.life[j.tileView[x]] = "mapped"
            /\ j.viewWs[j.tileView[x]] = j.tileWs[x]
            /\ j.viewTile[j.tileView[x]] = x
        BY <2>1, <4>1, <1>10 DEF Base, Linked
      <4>3. e.viewTile[e.tileView[x]] = x
        BY <4>1, <4>2, <1>10, <1>11 DEF Base, DeskType, Managed
      <4> QED
        BY <4>1, <4>2, <4>3, <1>12
    <3> QED
      BY <3>1, <3>2
  <2> QED
    BY <2>1 DEF Linked
<1>18. Base(e, {}, {})
  BY <1>10, <1>11, <1>12, <1>14, <1>17 DEF Base, Placed, InLists
<1>23. Sound(s) => Sound(e)
  <2>1. e.ub = j.ub
    BY <1>11 DEF Same, Fields
  <2>2. Sound(j) => Sound(e)
    BY <2>1, <1>12 DEF Sound
  <2> QED
    BY <2>2, <1>22
<1>19. FocusedTile(s) \in Tiles /\ s.tileWs[FocusedTile(s)] = CurrWs(s) /\ CurrWs(s) \in Ws
  BY <1>4, CurrentProperties
<1>20. CASE t = FocusedTile(e)
  <2>1. w = CurrWs(e)
    BY <1>14, <1>19, <1>20 DEF w
  <2>2. Focusable(e, v)
    BY <2>1, <1>8, <1>12, <1>15, <1>16, <1>20 DEF Focusable
  <2> DEFINE r == seat_set_focus(e, v)
  <2>3. Base(r, {}, {}) /\ Seated(r) /\ Frame(e, r)
    BY <2>2, <1>18, FocusSeats
  <2>6. Sound(e) => Sound(r)
    BY <2>2, <1>18, FocusSeats
  <2> HIDE DEF r
  <2>4. r.tileWs = s.tileWs
    BY <2>3, <1>12, <1>13, FrameProperties
  <2>5. EnterTile(s, v, t) = r
    BY <1>1, <1>20 DEF r
  <2> QED
    BY <2>3, <2>4, <2>5, <2>6, <1>23 DEF DeskInv
<1>21. CASE t # FocusedTile(e)
  <2>1. e.tileView[FocusedTile(s)] = s.tileView[FocusedTile(s)]
    BY <1>14, <1>15, <1>19, <1>21
  <2>2. s.focus # NULL => Last(e.list[CurrWs(s)]) = Last(s.list[CurrWs(s)])
    <3>1. s.focus # NULL => ToSet(s.list[CurrWs(s)]) # {}
      BY <1>4, FocusIsListed
    <3> QED
      BY <3>1, <1>9, <1>12, <1>19 DEF SameLast
  <2>3. Seated(e)
    BY <2>1, <2>2, <1>12, <1>13, SameKeepsSeat
  <2> QED
    BY <2>3, <1>1, <1>12, <1>13, <1>18, <1>21, <1>23 DEF DeskInv
<1> QED
  BY <1>20, <1>21

(* keybinding_move_view_to_tile with no view to move: the target tile      *)
(* loses its view while the focused one shows none.                        *)
LEMMA EmptyKeeps ==
  ASSUME NEW s, DeskInv(s), s.tileView[FocusedTile(s)] = NULL, NEW t \in Tiles
  PROVE  /\ DeskInv(EmptyTile(s, t)) /\ EmptyTile(s, t).tileWs = s.tileWs
         /\ Sound(s) => Sound(EmptyTile(s, t))
<1> DEFINE e == EmptyTile(s, t)
<1>1. Base(s, {}, {}) /\ Seated(s)
  BY DEF DeskInv
<1>2. /\ e \in DeskType /\ Same(s, e, {"viewTile", "tileView"})
      /\ e.viewTile = [v \in Views |-> IF v = s.tileView[t] THEN NULL ELSE s.viewTile[v]]
      /\ e.tileView = [s.tileView EXCEPT ![t] = NULL]
  BY <1>1, ZenonT(40) DEF EmptyTile, Base, DeskType, Same, Fields
<1> HIDE DEF e
<1>3. /\ e.outputs = s.outputs /\ e.nws = s.nws /\ e.output = s.output
      /\ e.currWs = s.currWs /\ e.ftile = s.ftile /\ e.tileWs = s.tileWs
      /\ e.viewWs = s.viewWs /\ e.list = s.list /\ e.life = s.life /\ e.tree = s.tree
      /\ e.focus = s.focus /\ e.kb = s.kb
  BY <1>2 DEF Same, Fields
<1>4. LiveWs(e) = LiveWs(s)
  BY <1>3 DEF LiveWs
<1>5. \A x \in Tiles : e.tileView[x] = IF x = t THEN NULL ELSE s.tileView[x]
  BY <1>1, <1>2 DEF Base, DeskType
<1>6. Linked(e, {}, {})
  <2>1. ASSUME NEW x \in Tiles, e.tileView[x] # NULL
        PROVE  e.viewTile[e.tileView[x]] = x
    <3>1. /\ x # t /\ e.tileView[x] = s.tileView[x] /\ s.tileView[x] \in Views
          /\ s.viewTile[s.tileView[x]] = x
      BY <2>1, <1>1, <1>5 DEF Base, Linked, Managed
    <3>2. s.tileView[x] # s.tileView[t]
      BY <2>1, <3>1, <1>1 DEF Base, Linked
    <3> QED
      BY <3>1, <3>2, <1>2
  <2> QED
    BY <2>1, <1>1, <1>3, <1>5 DEF Base, Linked
<1>7. Base(e, {}, {})
  BY <1>1, <1>2, <1>3, <1>4, <1>6 DEF Base, Placed, InLists
<1>8. FocusedTile(s) \in Tiles
  BY <1>1, CurrentProperties
<1>9. e.tileView[FocusedTile(s)] = s.tileView[FocusedTile(s)]
  BY <1>5, <1>8
<1>10. Seated(e)
  BY <1>1, <1>3, <1>9, SameKeepsSeat
<1>11. Sound(s) => Sound(e)
  <2>1. e.ub = s.ub
    BY <1>2 DEF Same, Fields
  <2> QED
    BY <2>1, <1>3 DEF Sound
<1> QED
  BY <1>11, <1>3, <1>7, <1>10 DEF DeskInv, e

(* Showing in a tile what it already shows.                                *)
LEMMA SameViewKeeps ==
  ASSUME NEW s, DeskInv(s), NEW t \in Tiles, s.tileView[t] # NULL
  PROVE  LET u == workspace_tile_update_view(s, t, s.tileView[t])
         IN  DeskInv(u) /\ (Sound(s) => Sound(u))
<1> DEFINE v == s.tileView[t]
           u == workspace_tile_update_view(s, t, v)
<1>1. Base(s, {}, {}) /\ Seated(s)
  BY DEF DeskInv
<1>2. s.tileWs[t] \notin {} \cup {NULL} /\ Fits(s, {}, t, v)
  BY <1>1 DEF Base, Linked, Fits
<1>3. /\ Base(u, {}, {}) /\ Same(s, u, {"tileView", "viewTile", "ub"})
      /\ u.tileView = [s.tileView EXCEPT ![t] = v]
  BY <1>1, <1>2, UpdateKeepsBase
<1>4. u.tileView = s.tileView
  BY <1>1, <1>3 DEF Base, DeskType
<1>7. Sound(s) => Sound(u)
  BY <1>1, <1>2, UpdateKeepsBase
<1> HIDE DEF u
<1>5. /\ u.output = s.output /\ u.currWs = s.currWs /\ u.ftile = s.ftile
      /\ u.list = s.list /\ u.focus = s.focus /\ u.kb = s.kb
  BY <1>3 DEF Same, Fields
<1>6. Seated(u)
  BY <1>1, <1>4, <1>5, SameKeepsSeat
<1> QED
  BY <1>3, <1>6, <1>7 DEF DeskInv, u

(* `moveview_to_tile` of the focused view, or of none when the focused     *)
(* tile is empty.                                                          *)
LEMMA MoveToTileKeeps ==
  ASSUME NEW s, DeskInv(s), NEW t \in Tiles, s.tileWs[t] # NULL, NEW follow \in BOOLEAN
  PROVE  LET r == keybinding_move_view_to_tile(
                    s, view_from_id(s, s.tileView[FocusedTile(s)]), t, follow)
         IN  DeskInv(r) /\ (Sound(s) => Sound(r))
<1> DEFINE shown == s.tileView[FocusedTile(s)]
           v == view_from_id(s, shown)
           s1 == CASE v = NULL -> EmptyTile(s, t)
                   [] v # NULL /\ s.viewTile[v] = NULL -> EnterTile(Unlink(s, v), v, t)
                   [] OTHER ->
                        IF s.tileWs[s.viewTile[v]] = NULL
                        THEN [s EXCEPT !.ub = TRUE]
                        ELSE EnterTile(LeaveTile(s, v), v, t)
           r == CASE s1.ub -> s1
                  [] ~s1.ub /\ follow -> keybinding_focus_tile(s1, t)
                  [] OTHER -> IF s1.tileView[t] = NULL THEN s1
                              ELSE workspace_tile_update_view(s1, t, s1.tileView[t])
<1>1. keybinding_move_view_to_tile(s, v, t, follow) = r
  BY DEF keybinding_move_view_to_tile
<1>2. /\ Base(s, {}, {}) /\ FocusedTile(s) \in Tiles
      /\ s.tileWs[FocusedTile(s)] = CurrWs(s) /\ CurrWs(s) \in LiveWs(s)
      /\ CurrWs(s) # NULL /\ CurrWs(s) \in Ws /\ s.tileWs[t] \in LiveWs(s)
  BY CurrentProperties DEF DeskInv, Base, Placed
<1>3. v = shown
  <2>1. shown # NULL => shown \in ToSet(s.list[CurrWs(s)])
    BY <1>2 DEF Base, Linked, InLists
  <2> QED
    BY <2>1, <1>2 DEF view_from_id
<1> HIDE DEF v
<1>4. DeskInv(s1) /\ s1.tileWs = s.tileWs /\ (Sound(s) => Sound(s1))
  <2>1. CASE v = NULL
    <3>1. s1 = EmptyTile(s, t)
      BY <2>1
    <3> QED
      BY <2>1, <3>1, <1>3, EmptyKeeps
  <2>2. CASE v # NULL
    <3>1. v \in Managed /\ s.viewTile[v] = FocusedTile(s) /\ s.life[v] = "mapped"
      BY <2>2, <1>2, <1>3 DEF Base, Linked
    <3>2. s.viewTile[v] # NULL /\ s.tileWs[s.viewTile[v]] # NULL
      BY <3>1, <1>2, DesktopAssumption
    <3>3. s1 = EnterTile(LeaveTile(s, v), v, t)
      BY <2>2, <3>2
    <3> DEFINE l == LeaveTile(s, v)
    <3>4. /\ Base(l, {v}, {}) /\ Seated(l) /\ l.tileWs = s.tileWs
          /\ l.life = s.life /\ LiveWs(l) = LiveWs(s)
          /\ Sound(s) => Sound(l)
      BY <3>1, <1>3, LeaveSeats
    <3> HIDE DEF l
    <3>5. /\ DeskInv(EnterTile(l, v, t)) /\ EnterTile(l, v, t).tileWs = l.tileWs
          /\ Sound(l) => Sound(EnterTile(l, v, t))
      BY <3>1, <3>4, <1>2, EnterSeats
    <3> QED
      BY <3>3, <3>4, <3>5 DEF l
  <2> QED
    BY <2>1, <2>2
<1> HIDE DEF s1
<1>5. DeskInv(r) /\ (Sound(s1) => Sound(r))
  <2>1. CASE s1.ub
    BY <2>1, <1>4
  <2>2. CASE ~s1.ub /\ follow
    <3>1. r = keybinding_focus_tile(s1, t)
      BY <2>2
    <3> QED
      BY <3>1, <1>4, FocusKeeps
  <2>3. CASE ~s1.ub /\ ~follow
    <3>1. r = IF s1.tileView[t] = NULL THEN s1
              ELSE workspace_tile_update_view(s1, t, s1.tileView[t])
      BY <2>3
    <3> QED
      BY <3>1, <1>4, SameViewKeeps
  <2> QED
    BY <2>1, <2>2, <2>3
<1> QED
  BY <1>1, <1>4, <1>5 DEF v

(* `moveview_to_next_output`: the view leaves its tile and its workspace,  *)
(* the seat goes to the next output, and the view arrives there.           *)
LEMMA MoveToCycleOutputKeeps ==
  ASSUME NEW s, DeskInv(s), NEW reverse \in BOOLEAN
  PROVE  /\ DeskInv(keybinding_move_view_to_cycle_output(s, reverse))
         /\ Sound(s) => Sound(keybinding_move_view_to_cycle_output(s, reverse))
<1> DEFINE ft == FocusedTile(s)
           v == s.tileView[ft]
           s0 == [s EXCEPT !.tileView[ft] = NULL]
           s1 == [Unlink(s, v) EXCEPT !.tileView[ft] = NULL]
           s2 == keybinding_cycle_views(s1, ft, FALSE)
           s3 == IF s2.tileView[ft] = NULL THEN seat_set_focus(s2, NULL) ELSE s2
           s4 == keybinding_cycle_outputs(s3, reverse)
           w  == CurrWs(s4)
           s5 == Reparent(JoinWs(s4, v, w), v, w)
           s6 == workspace_tile_update_view(s5, FocusedTile(s5), v)
           r == CASE Len(s.outputs) <= 1 -> s
                  [] Len(s.outputs) > 1 /\ v = NULL -> keybinding_cycle_outputs(s, reverse)
                  [] OTHER -> seat_set_focus(s6, v)
<1>1. keybinding_move_view_to_cycle_output(s, reverse) = r
  BY DEF keybinding_move_view_to_cycle_output
<1>2. /\ Base(s, {}, {}) /\ ft \in Tiles /\ s.tileWs[ft] = CurrWs(s)
      /\ Len(s.outputs) \in Nat
  BY CurrentProperties, LenProperties DEF DeskInv, Base, DeskType
<1>3. r = IF Len(s.outputs) <= 1 THEN s
          ELSE IF v = NULL THEN keybinding_cycle_outputs(s, reverse)
          ELSE seat_set_focus(s6, v)
  <2> HIDE DEF s6, v
  <2> QED
    BY <1>2
<1> HIDE DEF r, ft, v, s0, s1, s2, s3, s4, w, s5, s6
<1>4. CASE Len(s.outputs) <= 1
  BY <1>1, <1>3, <1>4
<1>5. CASE ~(Len(s.outputs) <= 1) /\ v = NULL
  BY <1>1, <1>3, <1>5, SwitchKeeps
<1>6. CASE ~(Len(s.outputs) <= 1) /\ v # NULL
  <2>1. /\ v \in Managed /\ v \in Views /\ s.life[v] = "mapped"
        /\ \A x \in Tiles : s.tileView[x] = v => x = ft
    BY <1>2, <1>6 DEF Base, Linked, Managed, v
  <2>2. /\ s0 \in DeskType /\ Same(s, s0, {"tileView"})
        /\ s0.tileView = [s.tileView EXCEPT ![ft] = NULL]
    BY <1>2 DEF s0, Base, DeskType, Same, Fields
  <2>3. /\ s0.outputs = s.outputs /\ s0.nws = s.nws /\ s0.output = s.output
        /\ s0.currWs = s.currWs /\ s0.ftile = s.ftile /\ s0.tileWs = s.tileWs
        /\ s0.viewTile = s.viewTile /\ s0.viewWs = s.viewWs
        /\ s0.list = s.list /\ s0.life = s.life /\ s0.tree = s.tree
    BY <2>2 DEF Same, Fields
  <2>4. LiveWs(s0) = LiveWs(s) /\ FocusedTile(s0) = ft
    BY <2>3 DEF LiveWs, FocusedTile, CurrWs, ft
  <2>5. \A x \in Tiles : s0.tileView[x] = IF x = ft THEN NULL ELSE s.tileView[x]
    BY <1>2, <2>2 DEF Base, DeskType
  <2>6. Base(s0, {}, {})
    BY <1>2, <2>2, <2>3, <2>4, <2>5 DEF Base, Placed, Linked, InLists
  <2>7. s1 = Unlink(s0, v)
    BY <1>2 DEF s0, s1, Unlink, Base, DeskType
  <2>8. \A x \in Tiles : s0.tileView[x] # v
    BY <1>6, <2>1, <2>5
  <2>9. Base(s1, {} \cup {v}, {}) /\ Same(s0, s1, {"list"})
    BY <2>1, <2>6, <2>7, <2>8, UnlinkTakesAway
  <2>10. /\ Base(s1, {v}, {}) /\ FocusedTile(s1) = ft /\ s1.tileView[ft] = NULL
         /\ s1.life = s.life
    BY <1>2, <2>3, <2>4, <2>5, <2>9 DEF Same, Fields, FocusedTile, CurrWs, ft
  <2>11. s3 = Refilled(s1)
    BY <2>10 DEF Refilled, s2, s3
  <2>12. Base(s3, {v}, {}) /\ s3.life = s.life
    BY <2>10, <2>11, RefillSeats, FrameProperties
  <2>13. Base(s4, {v}, {}) /\ s4.life = s.life
    BY <2>12, CycleOutputsSeats, OutputFrameProperties DEF s4
  <2>14. w \in LiveWs(s4) /\ w \in Ws /\ w # NULL
    BY <2>13, CurrentProperties DEF w
  <2>15. PICK A : A = {v}
    OBVIOUS
  <2>16. /\ Base(s4, A, {}) /\ v \in A /\ A \ {v} = {} /\ s4.life[v] = "mapped"
    BY <2>1, <2>13, <2>15
  <2>17. Base(s5, A \ {v}, {})
    BY <2>1, <2>14, <2>16, JoinKeeps DEF s5
  <2>18. Same(s4, s5, {"list", "viewWs", "tree", "ub"})
    BY <2>1, <2>14, <2>16, JoinKeeps DEF s5
  <2>19. s5.viewWs = [s4.viewWs EXCEPT ![v] = w]
    BY <2>1, <2>14, <2>16, JoinKeeps DEF s5
  <2>20. v \in ToSet(s5.list[w])
    BY <2>1, <2>14, <2>16, JoinKeeps DEF s5
  <2>21. Base(s5, {}, {})
    BY <2>16, <2>17
  <2>22. /\ s5.tileView = s4.tileView /\ s5.life = s4.life
         /\ CurrWs(s5) = w
    BY <2>18 DEF Same, Fields, CurrWs, w
  <2> DEFINE gt == FocusedTile(s5)
  <2>23. gt \in Tiles /\ s5.tileWs[gt] = w
    BY <2>21, <2>22, CurrentProperties
  <2> HIDE DEF gt
  <2>24. \A x \in Tiles : s5.tileView[x] # v
    BY <2>13, <2>22, <1>6 DEF Base, Linked
  <2>25. Fits(s5, {}, gt, v)
    <3>1. s5.viewWs[v] = w
      BY <2>1, <2>13, <2>14, <2>19 DEF Base, DeskType
    <3> QED
      BY <3>1, <2>1, <2>16, <2>22, <2>23, <2>24 DEF Fits
  <2>26. /\ Base(s6, {}, {}) /\ Same(s5, s6, {"tileView", "viewTile", "ub"})
         /\ s6.tileView = [s5.tileView EXCEPT ![gt] = v]
    <3>1. s5.tileWs[gt] \notin {} \cup {NULL}
      BY <2>14, <2>23
    <3> QED
      BY <3>1, <2>21, <2>23, <2>25, UpdateKeepsBase DEF s6, gt
  <2>27. FocusedTile(s6) = gt /\ CurrWs(s6) = w /\ s6.list = s5.list
    BY <2>22, <2>26 DEF Same, Fields, FocusedTile, CurrWs, gt
  <2>28. Focusable(s6, v)
    BY <2>20, <2>21, <2>23, <2>24, <2>26, <2>27 DEF Focusable, Base, DeskType
  <2>30. Sound(s) => Sound(s6)
    <3>1. s0.ub = s.ub /\ s0.focus = s.focus
      BY <2>2 DEF Same, Fields
    <3>2. Sound(s) => Sound(s0)
      BY <3>1, <2>3 DEF Sound
    <3>3. Sound(s0) => Sound(s1)
      BY <2>1, <2>6, <2>7, <2>8, UnlinkTakesAway
    <3>4. Sound(s1) => Sound(s3)
      BY <2>10, <2>11, RefillSeats
    <3>5. Sound(s3) => Sound(s4)
      BY <2>12, CycleOutputsSeats DEF s4
    <3>6. Sound(s4) => Sound(s5)
      BY <2>1, <2>14, <2>16, JoinKeeps DEF s5
    <3>7. s5.tileWs[gt] \notin {} \cup {NULL}
      BY <2>14, <2>23
    <3>8. Sound(s5) => Sound(s6)
      BY <3>7, <2>21, <2>23, <2>25, UpdateKeepsBase DEF s6, gt
    <3> QED
      BY <3>2, <3>3, <3>4, <3>5, <3>6, <3>8
  <2>31. Sound(s6) => Sound(seat_set_focus(s6, v))
    BY <2>26, <2>28, FocusSeats
  <2>29. Base(seat_set_focus(s6, v), {}, {}) /\ Seated(seat_set_focus(s6, v))
    BY <2>26, <2>28, FocusSeats
  <2> QED
    BY <2>29, <2>30, <2>31, <1>1, <1>3, <1>6 DEF DeskInv
<1> QED
  BY <1>4, <1>5, <1>6

-----------------------------------------------------------------------------
(* Outputs and workspaces that come and go.                                *)

(* The list of a workspace to which no mapped view belongs is empty.       *)
LEMMA EmptyWorkspace ==
  ASSUME NEW s, NEW A, NEW G, Base(s, A, G), NEW w \in Ws,
         \A v \in Managed : s.life[v] = "mapped" /\ v \notin A => s.viewWs[v] # w
  PROVE  s.list[w] = <<>>
<1>1. s.list[w] \in Seq(Managed)
  BY DEF Base, DeskType
<1>2. ToSet(s.list[w]) \subseteq Managed
  BY <1>1, EmptyList
<1>3. ToSet(s.list[w]) = {}
  BY <1>2 DEF Base, InLists
<1> QED
  BY <1>1, <1>3, EmptyList

(* A workspace that does not exist lists no view.                          *)
LEMMA DeadWorkspace ==
  ASSUME NEW s, NEW A, NEW G, Base(s, A, G), NEW w \in Ws, w \notin LiveWs(s)
  PROVE  s.list[w] = <<>>
<1>1. \A v \in Managed : s.life[v] = "mapped" /\ v \notin A => s.viewWs[v] # w
  BY DEF Base, InLists, Managed
<1> QED
  BY <1>1, EmptyWorkspace

(* What full_screen_workspace changes, when each workspace has a tile of   *)
(* its own.                                                                *)
LEMMA FullScreenFields ==
  ASSUME NEW s \in DeskType, NEW W \in SUBSET Ws, NEW f \in [W -> Tiles],
         \A w, x \in W : f[w] = f[x] => w = x
  PROVE  LET t == full_screen_workspace(s, W, f)
         IN  /\ t \in DeskType /\ Same(s, t, {"tileWs", "ftile", "list"})
             /\ \A w \in W : /\ t.ftile[w] = f[w] /\ t.tileWs[f[w]] = w
                             /\ t.list[w] = <<>>
             /\ \A w \in Ws \ W : t.ftile[w] = s.ftile[w] /\ t.list[w] = s.list[w]
             /\ \A x \in Tiles : (\E w \in W : f[w] = x) \/ t.tileWs[x] = s.tileWs[x]
<1> DEFINE t == full_screen_workspace(s, W, f)
<1>1. /\ DOMAIN t = Fields /\ t = [k \in Fields |-> t[k]]
      /\ Same(s, t, {"tileWs", "ftile", "list"})
      /\ t.tileWs = [x \in Tiles |-> IF \E w \in W : f[w] = x
                                     THEN CHOOSE w \in W : f[w] = x ELSE s.tileWs[x]]
      /\ t.ftile = [w \in Ws |-> IF w \in W THEN f[w] ELSE s.ftile[w]]
      /\ t.list = [w \in Ws |-> IF w \in W THEN <<>> ELSE s.list[w]]
  BY DEF full_screen_workspace, DeskType, Same, Fields
<1> HIDE DEF t
<1>2. ASSUME NEW w \in W PROVE t.tileWs[f[w]] = w
  <2>1. f[w] \in Tiles /\ \E x \in W : f[x] = f[w]
    OBVIOUS
  <2>2. (CHOOSE x \in W : f[x] = f[w]) = w
    OBVIOUS
  <2> QED
    BY <2>1, <2>2, <1>1
<1>3. t.tileWs \in [Tiles -> Ws \cup {NULL}]
  <2>1. \A x \in Tiles : t.tileWs[x] \in Ws \cup {NULL}
    <3> TAKE x \in Tiles
    <3>1. CASE \E w \in W : f[w] = x
      BY <3>1, <1>1, <1>2
    <3>2. CASE ~ \E w \in W : f[w] = x
      BY <3>2, <1>1 DEF DeskType
    <3> QED
      BY <3>1, <3>2
  <2> QED
    BY <2>1, <1>1
<1>4. t.ftile \in [Ws -> Tiles \cup {NULL}]
  <2>1. \A w \in Ws : t.ftile[w] \in Tiles \cup {NULL}
    BY <1>1 DEF DeskType
  <2> QED
    BY <2>1, <1>1
<1>5. t.list \in [Ws -> Seq(Managed)]
  <2>1. <<>> \in Seq(Managed) /\ s.list \in [Ws -> Seq(Managed)]
    BY EmptySeq DEF DeskType
  <2>2. \A w \in Ws : t.list[w] \in Seq(Managed)
    BY <2>1, <1>1
  <2> QED
    BY <2>2, <1>1
<1>6. t \in DeskType
  BY <1>1, <1>3, <1>4, <1>5 DEF DeskType, Same, Fields
<1> QED
  BY <1>1, <1>2, <1>6 DEF t

(* What workspace_free changes.                                            *)
LEMMA FreeFields ==
  ASSUME NEW s \in DeskType, NEW W \in SUBSET Ws
  PROVE  LET t == workspace_free(s, W)
         IN  /\ t \in DeskType
             /\ Same(s, t, {"tileWs", "tileView", "ftile", "list", "tree"})
             /\ \A x \in Tiles : IF s.tileWs[x] \in W
                                 THEN t.tileWs[x] = NULL /\ t.tileView[x] = NULL
                                 ELSE /\ t.tileWs[x] = s.tileWs[x]
                                      /\ t.tileView[x] = s.tileView[x]
             /\ \A w \in Ws \ W : t.ftile[w] = s.ftile[w] /\ t.list[w] = s.list[w]
             /\ \A w \in W : t.list[w] = <<>>
             /\ \A v \in Views : s.tree[v] \notin W => t.tree[v] = s.tree[v]
<1> DEFINE t == workspace_free(s, W)
<1>1. /\ DOMAIN t = Fields /\ t = [k \in Fields |-> t[k]]
      /\ Same(s, t, {"tileWs", "tileView", "ftile", "list", "tree"})
      /\ t.tileWs = [x \in Tiles |-> IF s.tileWs[x] \in W THEN NULL ELSE s.tileWs[x]]
      /\ t.tileView = [x \in Tiles |-> IF s.tileWs[x] \in W THEN NULL ELSE s.tileView[x]]
      /\ t.list = [w \in Ws |-> IF w \in W THEN <<>> ELSE s.list[w]]
      /\ t.ftile = [w \in Ws |-> IF w \in W THEN NULL ELSE s.ftile[w]]
      /\ t.tree = [v \in Views |-> IF s.tree[v] \in W THEN NULL ELSE s.tree[v]]
  BY DEF workspace_free, FreeTilesOf, DeskType, Same, Fields
<1> HIDE DEF t
<1>2. t.list \in [Ws -> Seq(Managed)]
  <2>1. <<>> \in Seq(Managed) /\ s.list \in [Ws -> Seq(Managed)]
    BY EmptySeq DEF DeskType
  <2>2. \A w \in Ws : t.list[w] \in Seq(Managed)
    BY <2>1, <1>1
  <2> QED
    BY <2>2, <1>1
<1>3. /\ t.tileWs \in [Tiles -> Ws \cup {NULL}]
      /\ t.tileView \in [Tiles -> Views \cup {NULL}]
      /\ t.ftile \in [Ws -> Tiles \cup {NULL}]
      /\ t.tree \in [Views -> Ws \cup {NULL}]
  <2>1. \A x \in Tiles : t.tileWs[x] \in Ws \cup {NULL} /\ t.tileView[x] \in Views \cup {NULL}
    BY <1>1 DEF DeskType
  <2>2. \A w \in Ws : t.ftile[w] \in Tiles \cup {NULL}
    BY <1>1 DEF DeskType
  <2>3. \A v \in Views : t.tree[v] \in Ws \cup {NULL}
    BY <1>1 DEF DeskType
  <2> QED
    BY <2>1, <2>2, <2>3, <1>1
<1>4. t \in DeskType
  BY <1>1, <1>2, <1>3 DEF DeskType, Same, Fields
<1> QED
  BY <1>1, <1>4 DEF t

(* Workspaces without views are removed (D) and added (N); the others and  *)
(* the views stay as they are.                                             *)
LEMMA ReplacedKeeps ==
  ASSUME NEW s, Base(s, {}, {}), NEW t \in DeskType, NEW D, NEW N,
         Same(s, t, {"outputs", "nws", "output", "currWs", "ftile", "tileWs", "focus",
                     "kb", "ub"}),
         Distinct(t.outputs), t.output \in ToSet(t.outputs),
         \A o \in ToSet(t.outputs) : t.currWs[o] < t.nws,
         \A w \in LiveWs(s) : w \notin D => w \in LiveWs(t),
         \A w \in LiveWs(t) : w \in N \/ w \in LiveWs(s) \ D,
         \A w \in N : t.ftile[w] # NULL /\ t.tileWs[t.ftile[w]] = w,
         \A w \in LiveWs(t) \ N : t.ftile[w] = s.ftile[w],
         \A x \in Tiles : IF s.tileWs[x] \in D \cup {NULL}
                          THEN t.tileWs[x] \in LiveWs(t) \cup {NULL}
                          ELSE t.tileWs[x] = s.tileWs[x],
         \A v \in Views : s.life[v] = "mapped" => s.viewWs[v] \notin D
  PROVE  Base(t, {}, {})
<1>1. /\ t.tileView = s.tileView /\ t.viewTile = s.viewTile /\ t.viewWs = s.viewWs
      /\ t.list = s.list /\ t.life = s.life /\ t.tree = s.tree
  BY DEF Same, Fields
<1>2. LiveWs(s) \subseteq Ws /\ LiveWs(t) \subseteq Ws /\ NULL \notin Ws
  BY LiveProperties, DesktopAssumption DEF Base
<1>3. ASSUME NEW w \in LiveWs(t)
      PROVE  t.ftile[w] # NULL /\ t.tileWs[t.ftile[w]] = w
  <2>1. CASE w \in N
    BY <2>1
  <2>2. CASE w \notin N
    <3>1. /\ s.ftile[w] # NULL /\ s.ftile[w] \in Tiles /\ s.tileWs[s.ftile[w]] = w
          /\ w \notin D /\ w # NULL
      BY <2>2, <1>2 DEF Base, Placed, DeskType
    <3> QED
      BY <2>2, <3>1
  <2> QED
    BY <2>1, <2>2
<1>4. ASSUME NEW x \in Tiles PROVE t.tileWs[x] \in LiveWs(t) \cup {NULL}
  <2>1. s.tileWs[x] \in LiveWs(s) \cup {NULL}
    BY DEF Base, Placed
  <2> QED
    BY <2>1
<1>5. Placed(t, {})
  BY <1>3, <1>4 DEF Placed
<1>6. Linked(t, {}, {})
  <2>1. ASSUME NEW x \in Tiles, t.tileView[x] # NULL PROVE t.tileWs[x] = s.tileWs[x]
    <3>1. s.tileWs[x] # NULL /\ s.tileWs[x] \notin D
      BY <2>1, <1>1 DEF Base, Linked, Managed
    <3> QED
      BY <3>1
  <2> QED
    BY <2>1, <1>1 DEF Base, Linked
<1>7. InLists(t, {})
  BY <1>1 DEF Base, InLists
<1> QED
  BY <1>5, <1>6, <1>7 DEF Base

(* A new output gets as many workspaces as the others have.                *)
LEMMA NewOutputKeeps ==
  ASSUME NEW s, DeskInv(s), NEW o \in Outputs \ ToSet(s.outputs),
         NEW f \in [{<<o, i>> : i \in 0 .. s.nws - 1} -> FreeTiles(s)],
         \A w, x \in {<<o, i>> : i \in 0 .. s.nws - 1} : f[w] = f[x] => w = x
  PROVE  DeskInv(handle_new_output(s, o, f)) /\ (Sound(s) => Sound(handle_new_output(s, o, f)))
<1> DEFINE N == {<<o, i>> : i \in 0 .. s.nws - 1}
           u == full_screen_workspace(s, N, f)
           t == [u EXCEPT !.outputs = Append(@, o), !.currWs[o] = 0]
<1>1. Base(s, {}, {}) /\ Seated(s) /\ s \in DeskType /\ NULL \notin Ws
  BY DesktopAssumption DEF DeskInv, Base
<1>2. N \in SUBSET Ws /\ N \cap LiveWs(s) = {}
  <2>1. 0 .. s.nws - 1 \subseteq 0 .. MaxWs - 1
    BY <1>1, DesktopAssumption DEF DeskType
  <2> QED
    BY <2>1, <1>1, LiveProperties DEF Ws
<1>3. \A w \in N : f[w] \in Tiles /\ s.tileWs[f[w]] = NULL
  BY DEF FreeTiles
<1>4. f \in [N -> Tiles] /\ \A w, x \in N : f[w] = f[x] => w = x
  BY <1>3
<1>5. handle_new_output(s, o, f) = t
  BY DEF handle_new_output
<1> HIDE DEF u, t
<1>6. \A w : w \in N <=> \E i \in 0 .. s.nws - 1 : w = <<o, i>>
  OBVIOUS
<1> HIDE DEF N
<1>7. /\ u \in DeskType /\ Same(s, u, {"tileWs", "ftile", "list"})
      /\ \A w \in N : /\ u.ftile[w] = f[w] /\ u.tileWs[f[w]] = w
                      /\ u.list[w] = <<>>
      /\ \A w \in Ws \ N : u.ftile[w] = s.ftile[w] /\ u.list[w] = s.list[w]
      /\ \A x \in Tiles : (\E w \in N : f[w] = x) \/ u.tileWs[x] = s.tileWs[x]
  BY <1>1, <1>2, <1>4, FullScreenFields DEF u
<1>8. u.list = s.list
  <2>1. \A w \in Ws : u.list[w] = s.list[w]
    BY <1>1, <1>2, <1>7, DeadWorkspace
  <2>2. u.list \in [Ws -> Seq(Managed)] /\ s.list \in [Ws -> Seq(Managed)]
    BY <1>1, <1>7 DEF DeskType
  <2> QED
    BY <2>1, <2>2
<1>9. /\ Append(s.outputs, o) \in Seq(Outputs) /\ Distinct(Append(s.outputs, o))
      /\ ToSet(Append(s.outputs, o)) = ToSet(s.outputs) \cup {o}
  <2>1. s.outputs \in Seq(Outputs) /\ Distinct(s.outputs)
    BY <1>1 DEF Base, DeskType, Placed
  <2> QED
    BY <2>1, Appended
<1>10. u.outputs = s.outputs /\ u.currWs = s.currWs
  BY <1>7 DEF Same, Fields
<1>11. /\ t \in DeskType /\ Same(u, t, {"outputs", "currWs"})
       /\ t.outputs = Append(s.outputs, o) /\ t.currWs = [s.currWs EXCEPT ![o] = 0]
  <2>1. 0 \in 0 .. MaxWs - 1 /\ o \in Outputs
    BY DesktopAssumption
  <2>2. [s.currWs EXCEPT ![o] = 0] \in [Outputs -> 0 .. MaxWs - 1]
    BY <2>1, <1>1 DEF DeskType
  <2> QED
    BY <2>1, <2>2, <1>7, <1>9, <1>10 DEF t, DeskType, Same, Fields
<1>12. /\ t.nws = s.nws /\ t.output = s.output /\ t.ftile = u.ftile /\ t.tileWs = u.tileWs
       /\ t.tileView = s.tileView /\ t.viewTile = s.viewTile /\ t.viewWs = s.viewWs
       /\ t.list = s.list /\ t.life = s.life /\ t.tree = s.tree
       /\ t.focus = s.focus /\ t.kb = s.kb /\ t.layer = s.layer /\ t.running = s.running
       /\ t.ub = s.ub
  BY <1>7, <1>8, <1>11 DEF Same, Fields
<1>13. \A w : w \in LiveWs(t) <=> w \in LiveWs(s) \/ w \in N
  <2>1. \A w : w \in LiveWs(t) <=>
          \E p \in ToSet(s.outputs) \cup {o}, i \in 0 .. s.nws - 1 : w = <<p, i>>
    BY <1>9, <1>11, <1>12 DEF LiveWs
  <2>2. \A w : w \in LiveWs(s) <=>
          \E p \in ToSet(s.outputs), i \in 0 .. s.nws - 1 : w = <<p, i>>
    BY DEF LiveWs
  <2> QED
    BY <2>1, <2>2, <1>6
<1>14. Same(s, t, {"outputs", "nws", "output", "currWs", "ftile", "tileWs", "focus", "kb", "ub"})
  BY <1>12 DEF Same, Fields
<1>15. \A p \in ToSet(t.outputs) : t.currWs[p] < t.nws
  <2>1. s.currWs \in [Outputs -> 0 .. MaxWs - 1] /\ 0 < s.nws
    BY <1>1, DesktopAssumption DEF DeskType
  <2> QED
    BY <2>1, <1>1, <1>9, <1>11, <1>12 DEF Base, Placed
<1>16. \A w \in N : t.ftile[w] # NULL /\ t.tileWs[t.ftile[w]] = w
  BY <1>3, <1>7, <1>12, DesktopAssumption
<1>17. \A w \in LiveWs(t) \ N : t.ftile[w] = s.ftile[w]
  BY <1>1, <1>7, <1>12, <1>13, LiveProperties
<1>18. ASSUME NEW x \in Tiles
       PROVE  IF s.tileWs[x] \in {} \cup {NULL}
              THEN t.tileWs[x] \in LiveWs(t) \cup {NULL}
              ELSE t.tileWs[x] = s.tileWs[x]
  <2>1. CASE \E w \in N : f[w] = x
    BY <2>1, <1>3, <1>7, <1>12, <1>13
  <2>2. CASE u.tileWs[x] = s.tileWs[x]
    BY <2>2, <1>12
  <2> QED
    BY <2>1, <2>2, <1>7
<1>19. Base(t, {}, {})
  <2>1. PICK D : D = {}
    OBVIOUS
  <2>2. /\ \A w \in LiveWs(s) : w \notin D => w \in LiveWs(t)
        /\ \A w \in LiveWs(t) : w \in N \/ w \in LiveWs(s) \ D
        /\ \A v \in Views : s.life[v] = "mapped" => s.viewWs[v] \notin D
    BY <2>1, <1>13
  <2>3. \A x \in Tiles : IF s.tileWs[x] \in D \cup {NULL}
                         THEN t.tileWs[x] \in LiveWs(t) \cup {NULL}
                         ELSE t.tileWs[x] = s.tileWs[x]
    BY <2>1, <1>18
  <2>4. Distinct(t.outputs) /\ t.output \in ToSet(t.outputs)
    BY <1>1, <1>9, <1>11, <1>12 DEF Base, Placed
  <2> QED
    BY <2>2, <2>3, <2>4, <1>1, <1>11, <1>14, <1>15, <1>16, <1>17, ReplacedKeeps
<1>20. Seated(t)
  <2>1. CurrWs(s) \in LiveWs(s) /\ CurrWs(s) \in Ws /\ CurrWs(s) = <<s.output, s.currWs[s.output]>>
    BY <1>1, CurrentProperties DEF CurrWs
  <2>2. s.output # o /\ s.output \in Outputs
    BY <1>1 DEF Base, Placed, DeskType
  <2>3. CurrWs(t) = CurrWs(s)
    BY <2>2, <1>1, <1>11, <1>12 DEF CurrWs, DeskType
  <2>4. t.ftile[CurrWs(s)] = s.ftile[CurrWs(s)]
    BY <2>1, <1>2, <1>7, <1>12
  <2> QED
    BY <2>3, <2>4, <1>1, <1>12 DEF Seated, FocusedTile
<1>21. Sound(s) => Sound(t)
  BY <1>12 DEF Sound
<1> QED
  BY <1>5, <1>19, <1>20, <1>21 DEF DeskInv

(* `workspaces n`, when no view is in a workspace that goes.               *)
LEMMA SetNwsKeeps ==
  ASSUME NEW s, DeskInv(s), NEW n \in 1 .. MaxWs,
         \A v \in Views, o \in Outputs, i \in n .. MaxWs - 1 : s.tree[v] # <<o, i>>,
         NEW N \in SUBSET Ws,
         \A o, i : <<o, i>> \in N <=> o \in ToSet(s.outputs) /\ i \in s.nws .. n - 1,
         NEW f \in [N -> FreeTiles(s)], \A w, x \in N : f[w] = f[x] => w = x
  PROVE  DeskInv(keybinding_set_nws(s, n, f)) /\ (Sound(s) => Sound(keybinding_set_nws(s, n, f)))
<1> DEFINE gone == ToSet(s.outputs) \X (n .. s.nws - 1)
           moved(o) == FlattenSeq([i \in 1 .. IF s.nws > n THEN s.nws - n ELSE 0 |->
                                     s.list[<<o, n + i - 1>>]])
           s1 == [s EXCEPT
                    !.nws = n,
                    !.list = [w \in Ws |->
                       IF w[1] \in ToSet(s.outputs) /\ w[2] = n - 1
                       THEN Reverse(moved(w[1])) \o @[w] ELSE @[w]],
                    !.viewWs = [v \in Views |->
                       IF s.life[v] = "mapped" /\ @[v] \in gone
                       THEN <<@[v][1], n - 1>> ELSE @[v]]]
           z == workspace_free(s1, gone)
           u == full_screen_workspace(z, N, f)
           t == [u EXCEPT !.currWs = [o \in Outputs |->
                   IF o \in ToSet(s.outputs) /\ @[o] >= n THEN n - 1 ELSE @[o]]]
<1>1. /\ Base(s, {}, {}) /\ s \in DeskType /\ NULL \notin Ws
      /\ ToSet(s.outputs) \subseteq Outputs /\ s.nws \in 1 .. MaxWs /\ MaxWs \in Nat
      /\ s.list \in [Ws -> Seq(Managed)] /\ s.viewWs \in [Views -> Ws \cup {NULL}]
  BY DesktopAssumption, EmptyList DEF DeskInv, Base, DeskType
<1>2. keybinding_set_nws(s, n, f) = Refocus(t)
  <2>1. N = ToSet(s.outputs) \X (s.nws .. n - 1)
    BY DEF Ws
  <2> QED
    BY <2>1 DEF keybinding_set_nws
<1>3. \A w : w \in gone <=> \E o \in ToSet(s.outputs), i \in n .. s.nws - 1 : w = <<o, i>>
  OBVIOUS
<1>4. \A w : w \in N <=> \E o \in ToSet(s.outputs), i \in s.nws .. n - 1 : w = <<o, i>>
  BY DEF Ws
<1>5. gone \in SUBSET Ws /\ N \in SUBSET Ws
  BY <1>1, <1>3, <1>4 DEF Ws
<1> HIDE DEF gone, moved, s1, z, u, t
<1>6. \A v \in Views : s.tree[v] \notin gone
  <2>1. ASSUME NEW v \in Views, s.tree[v] \in gone PROVE FALSE
    <3>1. PICK o \in ToSet(s.outputs), i \in n .. s.nws - 1 : s.tree[v] = <<o, i>>
      BY <2>1, <1>3
    <3>2. o \in Outputs /\ i \in n .. MaxWs - 1
      BY <1>1
    <3> QED
      BY <3>1, <3>2
  <2> QED
    BY <2>1
<1>7. \A v \in Views : s.life[v] = "mapped" => s.viewWs[v] \notin gone
  BY <1>1, <1>6 DEF Base, InLists
<1>8. \A w \in gone : s.list[w] = <<>>
  BY <1>1, <1>5, <1>7, EmptyWorkspace DEF Managed
<1>9. \A w \in N : s.list[w] = <<>>
  <2>1. \A w \in N : w \notin LiveWs(s)
    BY <1>1, <1>4 DEF LiveWs
  <2> QED
    BY <2>1, <1>1, <1>5, DeadWorkspace
<1>10. ASSUME NEW o \in ToSet(s.outputs) PROVE moved(o) \in Seq(Managed) /\ Reverse(moved(o)) = <<>>
  <2> DEFINE m == IF s.nws > n THEN s.nws - n ELSE 0
             seqs == [i \in 1 .. m |-> s.list[<<o, n + i - 1>>]]
  <2>1. m \in Nat /\ \A i \in 1 .. m : n + i - 1 \in n .. s.nws - 1
    BY <1>1
  <2> HIDE DEF m
  <2>2. \A i \in 1 .. m : seqs[i] = <<>>
    BY <2>1, <1>3, <1>8
  <2>3. <<>> \in Seq(Managed) /\ Distinct(<<>>) /\ ToSet(<<>>) = {}
    BY EmptySeq DEF Distinct, ToSet
  <2>4. seqs \in Seq(Seq(Managed)) /\ DOMAIN seqs = 1 .. m
    <3>1. seqs \in [1 .. m -> Seq(Managed)]
      BY <2>2, <2>3
    <3>2. Seq(Seq(Managed)) = UNION {[1 .. k -> Seq(Managed)] : k \in Nat}
      BY SeqDef
    <3> QED
      BY <3>1, <3>2, <2>1
  <2>5. moved(o) = FlattenSeq(seqs)
    BY DEF moved, m
  <2> HIDE DEF seqs
  <2>6. /\ moved(o) \in Seq(Managed)
        /\ \A e : e \in ToSet(moved(o)) <=> \E i \in DOMAIN seqs : e \in ToSet(seqs[i])
    <3>1. /\ \A i \in DOMAIN seqs : Distinct(seqs[i])
          /\ \A i, j \in DOMAIN seqs : i # j => ToSet(seqs[i]) \cap ToSet(seqs[j]) = {}
      BY <2>2, <2>3, <2>4
    <3>2. /\ FlattenSeq(seqs) \in Seq(Managed)
          /\ \A e : e \in ToSet(FlattenSeq(seqs)) <=> \E i \in DOMAIN seqs : e \in ToSet(seqs[i])
      BY <3>1, <2>4, FlattenProperties
    <3> QED
      BY <3>2, <2>5
  <2>7. ToSet(moved(o)) = {}
    BY <2>2, <2>3, <2>4, <2>6
  <2>8. Reverse(moved(o)) \in Seq(Managed) /\ ToSet(Reverse(moved(o))) = {}
    BY <2>6, <2>7, Reversed
  <2> QED
    BY <2>6, <2>8, EmptyList
<1>11. /\ DOMAIN s1 = Fields /\ s1 = [k \in Fields |-> s1[k]]
       /\ Same(s, s1, {"nws", "list", "viewWs"}) /\ s1.nws = n
       /\ s1.list = [w \in Ws |-> IF w[1] \in ToSet(s.outputs) /\ w[2] = n - 1
                                  THEN Reverse(moved(w[1])) \o s.list[w] ELSE s.list[w]]
       /\ s1.viewWs = [v \in Views |-> IF s.life[v] = "mapped" /\ s.viewWs[v] \in gone
                                       THEN <<s.viewWs[v][1], n - 1>> ELSE s.viewWs[v]]
  BY <1>1 DEF s1, DeskType, Same, Fields
<1>12. s1.list = s.list /\ s1.viewWs = s.viewWs
  <2>1. ASSUME NEW w \in Ws PROVE s1.list[w] = s.list[w]
    <3>1. s.list[w] \in Seq(Managed)
      BY <1>1
    <3>2. <<>> \o s.list[w] = s.list[w]
      BY <3>1, ConcatEmptySeq
    <3>3. s1.list[w] = IF w[1] \in ToSet(s.outputs) /\ w[2] = n - 1
                       THEN Reverse(moved(w[1])) \o s.list[w] ELSE s.list[w]
      BY <1>11
    <3>4. CASE w[1] \in ToSet(s.outputs) /\ w[2] = n - 1
      <4>1. Reverse(moved(w[1])) = <<>>
        BY <3>4, <1>10
      <4> QED
        BY <4>1, <3>2, <3>3, <3>4
    <3>5. CASE ~(w[1] \in ToSet(s.outputs) /\ w[2] = n - 1)
      BY <3>3, <3>5
    <3> QED
      BY <3>4, <3>5
  <2>2. s1.list = s.list
    <3>1. s1.list = [w \in Ws |-> s1.list[w]]
      BY <1>11
    <3>2. s.list = [w \in Ws |-> s.list[w]]
      BY <1>1
    <3> QED
      BY <3>1, <3>2, <2>1
  <2>3. s1.viewWs = s.viewWs
    BY <1>1, <1>7, <1>11
  <2> QED
    BY <2>2, <2>3
<1>13. s1 \in DeskType /\ Same(s, s1, {"nws"})
  BY <1>1, <1>11, <1>12 DEF DeskType, Same, Fields
<1>14. /\ z \in DeskType
       /\ Same(s1, z, {"tileWs", "tileView", "ftile", "list", "tree"})
       /\ \A x \in Tiles : IF s1.tileWs[x] \in gone
                           THEN z.tileWs[x] = NULL /\ z.tileView[x] = NULL
                           ELSE z.tileWs[x] = s1.tileWs[x] /\ z.tileView[x] = s1.tileView[x]
       /\ \A w \in Ws \ gone : z.ftile[w] = s1.ftile[w] /\ z.list[w] = s1.list[w]
       /\ \A w \in gone : z.list[w] = <<>>
       /\ \A v \in Views : s1.tree[v] \notin gone => z.tree[v] = s1.tree[v]
  BY <1>5, <1>13, FreeFields DEF z
<1>15. /\ s1.outputs = s.outputs /\ s1.output = s.output /\ s1.currWs = s.currWs
       /\ s1.ftile = s.ftile /\ s1.tileWs = s.tileWs /\ s1.tileView = s.tileView
       /\ s1.tree = s.tree /\ s1.viewTile = s.viewTile /\ s1.life = s.life
       /\ s1.layer = s.layer /\ s1.running = s.running
  BY <1>13 DEF Same, Fields
<1>16. /\ z.outputs = s.outputs /\ z.output = s.output /\ z.currWs = s.currWs
       /\ z.nws = n /\ z.viewTile = s.viewTile /\ z.life = s.life /\ z.viewWs = s.viewWs
       /\ z.layer = s.layer /\ z.running = s.running
  <2>1. /\ z.outputs = s1.outputs /\ z.output = s1.output /\ z.currWs = s1.currWs
        /\ z.nws = s1.nws /\ z.viewTile = s1.viewTile /\ z.life = s1.life
        /\ z.viewWs = s1.viewWs /\ z.layer = s1.layer /\ z.running = s1.running
    BY <1>14 DEF Same, Fields
  <2>2. s1.nws = n
    BY <1>11
  <2> QED
    BY <2>1, <2>2, <1>12, <1>15
<1>17. z.list = s.list /\ z.tree = s.tree /\ z.tileView = s.tileView
  <2>1. \A w \in Ws : z.list[w] = s.list[w]
    BY <1>8, <1>12, <1>14
  <2>2. \A v \in Views : z.tree[v] = s.tree[v]
    BY <1>6, <1>14, <1>15
  <2>3. \A x \in Tiles : s.tileWs[x] \in gone => s.tileView[x] = NULL
    BY <1>1, <1>7 DEF Base, Linked, Managed
  <2>4. \A x \in Tiles : z.tileView[x] = s.tileView[x]
    BY <2>3, <1>14, <1>15
  <2>5. /\ z.list \in [Ws -> Seq(Managed)] /\ z.tree \in [Views -> Ws \cup {NULL}]
        /\ z.tileView \in [Tiles -> Views \cup {NULL}]
        /\ s.tree \in [Views -> Ws \cup {NULL}] /\ s.tileView \in [Tiles -> Views \cup {NULL}]
    BY <1>1, <1>14 DEF DeskType
  <2>6. z.list = s.list
    BY <2>1, <2>5, <1>1
  <2> QED
    BY <2>2, <2>4, <2>5, <2>6
<1>18. \A w \in N : f[w] \in Tiles /\ s.tileWs[f[w]] = NULL
  BY DEF FreeTiles
<1>19. f \in [N -> Tiles]
  BY <1>18
<1>20. /\ u \in DeskType /\ Same(z, u, {"tileWs", "ftile", "list"})
       /\ \A w \in N : /\ u.ftile[w] = f[w] /\ u.tileWs[f[w]] = w
                       /\ u.list[w] = <<>>
       /\ \A w \in Ws \ N : u.ftile[w] = z.ftile[w] /\ u.list[w] = z.list[w]
       /\ \A x \in Tiles : (\E w \in N : f[w] = x) \/ u.tileWs[x] = z.tileWs[x]
  <2>1. z \in DeskType /\ \A w, x \in N : f[w] = f[x] => w = x
    BY <1>14
  <2> QED
    BY <2>1, <1>5, <1>19, FullScreenFields DEF u
<1>21. u.list = s.list
  <2>1. \A w \in Ws : u.list[w] = s.list[w]
    BY <1>9, <1>17, <1>20
  <2>2. u.list \in [Ws -> Seq(Managed)]
    BY <1>20 DEF DeskType
  <2> QED
    BY <2>1, <2>2, <1>1
<1>22. u.currWs = s.currWs
  BY <1>16, <1>20 DEF Same, Fields
<1>23. /\ t \in DeskType /\ Same(u, t, {"currWs"})
       /\ t.currWs = [o \in Outputs |->
            IF o \in ToSet(s.outputs) /\ s.currWs[o] >= n THEN n - 1 ELSE s.currWs[o]]
  <2>1. /\ DOMAIN t = Fields /\ t = [k \in Fields |-> t[k]] /\ Same(u, t, {"currWs"})
        /\ t.currWs = [o \in Outputs |->
             IF o \in ToSet(s.outputs) /\ s.currWs[o] >= n THEN n - 1 ELSE s.currWs[o]]
    BY <1>20, <1>22 DEF t, DeskType, Same, Fields
  <2>2. t.currWs \in [Outputs -> 0 .. MaxWs - 1]
    <3>1. s.currWs \in [Outputs -> 0 .. MaxWs - 1] /\ n - 1 \in 0 .. MaxWs - 1
      BY <1>1 DEF DeskType
    <3>2. \A o \in Outputs : t.currWs[o] \in 0 .. MaxWs - 1
      BY <2>1, <3>1
    <3> QED
      BY <2>1, <3>2
  <2> QED
    BY <2>1, <2>2, <1>20 DEF DeskType, Same, Fields
<1>24. /\ t.nws = n /\ t.output = s.output /\ t.outputs = s.outputs
       /\ t.ftile = u.ftile /\ t.tileWs = u.tileWs
       /\ t.tileView = s.tileView /\ t.viewTile = s.viewTile /\ t.viewWs = s.viewWs
       /\ t.list = s.list /\ t.life = s.life /\ t.tree = s.tree
       /\ t.layer = s.layer /\ t.running = s.running
  BY <1>16, <1>17, <1>20, <1>21, <1>23 DEF Same, Fields
<1>25. \A o, i : <<o, i>> \in LiveWs(t) <=> o \in ToSet(s.outputs) /\ i \in 0 .. n - 1
  BY <1>23, <1>24, LiveProperties
<1>26. /\ \A w \in LiveWs(s) : w \notin gone => w \in LiveWs(t)
       /\ \A w \in LiveWs(t) : w \in N \/ w \in LiveWs(s) \ gone
       /\ \A w \in N : w \in LiveWs(t)
  <2>1. \A w : w \in LiveWs(s) <=> \E o \in ToSet(s.outputs), i \in 0 .. s.nws - 1 : w = <<o, i>>
    BY DEF LiveWs
  <2>2. \A w : w \in LiveWs(t) <=> \E o \in ToSet(s.outputs), i \in 0 .. n - 1 : w = <<o, i>>
    BY <1>24 DEF LiveWs
  <2>3. ASSUME NEW w \in LiveWs(s), w \notin gone PROVE w \in LiveWs(t)
    <3>1. PICK o \in ToSet(s.outputs), i \in 0 .. s.nws - 1 : w = <<o, i>>
      BY <2>1
    <3>2. i \in 0 .. n - 1
      BY <3>1, <2>3, <1>1, <1>3
    <3> QED
      BY <3>1, <3>2, <2>2
  <2>4. ASSUME NEW w \in LiveWs(t) PROVE w \in N \/ w \in LiveWs(s) \ gone
    <3>1. PICK o \in ToSet(s.outputs), i \in 0 .. n - 1 : w = <<o, i>>
      BY <2>2
    <3>2. CASE i \in s.nws .. n - 1
      BY <3>1, <3>2, <1>4
    <3>3. CASE i \notin s.nws .. n - 1
      <4>1. i \in 0 .. s.nws - 1 /\ i \notin n .. s.nws - 1
        BY <3>3, <1>1
      <4> QED
        BY <3>1, <4>1, <2>1, <1>3
    <3> QED
      BY <3>2, <3>3
  <2>5. ASSUME NEW w \in N PROVE w \in LiveWs(t)
    <3>1. PICK o \in ToSet(s.outputs), i \in s.nws .. n - 1 : w = <<o, i>>
      BY <1>4
    <3>2. i \in 0 .. n - 1
      BY <1>1
    <3> QED
      BY <3>1, <3>2, <2>2
  <2> QED
    BY <2>3, <2>4, <2>5
<1>27. \A w \in N : t.ftile[w] # NULL /\ t.tileWs[t.ftile[w]] = w
  BY <1>18, <1>20, <1>24, DesktopAssumption
<1>28. \A w \in LiveWs(t) \ N : t.ftile[w] = s.ftile[w]
  <2>1. \A w \in LiveWs(t) \ N : w \in Ws \ gone
    BY <1>1, <1>26, LiveProperties
  <2> QED
    BY <2>1, <1>14, <1>15, <1>20, <1>24
<1>29. ASSUME NEW x \in Tiles
       PROVE  IF s.tileWs[x] \in gone \cup {NULL}
              THEN t.tileWs[x] \in LiveWs(t) \cup {NULL}
              ELSE t.tileWs[x] = s.tileWs[x]
  <2>1. CASE \E w \in N : f[w] = x
    BY <2>1, <1>18, <1>20, <1>24, <1>26
  <2>2. CASE u.tileWs[x] = z.tileWs[x]
    BY <2>2, <1>14, <1>15, <1>24
  <2> QED
    BY <2>1, <2>2, <1>20
<1>30. \A o \in ToSet(t.outputs) : t.currWs[o] < t.nws
  <2>1. \A o \in Outputs : s.currWs[o] \in Int
    BY <1>1 DEF DeskType
  <2> QED
    BY <2>1, <1>1, <1>23, <1>24
<1>31. Same(s, t, {"outputs", "nws", "output", "currWs", "ftile", "tileWs", "focus", "kb", "ub"})
  BY <1>24 DEF Same, Fields
<1>32. Base(t, {}, {})
  <2>1. Distinct(t.outputs) /\ t.output \in ToSet(t.outputs)
    BY <1>1, <1>24 DEF Base, Placed
  <2> QED
    BY <2>1, <1>1, <1>7, <1>23, <1>26, <1>27, <1>28, <1>29, <1>30, <1>31, ReplacedKeeps
<1>33. t.ub = s.ub /\ t.focus = s.focus
  <2>1. s1.ub = s.ub /\ s1.focus = s.focus
    BY <1>13 DEF Same, Fields
  <2>2. z.ub = s1.ub /\ z.focus = s1.focus
    BY <1>14 DEF Same, Fields
  <2>3. u.ub = z.ub /\ u.focus = z.focus
    BY <1>20 DEF Same, Fields
  <2>4. t.ub = u.ub /\ t.focus = u.focus
    BY <1>23 DEF Same, Fields
  <2> QED
    BY <2>1, <2>2, <2>3, <2>4
<1>34. Sound(s) => Sound(t)
  BY <1>24, <1>33 DEF Sound
<1>35. Sound(t) => Sound(Refocus(t))
  BY <1>32, RefocusSeats
<1> QED
  BY <1>2, <1>32, <1>34, <1>35, RefocusSeats DEF DeskInv

-----------------------------------------------------------------------------
(* The views of a vanishing output.                                        *)

(* One managed view is taken over by the current workspace.                *)
LEMMA AdoptKeeps ==
  ASSUME NEW s, NEW A, NEW G, Base(s, A, G), Seated(s), NEW v \in Managed, v \in A,
         s.life[v] = "mapped"
  PROVE  LET t == Adopt(s, v)
         IN  /\ Base(t, A \ {v}, G) /\ Seated(t) /\ t.life = s.life
             /\ \A x \in Unmanaged : t.viewWs[x] = s.viewWs[x]
             /\ Sound(s) => Sound(t)
<1> DEFINE w == CurrWs(s)
           j == Reparent(JoinWs(s, v, w), v, w)
           u == [j EXCEPT !.viewTile[v] = s.ftile[w]]
           t == Adopt(s, v)
           B == A \ {v}
<1>1. t = IF u.focus = NULL THEN seat_set_focus(u, v) ELSE u
  BY DEF Adopt
<1>2. /\ w \in LiveWs(s) /\ w \in Ws /\ FocusedTile(s) = s.ftile[w] /\ s.ftile[w] \in Tiles
      /\ v \in Views /\ v # NULL /\ s.tileWs[FocusedTile(s)] = w
  BY CurrentProperties, DesktopAssumption DEF Managed
<1>3. Base(j, B, G)
  BY <1>2, JoinKeeps
<1>4. Same(s, j, {"list", "viewWs", "tree", "ub"})
  BY <1>2, JoinKeeps
<1>5. j.viewWs = [s.viewWs EXCEPT ![v] = w]
  BY DEF Reparent, JoinWs, Base, DeskType
<1>6. v \in ToSet(j.list[w])
  BY <1>2, JoinKeeps
<1>7. SameLast(s, j)
  BY <1>2, JoinKeeps
<1>18. Sound(s) => Sound(j)
  BY <1>2, JoinKeeps
<1> HIDE DEF w, j, u, t, B
<1>8. /\ u \in DeskType /\ Same(j, u, {"viewTile"})
      /\ u.viewTile = [j.viewTile EXCEPT ![v] = s.ftile[w]]
  BY <1>2, <1>3 DEF u, Base, DeskType, Same, Fields
<1>9. /\ u.outputs = j.outputs /\ u.nws = j.nws /\ u.output = j.output
      /\ u.currWs = j.currWs /\ u.ftile = j.ftile /\ u.tileWs = j.tileWs
      /\ u.tileView = j.tileView /\ u.viewWs = j.viewWs
      /\ u.list = j.list /\ u.life = j.life /\ u.tree = j.tree
      /\ u.focus = j.focus /\ u.kb = j.kb
  BY <1>8 DEF Same, Fields
<1>10. /\ j.output = s.output /\ j.currWs = s.currWs /\ j.ftile = s.ftile
       /\ j.tileView = s.tileView /\ j.life = s.life /\ j.focus = s.focus /\ j.kb = s.kb
  BY <1>4 DEF Same, Fields
<1>11. LiveWs(u) = LiveWs(j) /\ CurrWs(u) = w /\ FocusedTile(u) = s.ftile[w]
  BY <1>9, <1>10 DEF LiveWs, CurrWs, FocusedTile, w
<1>12. \A x \in Tiles : s.tileView[x] # v
  BY <1>2 DEF Base, Linked
<1>13. Linked(u, B, G)
  BY <1>3, <1>8, <1>9, <1>10, <1>12 DEF Base, Linked, DeskType, Managed
<1>14. Base(u, B, G)
  BY <1>3, <1>8, <1>9, <1>11, <1>13 DEF Base, Placed, InLists
<1>15. \A x \in Unmanaged : u.viewWs[x] = s.viewWs[x]
  BY <1>5, <1>9, DesktopAssumption DEF Managed, Base, DeskType
<1>19. Sound(s) => Sound(u)
  <2>1. u.ub = j.ub
    BY <1>8 DEF Same, Fields
  <2>2. Sound(j) => Sound(u)
    BY <2>1, <1>9 DEF Sound
  <2> QED
    BY <2>2, <1>18
<1>16. CASE u.focus = NULL
  <2>1. Focusable(u, v)
    BY <1>6, <1>9, <1>10, <1>11, <1>12 DEF Focusable
  <2> DEFINE r == seat_set_focus(u, v)
  <2>2. Base(r, B, G) /\ Seated(r) /\ Frame(u, r)
    BY <2>1, <1>14, FocusSeats
  <2>3. t = r
    BY <1>1, <1>16
  <2>5. Sound(u) => Sound(r)
    BY <2>1, <1>14, FocusSeats
  <2> HIDE DEF r
  <2>4. t.life = s.life /\ t.viewWs = u.viewWs
    BY <2>2, <2>3, <1>9, <1>10, FrameProperties
  <2> QED
    BY <2>2, <2>3, <2>4, <2>5, <1>15, <1>19 DEF t, B
<1>17. CASE u.focus # NULL
  <2>1. ToSet(s.list[w]) # {}
    BY <1>9, <1>10, <1>17, FocusIsListed DEF w
  <2>2. Last(u.list[CurrWs(s)]) = Last(s.list[CurrWs(s)])
    BY <2>1, <1>2, <1>7, <1>9 DEF SameLast, w
  <2>3. Seated(u)
    BY <2>2, <1>9, <1>10, SameKeepsSeat
  <2> QED
    BY <2>3, <1>1, <1>9, <1>10, <1>14, <1>15, <1>17, <1>19 DEF t, B
<1> QED
  BY <1>16, <1>17

(* The function by which AdoptAll is defined, on its first k arguments.    *)
Adopts(s, views, g, n) ==
  g = [k \in 0 .. n |-> IF k = 0 THEN s ELSE Adopt(g[k - 1], views[k])]

(* The recursive function of AdoptAll exists, for every number of views.   *)
LEMMA AdoptExists ==
  ASSUME NEW s, NEW views, NEW n \in Nat
  PROVE  \E g : Adopts(s, views, g, n)
<1> DEFINE T == {k \in Nat : ~ \E g : Adopts(s, views, g, k)}
<1>1. CASE T = {}
  BY <1>1
<1>2. CASE T # {}
  <2>1. PICK m \in T : \A k \in T : m <= k
    BY <1>2, LeastNat
  <2>2. CASE m = 0
    <3> DEFINE h == [k \in 0 .. 0 |-> s]
    <3>1. h = [k \in 0 .. 0 |-> IF k = 0 THEN s ELSE Adopt(h[k - 1], views[k])]
      OBVIOUS
    <3> QED
      BY <2>1, <2>2, <3>1 DEF Adopts
  <2>3. CASE m # 0
    <3>1. m \in Nat /\ m - 1 \in Nat /\ ~(m <= m - 1)
      BY <2>1, <2>3
    <3>2. PICK g : Adopts(s, views, g, m - 1)
      BY <2>1, <3>1
    <3> DEFINE e == Adopt(g[m - 1], views[m])
               h == [k \in 0 .. m |-> IF k = m THEN e ELSE g[k]]
    <3>3. g = [k \in 0 .. m - 1 |-> IF k = 0 THEN s ELSE Adopt(g[k - 1], views[k])]
      BY <3>2 DEF Adopts
    <3>4. \A k \in 0 .. m : h[k] = IF k = 0 THEN s ELSE Adopt(h[k - 1], views[k])
      <4> TAKE k \in 0 .. m
      <4>1. k # 0 => k - 1 \in 0 .. m /\ k - 1 # m
        BY <3>1
      <4>2. CASE k = m
        BY <4>1, <4>2, <2>3
      <4>3. CASE k # m
        <5>1. k \in 0 .. m - 1
          BY <4>3, <3>1
        <5>2. g[k] = IF k = 0 THEN s ELSE Adopt(g[k - 1], views[k])
          BY <5>1, <3>3
        <5> QED
          BY <4>1, <4>3, <5>2
      <4> QED
        BY <4>2, <4>3
    <3>5. h = [k \in 0 .. m |-> h[k]]
      OBVIOUS
    <3> HIDE DEF h
    <3>6. Adopts(s, views, h, m)
      BY <3>4, <3>5 DEF Adopts
    <3> QED
      BY <2>1, <3>6
  <2> QED
    BY <2>2, <2>3
<1> QED
  BY <1>1, <1>2

(* All of them in turn: none of those is away any more.                    *)
LEMMA AdoptAllKeeps ==
  ASSUME NEW s, NEW A, NEW G, Base(s, A, G), Seated(s),
         NEW views \in Seq(Managed), Distinct(views),
         \A v \in ToSet(views) : v \in A /\ s.life[v] = "mapped"
  PROVE  LET t == AdoptAll(s, views)
         IN  /\ Base(t, A \ ToSet(views), G) /\ Seated(t) /\ t.life = s.life
             /\ \A x \in Unmanaged : t.viewWs[x] = s.viewWs[x]
             /\ Sound(s) => Sound(t)
<1> DEFINE n == Len(views)
           f == CHOOSE g : Adopts(s, views, g, n)
           taken(k) == {views[i] : i \in 1 .. k}
           Good(k) == /\ Base(f[k], A \ taken(k), G) /\ Seated(f[k])
                      /\ f[k].life = s.life
                      /\ \A x \in Unmanaged : f[k].viewWs[x] = s.viewWs[x]
                      /\ Sound(s) => Sound(f[k])
           T == {k \in 0 .. n : ~Good(k)}
<1>1. n \in Nat /\ DOMAIN views = 1 .. n /\ \A i \in 1 .. n : views[i] \in Managed
  BY LenProperties, ElementOfSeq
<1>2. Adopts(s, views, f, n)
  BY <1>1, AdoptExists
<1>3. AdoptAll(s, views) = f[n]
  BY DEF AdoptAll, Adopts
<1>4. taken(n) = ToSet(views)
  BY <1>1 DEF ToSet
<1> HIDE DEF n, f, taken, Good
<1>5. \A k \in 0 .. n : f[k] = IF k = 0 THEN s ELSE Adopt(f[k - 1], views[k])
  BY <1>2 DEF Adopts
<1>6. CASE T = {}
  <2>1. n \in 0 .. n
    BY <1>1
  <2>2. Good(n)
    BY <2>1, <1>6
  <2> QED
    BY <2>2, <1>3, <1>4 DEF Good
<1>7. CASE T # {}
  <2>1. PICK m \in T : \A k \in T : m <= k
    <3>1. T \in SUBSET Nat
      BY <1>1
    <3> HIDE DEF T
    <3> QED
      BY <3>1, <1>7, LeastNat
  <2>2. m \in 0 .. n /\ ~Good(m)
    BY <2>1
  <2>3. CASE m = 0
    <3>1. f[0] = s
      BY <2>2, <2>3, <1>5
    <3>2. taken(0) = {} /\ A \ {} = A
      BY DEF taken
    <3> QED
      BY <2>2, <2>3, <3>1, <3>2 DEF Good
  <2>4. CASE m # 0
    <3>1. m - 1 \in 0 .. n /\ ~(m <= m - 1) /\ m \in 1 .. n
      BY <2>2, <2>4, <1>1
    <3>2. Good(m - 1)
      BY <3>1, <2>1
    <3>3. PICK p, v, B : p = f[m - 1] /\ v = views[m] /\ B = A \ taken(m - 1)
      OBVIOUS
    <3>4. f[m] = Adopt(p, v)
      BY <2>2, <2>4, <3>3, <1>5
    <3>5. /\ Base(p, B, G) /\ Seated(p) /\ p.life = s.life
          /\ \A x \in Unmanaged : p.viewWs[x] = s.viewWs[x]
          /\ Sound(s) => Sound(p)
      BY <3>2, <3>3 DEF Good
    <3>6. v \in Managed /\ v \in B /\ p.life[v] = "mapped"
      <4>1. v \in Managed /\ v \in ToSet(views)
        BY <3>1, <3>3, <1>1 DEF ToSet
      <4>2. v \notin taken(m - 1)
        <5>1. \A i \in 1 .. m - 1 : i \in DOMAIN views /\ i # m /\ m \in DOMAIN views
          BY <3>1, <1>1
        <5> QED
          BY <5>1, <3>3 DEF taken, Distinct
      <4> QED
        BY <4>1, <4>2, <3>3, <3>5
    <3>7. B \ {v} = A \ taken(m)
      <4>1. taken(m) = taken(m - 1) \cup {v}
        <5>1. \A i : i \in 1 .. m <=> i \in 1 .. m - 1 \/ i = m
          BY <3>1, <1>1
        <5> QED
          BY <5>1, <3>3 DEF taken
      <4> QED
        BY <4>1, <3>3
    <3> DEFINE r == Adopt(p, v)
    <3>8. /\ Base(r, B \ {v}, G) /\ Seated(r) /\ r.life = p.life
          /\ \A x \in Unmanaged : r.viewWs[x] = p.viewWs[x]
          /\ Sound(p) => Sound(r)
      BY <3>5, <3>6, AdoptKeeps
    <3> HIDE DEF r
    <3>9. f[m] = r
      BY <3>4 DEF r
    <3> QED
      BY <2>2, <3>5, <3>7, <3>8, <3>9 DEF Good
  <2> QED
    BY <2>3, <2>4
<1> QED
  BY <1>6, <1>7

(* The unmanaged views follow.                                             *)
LEMMA AdoptUnmanagedKeeps ==
  ASSUME NEW s, NEW A, NEW G, Base(s, A, G), Seated(s),
         \A v \in A : v \in Unmanaged /\ s.life[v] = "mapped" /\ s.viewWs[v] \in G
  PROVE  /\ Base(AdoptUnmanaged(s, G), {}, G) /\ Seated(AdoptUnmanaged(s, G))
         /\ Sound(s) => Sound(AdoptUnmanaged(s, G))
<1> DEFINE w == CurrWs(s)
           X == {v \in Unmanaged : s.life[v] = "mapped" /\ s.viewWs[v] \in G}
           t == AdoptUnmanaged(s, G)
<1>1. w \in LiveWs(s) /\ w \in Ws /\ s.ftile[w] \in Tiles
  BY CurrentProperties
<1>2. A \subseteq X
  OBVIOUS
<1>3. X \subseteq Views /\ X \cap Managed = {}
  BY DesktopAssumption DEF Managed
<1>4. /\ DOMAIN t = Fields /\ t = [k \in Fields |-> t[k]] /\ t.ub \in BOOLEAN
      /\ Same(s, t, {"viewWs", "tree", "viewTile", "ub"})
      /\ t.viewWs = [v \in Views |-> IF v \in X THEN w ELSE s.viewWs[v]]
      /\ t.tree = [v \in Views |-> IF v \in X THEN w ELSE s.tree[v]]
      /\ t.viewTile = [v \in Views |-> IF v \in X THEN s.ftile[w] ELSE s.viewTile[v]]
  BY DEF AdoptUnmanaged, NodeDead, Base, DeskType, Same, Fields
<1>14. t.ub = (s.ub \/ \E v \in X : NodeDead(s, v))
  BY DEF AdoptUnmanaged, Base, DeskType
<1>15. \A v \in X : v \in Views /\ s.life[v] = "mapped"
  BY <1>3
<1> HIDE DEF w, X, t
<1>5. /\ t.viewWs \in [Views -> Ws \cup {NULL}] /\ t.tree \in [Views -> Ws \cup {NULL}]
      /\ t.viewTile \in [Views -> Tiles \cup {NULL}]
  <2>1. \A v \in Views : t.viewWs[v] \in Ws \cup {NULL}
    BY <1>1, <1>4 DEF Base, DeskType
  <2>2. \A v \in Views : t.tree[v] \in Ws \cup {NULL}
    BY <1>1, <1>4 DEF Base, DeskType
  <2>3. \A v \in Views : t.viewTile[v] \in Tiles \cup {NULL}
    BY <1>1, <1>4 DEF Base, DeskType
  <2> QED
    BY <2>1, <2>2, <2>3, <1>4
<1>6. t \in DeskType
  BY <1>4, <1>5 DEF Base, DeskType, Same, Fields
<1>7. /\ t.outputs = s.outputs /\ t.nws = s.nws /\ t.output = s.output
      /\ t.currWs = s.currWs /\ t.ftile = s.ftile /\ t.tileWs = s.tileWs
      /\ t.tileView = s.tileView /\ t.list = s.list /\ t.life = s.life
      /\ t.focus = s.focus /\ t.kb = s.kb
  BY <1>4 DEF Same, Fields
<1>8. LiveWs(t) = LiveWs(s)
  BY <1>7 DEF LiveWs
<1>9. /\ \A v \in Views \ X : /\ t.viewWs[v] = s.viewWs[v] /\ t.tree[v] = s.tree[v]
                              /\ t.viewTile[v] = s.viewTile[v]
      /\ \A v \in X : t.viewWs[v] = w /\ t.tree[v] = w
      /\ \A v \in Managed : v \in Views \ X
  BY <1>3, <1>4 DEF Managed
<1>10. Placed(t, G)
  BY <1>7, <1>8 DEF Base, Placed
<1>11. Linked(t, {}, G)
  BY <1>7, <1>9 DEF Base, Linked
<1>12. InLists(t, {})
  <2>1. \A v \in Managed, x \in Ws :
          v \in ToSet(t.list[x]) <=> t.life[v] = "mapped" /\ t.viewWs[v] = x /\ v \notin {}
    BY <1>2, <1>3, <1>7, <1>9 DEF Base, InLists
  <2>2. \A v \in Views : t.life[v] = "mapped" =>
          t.viewWs[v] \in LiveWs(t) /\ t.tree[v] = t.viewWs[v]
    BY <1>1, <1>2, <1>7, <1>8, <1>9 DEF Base, InLists
  <2> QED
    BY <2>1, <2>2, <1>7 DEF Base, InLists
<1>13. Seated(t)
  BY <1>7, SameKeepsSeat
<1>16. Sound(s) => Sound(t)
  <2>1. Sound(s) => ~t.ub
    BY <1>14, <1>15 DEF Sound, NodeDead
  <2>2. w # NULL
    BY <1>1, DesktopAssumption
  <2> QED
    BY <2>1, <2>2, <1>7, <1>9 DEF Sound
<1> QED
  BY <1>16, <1>6, <1>10, <1>11, <1>12, <1>13 DEF Base, t

(* The workspaces to be freed have no views any more.                      *)
LEMMA FreeKeeps ==
  ASSUME NEW s, NEW G \in SUBSET Ws, Base(s, {}, G), Seated(s)
  PROVE  DeskInv(workspace_free(s, G)) /\ (Sound(s) => ~workspace_free(s, G).ub)
<1> DEFINE t == workspace_free(s, G)
<1>1. /\ s \in DeskType /\ LiveWs(s) \subseteq Ws /\ G \cap LiveWs(s) = {}
      /\ NULL \notin Ws
  BY LiveProperties, DesktopAssumption DEF Base, Placed
<1>2. /\ t \in DeskType
      /\ Same(s, t, {"tileWs", "tileView", "ftile", "list", "tree"})
      /\ \A x \in Tiles : IF s.tileWs[x] \in G
                          THEN t.tileWs[x] = NULL /\ t.tileView[x] = NULL
                          ELSE t.tileWs[x] = s.tileWs[x] /\ t.tileView[x] = s.tileView[x]
      /\ \A w \in Ws \ G : t.ftile[w] = s.ftile[w] /\ t.list[w] = s.list[w]
      /\ \A w \in G : t.list[w] = <<>>
      /\ \A v \in Views : s.tree[v] \notin G => t.tree[v] = s.tree[v]
  BY <1>1, FreeFields
<1> HIDE DEF t
<1>3. /\ t.outputs = s.outputs /\ t.nws = s.nws /\ t.output = s.output
      /\ t.currWs = s.currWs /\ t.viewTile = s.viewTile /\ t.viewWs = s.viewWs
      /\ t.life = s.life /\ t.focus = s.focus /\ t.kb = s.kb
  BY <1>2 DEF Same, Fields
<1>4. LiveWs(t) = LiveWs(s)
  BY <1>3 DEF LiveWs
<1>5. \A w \in Ws : t.list[w] = s.list[w]
  BY <1>1, <1>2, DeadWorkspace
<1>6. \A v \in Views : s.life[v] = "mapped" => t.tree[v] = s.tree[v]
  BY <1>1, <1>2 DEF Base, InLists
<1>7. Placed(t, {})
  <2>1. ASSUME NEW w \in LiveWs(s) PROVE t.ftile[w] # NULL /\ t.tileWs[t.ftile[w]] = w
    <3>1. /\ w \in Ws \ G /\ s.ftile[w] # NULL /\ s.ftile[w] \in Tiles
          /\ s.tileWs[s.ftile[w]] = w
      BY <1>1 DEF Base, Placed, DeskType
    <3> QED
      BY <3>1, <1>2
  <2>2. \A x \in Tiles : t.tileWs[x] \in LiveWs(s) \cup {} \cup {NULL}
    BY <1>2 DEF Base, Placed
  <2> QED
    BY <2>1, <2>2, <1>3, <1>4 DEF Base, Placed
<1>8. Linked(t, {}, {})
  BY <1>2, <1>3 DEF Base, Linked
<1>9. InLists(t, {})
  BY <1>3, <1>4, <1>5, <1>6 DEF Base, InLists
<1>10. Seated(t)
  <2>1. /\ CurrWs(s) \in Ws \ G /\ FocusedTile(s) \in Tiles
        /\ s.tileWs[FocusedTile(s)] \notin G
    BY <1>1, CurrentProperties
  <2> QED
    BY <2>1, <1>2, <1>3, SameKeepsSeat
<1>11. Sound(s) => ~t.ub
  BY <1>2 DEF Sound, Same, Fields
<1> QED
  BY <1>11, <1>2, <1>7, <1>8, <1>9, <1>10 DEF DeskInv, Base, t

(* output_clear: the views of the vanishing output go to the current       *)
(* workspace of another one.                                               *)
LEMMA ClearKeeps ==
  ASSUME NEW s, DeskInv(s), NEW o \in ToSet(s.outputs), Len(s.outputs) # 1,
         NEW G, G = {w \in Ws : w[1] = o}
  PROVE  /\ Base(output_clear(s, o), {}, G) /\ Seated(output_clear(s, o))
         /\ Sound(s) => Sound(output_clear(s, o))
<1> DEFINE s1 == IF s.output = o /\ Len(s.outputs) > 1
                 THEN keybinding_cycle_outputs(s, FALSE) ELSE s
           seqs == [i \in 1 .. s.nws |-> s1.list[<<o, i - 1>>]]
           managed == FlattenSeq(seqs)
           s2 == [s1 EXCEPT
                    !.outputs = wl_list_remove(@, o),
                    !.viewTile = [v \in Views |->
                       IF \E t \in Tiles : s1.tileWs[t] \in G /\ s1.tileView[t] = v
                       THEN NULL ELSE @[v]],
                    !.tileView = [t \in Tiles |->
                       IF s1.tileWs[t] \in G THEN NULL ELSE @[t]],
                    !.list = [w \in Ws |-> IF w \in G THEN <<>> ELSE @[w]]]
           A == {v \in Views : s1.life[v] = "mapped" /\ s1.viewWs[v] \in G}
           s3 == AdoptAll(s2, managed)
<1>1. output_clear(s, o) = AdoptUnmanaged(s3, G)
  BY DEF output_clear
<1> HIDE DEF s1, seqs, managed, s2, A, s3
<1>2. /\ Base(s, {}, {}) /\ Seated(s) /\ NULL \notin Ws
      /\ s.outputs \in Seq(Outputs) /\ Len(s.outputs) \in Nat /\ Distinct(s.outputs)
  BY DesktopAssumption, LenProperties DEF DeskInv, Base, DeskType, Placed
<1>3. Len(s.outputs) > 1
  <2>1. DOMAIN s.outputs = 1 .. Len(s.outputs)
    BY <1>2, LenProperties
  <2>2. PICK i \in DOMAIN s.outputs : s.outputs[i] = o
    BY DEF ToSet
  <2>3. i \in Nat /\ 1 <= i /\ i <= Len(s.outputs)
    BY <2>1, <2>2
  <2>4. \A n \in Nat : n # 1 /\ i <= n => n > 1
    BY <2>3
  <2> QED
    BY <2>3, <2>4, <1>2
<1>4. Base(s1, {}, {}) /\ Seated(s1) /\ s1.output # o
  BY <1>2, <1>3, CycleOutputsSeats DEF s1
<1>5. s1.outputs = s.outputs /\ s1.nws = s.nws
  BY <1>2, CycleOutputsSeats, OutputFrameProperties DEF s1
<1>6. s1 \in DeskType /\ LiveWs(s1) \subseteq Ws /\ s.nws \in 1 .. MaxWs /\ MaxWs \in Nat
      /\ o \in Outputs
  <2>1. s1 \in DeskType /\ LiveWs(s1) \subseteq Ws
    BY <1>4, LiveProperties DEF Base
  <2>2. s.nws \in 1 .. MaxWs /\ MaxWs \in Nat
    BY <1>2, DesktopAssumption DEF Base, DeskType
  <2>3. o \in Outputs
    BY <1>2, EmptyList
  <2> QED
    BY <2>1, <2>2, <2>3
<1>7. /\ wl_list_remove(s.outputs, o) \in Seq(Outputs)
      /\ Distinct(wl_list_remove(s.outputs, o))
      /\ ToSet(wl_list_remove(s.outputs, o)) = ToSet(s.outputs) \ {o}
  BY <1>2, Removed
<1>8. /\ DOMAIN s2 = Fields /\ s2 = [k \in Fields |-> s2[k]]
      /\ Same(s1, s2, {"outputs", "viewTile", "tileView", "list"})
      /\ s2.outputs = wl_list_remove(s.outputs, o)
      /\ s2.viewTile = [v \in Views |->
           IF \E t \in Tiles : s1.tileWs[t] \in G /\ s1.tileView[t] = v
           THEN NULL ELSE s1.viewTile[v]]
      /\ s2.tileView = [t \in Tiles |-> IF s1.tileWs[t] \in G THEN NULL ELSE s1.tileView[t]]
      /\ s2.list = [w \in Ws |-> IF w \in G THEN <<>> ELSE s1.list[w]]
  BY <1>5, <1>6 DEF s2, DeskType, Same, Fields
<1>9. s2 \in DeskType
  <2>1. s2.list \in [Ws -> Seq(Managed)]
    <3>1. <<>> \in Seq(Managed) /\ s1.list \in [Ws -> Seq(Managed)]
      BY <1>6, EmptySeq DEF DeskType
    <3>2. \A w \in Ws : s2.list[w] \in Seq(Managed)
      BY <3>1, <1>8
    <3> QED
      BY <3>2, <1>8
  <2>2. \A v \in Views : s2.viewTile[v] \in Tiles \cup {NULL}
    BY <1>6, <1>8 DEF DeskType
  <2>3. \A t \in Tiles : s2.tileView[t] \in Views \cup {NULL}
    BY <1>6, <1>8 DEF DeskType
  <2>4. /\ s2.viewTile \in [Views -> Tiles \cup {NULL}]
        /\ s2.tileView \in [Tiles -> Views \cup {NULL}]
    BY <2>2, <2>3, <1>8
  <2> QED
    BY <2>1, <2>4, <1>6, <1>7, <1>8 DEF DeskType, Same, Fields
<1>10. /\ s2.nws = s1.nws /\ s2.output = s1.output
       /\ s2.currWs = s1.currWs /\ s2.ftile = s1.ftile /\ s2.tileWs = s1.tileWs
       /\ s2.viewWs = s1.viewWs /\ s2.life = s1.life /\ s2.tree = s1.tree
       /\ s2.focus = s1.focus /\ s2.kb = s1.kb
  BY <1>8 DEF Same, Fields
<1>11. \A w : w \in LiveWs(s2) <=> w \in LiveWs(s1) /\ w \notin G
  <2>1. \A w : w \in LiveWs(s1) <=> \E p \in ToSet(s.outputs), i \in 0 .. s.nws - 1 : w = <<p, i>>
    BY <1>5 DEF LiveWs
  <2>2. \A w : w \in LiveWs(s2) <=>
          \E p \in ToSet(s.outputs) \ {o}, i \in 0 .. s.nws - 1 : w = <<p, i>>
    <3>1. ToSet(s2.outputs) = ToSet(s.outputs) \ {o} /\ s2.nws = s.nws
      BY <1>5, <1>7, <1>8, <1>10
    <3> QED
      BY <3>1 DEF LiveWs
  <2>3. \A w \in LiveWs(s1) : w \in G <=> w[1] = o
    BY <1>6
  <2> QED
    BY <2>1, <2>2, <2>3
<1>12. CurrWs(s1) \notin G /\ CurrWs(s1) \in LiveWs(s1) /\ CurrWs(s1) \in Ws
       /\ FocusedTile(s1) \in Tiles /\ s1.tileWs[FocusedTile(s1)] = CurrWs(s1)
  <2>1. CurrWs(s1)[1] = s1.output
    BY DEF CurrWs
  <2> QED
    BY <2>1, <1>4, CurrentProperties
<1>13. Placed(s2, G)
  <2>1. Distinct(s2.outputs) /\ s2.output \in ToSet(s2.outputs)
    BY <1>4, <1>5, <1>7, <1>8, <1>10 DEF Base, Placed
  <2>2. \A p \in ToSet(s2.outputs) : s2.currWs[p] < s2.nws
    BY <1>4, <1>5, <1>7, <1>8, <1>10 DEF Base, Placed
  <2>3. \A w \in LiveWs(s2) : s2.ftile[w] # NULL /\ s2.tileWs[s2.ftile[w]] = w
    BY <1>4, <1>10, <1>11 DEF Base, Placed
  <2>4. \A t \in Tiles : s2.tileWs[t] \in LiveWs(s2) \cup G \cup {NULL}
    BY <1>4, <1>10, <1>11 DEF Base, Placed
  <2> QED
    BY <2>1, <2>2, <2>3, <2>4, <1>11 DEF Placed
<1>14. Linked(s2, A, G)
  <2>1. ASSUME NEW t \in Tiles, s2.tileView[t] # NULL
        PROVE  /\ s2.tileWs[t] \notin G \cup {NULL}
               /\ s2.tileView[t] \in Managed \ A
               /\ s2.life[s2.tileView[t]] = "mapped"
               /\ s2.viewWs[s2.tileView[t]] = s2.tileWs[t]
               /\ s2.viewTile[s2.tileView[t]] = t
    <3>1. s1.tileWs[t] \notin G /\ s2.tileView[t] = s1.tileView[t]
      BY <2>1, <1>8
    <3> DEFINE v == s1.tileView[t]
    <3>2. /\ s1.tileWs[t] # NULL /\ v \in Managed /\ v \in Views /\ s1.life[v] = "mapped"
          /\ s1.viewWs[v] = s1.tileWs[t] /\ s1.viewTile[v] = t
      BY <2>1, <3>1, <1>4 DEF Base, Linked, Managed
    <3>3. \A x \in Tiles : s1.tileView[x] = v => x = t
      BY <2>1, <3>1, <1>4 DEF Base, Linked
    <3> HIDE DEF v
    <3>4. s2.viewTile[v] = t
      BY <3>1, <3>2, <3>3, <1>8
    <3>5. v \notin A
      BY <3>1, <3>2 DEF A
    <3> QED
      BY <3>1, <3>2, <3>4, <3>5, <1>10 DEF v
  <2> QED
    BY <2>1 DEF Linked
<1>15. InLists(s2, A)
  <2>1. \A w \in Ws : Distinct(s2.list[w])
    <3>1. Distinct(<<>>)
      BY DEF Distinct
    <3> QED
      BY <3>1, <1>4, <1>8 DEF Base, InLists
  <2>2. ASSUME NEW v \in Managed, NEW w \in Ws
        PROVE  v \in ToSet(s2.list[w]) <=> s2.life[v] = "mapped" /\ s2.viewWs[v] = w /\ v \notin A
    <3>1. v \in Views
      BY DEF Managed
    <3>2. v \in ToSet(s1.list[w]) <=> s1.life[v] = "mapped" /\ s1.viewWs[v] = w
      BY <1>4 DEF Base, InLists
    <3>3. CASE w \in G
      <4>1. ToSet(s2.list[w]) = {}
        BY <3>3, <1>8 DEF ToSet
      <4> QED
        BY <4>1, <3>1, <3>3, <1>10 DEF A
    <3>4. CASE w \notin G
      BY <3>1, <3>2, <3>4, <1>8, <1>10 DEF A
    <3> QED
      BY <3>3, <3>4
  <2>3. ASSUME NEW v \in Views \ A, s2.life[v] = "mapped"
        PROVE  s2.viewWs[v] \in LiveWs(s2) /\ s2.tree[v] = s2.viewWs[v]
    <3>1. s1.viewWs[v] \in LiveWs(s1) /\ s1.tree[v] = s1.viewWs[v]
      BY <2>3, <1>4, <1>10 DEF Base, InLists
    <3> QED
      BY <3>1, <2>3, <1>10, <1>11 DEF A
  <2> QED
    BY <2>1, <2>2, <2>3 DEF InLists
<1>16. Base(s2, A, G)
  BY <1>9, <1>13, <1>14, <1>15 DEF Base
<1>17. Seated(s2)
  <2>1. s2.tileView[FocusedTile(s1)] = s1.tileView[FocusedTile(s1)]
    BY <1>8, <1>12
  <2>2. s2.list[CurrWs(s1)] = s1.list[CurrWs(s1)]
    BY <1>8, <1>12
  <2> QED
    BY <2>1, <2>2, <1>4, <1>10, SameKeepsSeat
<1>18. /\ managed \in Seq(Managed) /\ Distinct(managed)
       /\ \A v : v \in ToSet(managed) <=> v \in A /\ v \in Managed
  <2>1. \A i \in 1 .. s.nws : <<o, i - 1>> \in Ws /\ <<o, i - 1>> \in G
    BY <1>6 DEF Ws
  <2>2. \A i \in 1 .. s.nws : seqs[i] = s1.list[<<o, i - 1>>]
    BY DEF seqs
  <2>3. seqs \in Seq(Seq(Managed)) /\ DOMAIN seqs = 1 .. s.nws
    <3>1. \A i \in 1 .. s.nws : s1.list[<<o, i - 1>>] \in Seq(Managed)
      BY <2>1, <1>6 DEF DeskType
    <3>2. seqs \in [1 .. s.nws -> Seq(Managed)]
      BY <3>1 DEF seqs
    <3>3. Seq(Seq(Managed)) = UNION {[1 .. k -> Seq(Managed)] : k \in Nat}
      BY SeqDef
    <3> QED
      BY <3>2, <3>3, <1>6
  <2>4. \A i \in DOMAIN seqs : Distinct(seqs[i])
    BY <2>1, <2>2, <2>3, <1>4 DEF Base, InLists
  <2>5. ASSUME NEW i \in DOMAIN seqs, NEW v
        PROVE  v \in ToSet(seqs[i]) <=>
                 v \in Managed /\ s1.life[v] = "mapped" /\ s1.viewWs[v] = <<o, i - 1>>
    <3>1. <<o, i - 1>> \in Ws /\ seqs[i] = s1.list[<<o, i - 1>>] /\ seqs[i] \in Seq(Managed)
      BY <2>1, <2>2, <2>3, <1>6 DEF DeskType
    <3>2. ToSet(seqs[i]) \subseteq Managed
      BY <3>1, EmptyList
    <3> QED
      BY <3>1, <3>2, <1>4 DEF Base, InLists
  <2>6. \A i, j \in DOMAIN seqs : i # j => ToSet(seqs[i]) \cap ToSet(seqs[j]) = {}
    <3>1. \A i, j \in DOMAIN seqs : i # j => <<o, i - 1>> # <<o, j - 1>>
      BY <2>3, <1>6
    <3> QED
      BY <3>1, <2>5
  <2>7. /\ managed \in Seq(Managed) /\ Distinct(managed)
        /\ \A v : v \in ToSet(managed) <=> \E i \in DOMAIN seqs : v \in ToSet(seqs[i])
    BY <2>3, <2>4, <2>6, FlattenProperties DEF managed
  <2>8. ASSUME NEW v PROVE v \in ToSet(managed) <=> v \in A /\ v \in Managed
    <3>1. ASSUME v \in ToSet(managed) PROVE v \in A /\ v \in Managed
      <4>1. PICK i \in DOMAIN seqs : v \in ToSet(seqs[i])
        BY <3>1, <2>7
      <4>2. v \in Managed /\ s1.life[v] = "mapped" /\ s1.viewWs[v] = <<o, i - 1>>
        BY <4>1, <2>5
      <4> QED
        BY <4>2, <2>1, <2>3 DEF A, Managed
    <3>2. ASSUME v \in A, v \in Managed PROVE v \in ToSet(managed)
      <4>1. s1.life[v] = "mapped" /\ s1.viewWs[v] \in G /\ v \in Views
        BY <3>2 DEF A
      <4>2. s1.viewWs[v] \in LiveWs(s1)
        BY <4>1, <1>4 DEF Base, InLists
      <4>3. PICK p \in ToSet(s.outputs), k \in 0 .. s.nws - 1 : s1.viewWs[v] = <<p, k>>
        BY <4>2, <1>5 DEF LiveWs
      <4>4. p = o
        BY <4>1, <4>3
      <4>5. k + 1 \in DOMAIN seqs /\ (k + 1) - 1 = k
        BY <2>3, <1>6
      <4>6. v \in ToSet(seqs[k + 1])
        BY <3>2, <4>1, <4>3, <4>4, <4>5, <2>5
      <4> QED
        BY <4>5, <4>6, <2>7
    <3> QED
      BY <3>1, <3>2
  <2> QED
    BY <2>7, <2>8
<1>19. /\ Base(s3, A \ ToSet(managed), G) /\ Seated(s3) /\ s3.life = s2.life
       /\ \A x \in Unmanaged : s3.viewWs[x] = s2.viewWs[x]
  <2>1. \A v \in ToSet(managed) : v \in A /\ s2.life[v] = "mapped"
    BY <1>10, <1>18 DEF A
  <2> QED
    BY <2>1, <1>16, <1>17, <1>18, AdoptAllKeeps DEF s3
<1>20. \A v \in A \ ToSet(managed) :
         v \in Unmanaged /\ s3.life[v] = "mapped" /\ s3.viewWs[v] \in G
  BY <1>10, <1>18, <1>19 DEF A, Managed
<1>21. PICK C : C = A \ ToSet(managed)
  OBVIOUS
<1>22. Base(AdoptUnmanaged(s3, G), {}, G) /\ Seated(AdoptUnmanaged(s3, G))
  BY <1>19, <1>20, <1>21, AdoptUnmanagedKeeps
<1>23. Sound(s) => Sound(s2)
  <2>1. Sound(s) => Sound(s1)
    BY <1>2, CycleOutputsSeats DEF s1
  <2>2. s2.ub = s1.ub
    BY <1>8 DEF Same, Fields
  <2>3. Sound(s1) => Sound(s2)
    BY <2>2, <1>10 DEF Sound
  <2> QED
    BY <2>1, <2>3
<1>24. Sound(s2) => Sound(s3)
  <2>1. \A v \in ToSet(managed) : v \in A /\ s2.life[v] = "mapped"
    BY <1>10, <1>18 DEF A
  <2> QED
    BY <2>1, <1>16, <1>17, <1>18, AdoptAllKeeps DEF s3
<1>25. Sound(s3) => Sound(AdoptUnmanaged(s3, G))
  BY <1>19, <1>20, <1>21, AdoptUnmanagedKeeps
<1> QED
  BY <1>1, <1>22, <1>23, <1>24, <1>25

(* output_destroy of the last output only ends the program.                *)
LEMMA OutputDestroyKeeps ==
  ASSUME NEW s, DeskInv(s), NEW o \in ToSet(s.outputs)
  PROVE  /\ DeskInv(output_destroy(s, o))
         /\ Len(s.outputs) # 1 /\ Sound(s) => ~output_destroy(s, o).ub
<1> DEFINE G == {w \in Ws : w[1] = o}
<1>1. CASE Len(s.outputs) = 1
  <2> DEFINE t == [s EXCEPT !.running = FALSE,
                            !.ub = \E v \in Views : s.life[v] = "mapped"]
  <2>1. output_destroy(s, o) = t
    BY <1>1 DEF output_destroy
  <2>2. t \in DeskType /\ Same(s, t, {"running", "ub"}) /\ t.kb = s.kb
    BY DEF DeskInv, Base, DeskType, Same, Fields
  <2> HIDE DEF t
  <2>3. DeskInv(t)
    BY <2>2, SeatKeeps DEF Same
  <2> QED
    BY <2>1, <2>3, <1>1
<1>2. CASE Len(s.outputs) # 1
  <2>1. output_destroy(s, o) = workspace_free(output_clear(s, o), G)
    BY <1>2 DEF output_destroy
  <2>2. G \in SUBSET Ws
    OBVIOUS
  <2>3. /\ Base(output_clear(s, o), {}, G) /\ Seated(output_clear(s, o))
        /\ Sound(s) => Sound(output_clear(s, o))
    BY <1>2, ClearKeeps
  <2> HIDE DEF G
  <2> QED
    BY <2>1, <2>2, <2>3, FreeKeeps
<1> QED
  BY <1>1, <1>2

-----------------------------------------------------------------------------
(* The handlers together.                                                  *)

(* The state server_init leaves, one output with one workspace and one     *)
(* tile that shows nothing, satisfies the invariant.                       *)
LEMMA InitDesk == Init => DeskInv(desk)
<1> SUFFICES ASSUME Init PROVE DeskInv(desk)
  OBVIOUS
<1> DEFINE home == <<FirstOutput, 0>>
<1>1. /\ FirstOutput \in Outputs /\ MaxWs \in Nat /\ 0 \in 0 .. MaxWs - 1 /\ 1 \in 1 .. MaxWs
      /\ home \in Ws /\ home # NULL /\ NULL \notin Tiles \cup Ws
      /\ home[1] = FirstOutput /\ home[2] = 0
  BY DesktopAssumption DEF Ws
<1> HIDE DEF home
<1>2. PICK t \in Tiles :
        desk = [outputs  |-> <<FirstOutput>>,
                nws      |-> 1,
                output   |-> FirstOutput,
                currWs   |-> [o \in Outputs |-> 0],
                ftile    |-> [w \in Ws |-> IF w = home THEN t ELSE NULL],
                tileWs   |-> [x \in Tiles |-> IF x = t THEN home ELSE NULL],
                tileView |-> [x \in Tiles |-> NULL],
                viewTile |-> [v \in Views |-> NULL],
                viewWs   |-> [v \in Views |-> NULL],
                list     |-> [w \in Ws |-> <<>>],
                life     |-> [v \in Views |-> "none"],
                focus    |-> NULL,
                kb       |-> NULL,
                tree     |-> [v \in Views |-> NULL],
                layer    |-> FALSE,
                running  |-> TRUE,
                ub       |-> FALSE]
  BY DEF Init, home
<1>3. /\ <<FirstOutput>> \in Seq(Outputs) /\ ToSet(<<FirstOutput>>) = {FirstOutput}
      /\ Distinct(<<FirstOutput>>)
  BY <1>1 DEF ToSet, Distinct
<1>4. <<>> \in Seq(Managed) /\ ToSet(<<>>) = {} /\ Distinct(<<>>)
  BY DEF ToSet, Distinct
<1>5. desk \in DeskType
  <2>1. /\ desk.ftile \in [Ws -> Tiles \cup {NULL}] /\ desk.tileWs \in [Tiles -> Ws \cup {NULL}]
        /\ desk.list \in [Ws -> Seq(Managed)]
    BY <1>1, <1>2, <1>4
  <2> QED
    BY <2>1, <1>1, <1>2, <1>3 DEF DeskType
<1>6. LiveWs(desk) = {home}
  <2>1. 0 .. desk.nws - 1 = {0} /\ ToSet(desk.outputs) = {FirstOutput}
    BY <1>2, <1>3
  <2> QED
    BY <2>1 DEF LiveWs, home
<1>7. Placed(desk, {})
  BY <1>1, <1>2, <1>3, <1>6 DEF Placed
<1>8. Linked(desk, {}, {})
  BY <1>2 DEF Linked
<1>9. InLists(desk, {})
  BY <1>2, <1>4 DEF InLists, Managed
<1>10. Seated(desk)
  <2>1. CurrWs(desk) = home
    BY <1>1, <1>2 DEF CurrWs, home
  <2>2. FocusedTile(desk) = t
    BY <2>1, <1>1, <1>2 DEF FocusedTile
  <2>3. NULL \notin Managed
    BY DesktopAssumption DEF Managed
  <2> QED
    BY <2>2, <2>3, <1>2 DEF Seated
<1> QED
  BY <1>5, <1>7, <1>8, <1>9, <1>10 DEF DeskInv, Base

(* A handler either runs to its end or stops at its first use of freed     *)
(* memory, which leaves every other field as it was.                       *)
LEMMA StepKeeps ==
  ASSUME DeskInv(desk), NEW s, DeskInv(s), Step(s)
  PROVE  DeskInv(desk)'
<1>1. CASE s.ub
  <2>1. desk' = [desk EXCEPT !.ub = TRUE]
    BY <1>1 DEF Step
  <2>2. desk \in DeskType
    BY DEF DeskInv, Base
  <2>3. desk' \in DeskType /\ Same(desk, desk', {"kb", "layer", "running", "ub"})
        /\ desk'.kb = desk.kb
    BY <2>1, <2>2 DEF DeskType, Same, Fields
  <2>4. DeskInv(desk')
    BY <2>3, SeatKeeps
  <2> QED
    BY <2>4
<1>2. CASE ~s.ub
  BY <1>2 DEF Step
<1> QED
  BY <1>1, <1>2

(***************************************************************************)
(* The commands name a view, a tile and a workspace by where the user is:  *)
(* the ids of merge, moveview, exchange and next reach objects of other    *)
(* workspaces, and `workspaces n` with views beyond n moves them without   *)
(* their scene nodes.  Each of these breaks some of the properties, as the *)
(* runs with that input show.  Unplugging the last output, layer surfaces  *)
(* and quitting are all allowed.                                           *)
(***************************************************************************)
ByPlace == Inputs \cap {"merge_id", "moveview_id", "exchange_id", "next_id", "shrink"} = {}

(* A step of the event loop is one handler, which keeps the invariant and  *)
(* uses no freed memory while every view has its scene node.  What is left *)
(* to say of output_destroy is that it takes scene nodes down.             *)
Handled == \E s : Step(s) /\ DeskInv(s) /\ (Sound(desk) => Sound(s))

LEMMA StepHandled ==
  ASSUME NEW s, DeskInv(s), Sound(desk) => Sound(s), Step(s)
  PROVE  Handled
BY DEF Handled

LEMMA NextHandled ==
  ASSUME ByPlace,
         DeskInv(desk), Next
  PROVE  Handled \/ OutputDestroy
<1> USE DEF LiveTiles, Neighbours, TilesOf
<1>1. Base(desk, {}, {}) /\ desk \in DeskType
  BY DEF DeskInv, Base
<1>2. /\ FocusedTile(desk) \in Tiles /\ desk.tileWs[FocusedTile(desk)] # NULL
      /\ FocusedTile(desk) \in LiveTiles
  BY <1>1, CurrentProperties
<1>3. /\ "merge_id" \notin Inputs /\ "moveview_id" \notin Inputs /\ "exchange_id" \notin Inputs
      /\ "next_id" \notin Inputs /\ "shrink" \notin Inputs
  BY DEF ByPlace
<1>4. ASSUME NEW v \in Views, NewView(v) PROVE Handled
  BY <1>4, InitKeeps, StepHandled DEF NewView
<1>5. ASSUME NEW v \in Views, MapView(v) PROVE Handled
  BY <1>5, MapKeeps, StepHandled DEF MapView
<1>6. ASSUME NEW v \in Views, UnmapView(v) PROVE Handled
  BY <1>6, UnmapKeeps, StepHandled DEF UnmapView
<1>7. ASSUME NEW v \in Views, DestroyView(v) PROVE Handled
  BY <1>7, DestroyKeeps, StepHandled DEF DestroyView
<1>8. CASE LayerMap
  <2>1. PICK t : t = [desk EXCEPT !.layer = TRUE, !.kb = Layer]
    OBVIOUS
  <2>2. /\ t \in DeskType /\ Same(desk, t, {"kb", "layer", "running", "ub"})
        /\ t.kb \notin Managed
    BY <1>1, <2>1, DesktopAssumption DEF DeskType, Same, Fields, Managed
  <2>3. DeskInv(t)
    BY <2>2, SeatKeeps
  <2>4. Sound(desk) => Sound(t)
    BY <1>1, <2>1 DEF DeskType, Sound
  <2> QED
    BY <1>8, <2>1, <2>3, <2>4, StepHandled DEF LayerMap
<1>9. CASE LayerUnmap
  <2>1. PICK t : t = [desk EXCEPT !.layer = FALSE, !.kb = IF @ = Layer THEN NULL ELSE @]
    OBVIOUS
  <2>2. /\ t \in DeskType /\ Same(desk, t, {"kb", "layer", "running", "ub"})
        /\ t.kb \in Managed => t.kb = desk.kb
    BY <1>1, <2>1, DesktopAssumption DEF DeskType, Same, Fields, Managed
  <2>3. DeskInv(t)
    BY <2>2, SeatKeeps
  <2>4. Sound(desk) => Sound(t)
    BY <1>1, <2>1 DEF DeskType, Sound
  <2> QED
    BY <1>9, <2>1, <2>3, <2>4, StepHandled DEF LayerUnmap
<1>10. CASE Quit
  <2>1. PICK t : t = [desk EXCEPT !.running = FALSE]
    OBVIOUS
  <2>2. /\ t \in DeskType /\ Same(desk, t, {"kb", "layer", "running", "ub"})
        /\ t.kb = desk.kb
    BY <1>1, <2>1 DEF DeskType, Same, Fields
  <2>3. DeskInv(t)
    BY <2>2, SeatKeeps
  <2>4. Sound(desk) => Sound(t)
    BY <1>1, <2>1 DEF DeskType, Sound
  <2> QED
    BY <1>10, <2>1, <2>3, <2>4, StepHandled DEF Quit
<1>11. CASE Split
  BY <1>11, SplitKeeps, StepHandled DEF Split
<1>12. CASE Merge
  <2>1. PICK m \in Neighbours(FocusedTile(desk)) :
          Step(merge_tile(desk, FocusedTile(desk), m))
    BY <1>3, <1>12 DEF Merge
  <2> QED
    BY <2>1, MergeKeeps, StepHandled
<1>13. CASE Exchange
  <2>1. PICK t \in LiveTiles, follow \in BOOLEAN :
          \E u \in Neighbours(t) : Step(swap_tiles(desk, t, u, follow))
    BY <1>3, <1>13 DEF Exchange
  <2>2. PICK u \in Neighbours(t) : Step(swap_tiles(desk, t, u, follow))
    BY <2>1
  <2> QED
    BY <2>2, SwapKeeps, StepHandled
<1>14. CASE FocusNeighbour
  <2>1. PICK t \in Neighbours(FocusedTile(desk)) : Step(focus_tile(desk, t))
    BY <1>14 DEF FocusNeighbour
  <2>2. t \in Tiles /\ desk.tileWs[t] # NULL
    BY <1>2
  <2> QED
    BY <2>1, <2>2, FocusKeeps, StepHandled
<1>15. CASE FocusTile
  BY <1>15, FocusKeeps, StepHandled DEF FocusTile
<1>16. CASE Only
  <2>1. PICK w \in LiveWs(desk) : \E n \in FreeTiles(desk) \cup TilesOf(desk, w) :
          Step(output_make_workspace_fullscreen(desk, w, n))
    BY <1>16 DEF Only
  <2>2. PICK n \in FreeTiles(desk) \cup TilesOf(desk, w) :
          Step(output_make_workspace_fullscreen(desk, w, n))
    BY <2>1
  <2> QED
    BY <2>2, OnlyKeeps, StepHandled
<1>17. CASE CycleViews
  BY <1>17, CycleViewsKeeps, StepHandled DEF CycleViews
<1>18. CASE NextView
  <2>1. PICK v \in ToSet(desk.list[CurrWs(desk)]) : Step(CycleToView(desk, v))
    BY <1>3, <1>18 DEF NextView
  <2> QED
    BY <2>1, CycleViewsKeeps, StepHandled
<1>19. CASE MoveToTile
  <2>1. PICK t \in LiveTiles, follow \in BOOLEAN :
          Step(keybinding_move_view_to_tile(
                 desk, view_from_id(desk, desk.tileView[FocusedTile(desk)]), t, follow))
    BY <1>19 DEF MoveToTile
  <2> QED
    BY <2>1, MoveToTileKeeps, StepHandled
<1>20. CASE MoveViewToTile
  BY <1>3, <1>20 DEF MoveViewToTile
<1>21. CASE MoveToCycleOutput
  BY <1>21, MoveToCycleOutputKeeps, StepHandled DEF MoveToCycleOutput
<1>22. CASE SwitchWorkspace
  BY <1>22, SwitchKeeps, StepHandled DEF SwitchWorkspace
<1>23. CASE SwitchOutput
  BY <1>23, SwitchKeeps, StepHandled DEF SwitchOutput
<1>24. CASE CycleOutputs
  BY <1>24, SwitchKeeps, StepHandled DEF CycleOutputs
<1>25. CASE SetNws
  <2>1. PICK n \in 1 .. MaxWs :
          /\ \A v \in Views, o \in Outputs, i \in n .. MaxWs - 1 : desk.tree[v] # <<o, i>>
          /\ \E f \in Allocation(ToSet(desk.outputs) \X (desk.nws .. n - 1)) :
               Step(keybinding_set_nws(desk, n, f))
    BY <1>3, <1>25 DEF SetNws
  <2>2. PICK f \in Allocation(ToSet(desk.outputs) \X (desk.nws .. n - 1)) :
          Step(keybinding_set_nws(desk, n, f))
    BY <2>1
  <2>3. PICK N : N = ToSet(desk.outputs) \X (desk.nws .. n - 1)
    OBVIOUS
  <2>4. /\ N \in SUBSET Ws
        /\ \A o, i : <<o, i>> \in N <=> o \in ToSet(desk.outputs) /\ i \in desk.nws .. n - 1
    <3>1. ToSet(desk.outputs) \subseteq Outputs /\ desk.nws \in 1 .. MaxWs /\ MaxWs \in Nat
      BY <1>1, EmptyList, DesktopAssumption DEF DeskType
    <3> QED
      BY <2>3, <3>1 DEF Ws
  <2>5. f \in [N -> FreeTiles(desk)] /\ \A w, x \in N : f[w] = f[x] => w = x
    BY <2>3 DEF Allocation
  <2>6. /\ DeskInv(keybinding_set_nws(desk, n, f))
        /\ Sound(desk) => Sound(keybinding_set_nws(desk, n, f))
    BY <2>1, <2>4, <2>5, SetNwsKeeps
  <2> QED
    BY <2>2, <2>6, StepHandled
<1>27. CASE NewOutput
  <2>1. PICK o \in Outputs \ ToSet(desk.outputs) :
          \E f \in Allocation({<<o, i>> : i \in 0 .. desk.nws - 1}) :
            Step(handle_new_output(desk, o, f))
    BY <1>27 DEF NewOutput
  <2>2. PICK f \in Allocation({<<o, i>> : i \in 0 .. desk.nws - 1}) :
          Step(handle_new_output(desk, o, f))
    BY <2>1
  <2>3. /\ DeskInv(handle_new_output(desk, o, f))
        /\ Sound(desk) => Sound(handle_new_output(desk, o, f))
    BY NewOutputKeeps DEF Allocation
  <2> QED
    BY <2>2, <2>3, StepHandled
<1> QED
  BY <1>4, <1>5, <1>6, <1>7, <1>8, <1>9, <1>10, <1>11, <1>12, <1>13, <1>14, <1>15, <1>16,
     <1>17, <1>18, <1>19, <1>20, <1>21, <1>22, <1>23, <1>24, <1>25, <1>27
     DEF Next

(* Every step of the event loop keeps the invariant.                       *)
LEMMA NextKeeps ==
  ASSUME ByPlace,
         DeskInv(desk), [Next]_desk
  PROVE  DeskInv(desk)'
<1>1. CASE Handled
  BY <1>1, StepKeeps DEF Handled
<1>2. CASE OutputDestroy
  BY <1>2, OutputDestroyKeeps, StepKeeps DEF OutputDestroy
<1>3. CASE UNCHANGED desk
  BY <1>3
<1> QED
  BY <1>1, <1>2, <1>3, NextHandled

(* The invariant holds in every reachable state.                           *)
LEMMA DeskAlways ==
  ASSUME ByPlace
  PROVE  Spec => []DeskInv(desk)
<1>1. DeskInv(desk) /\ [Next]_desk => DeskInv(desk)'
  BY NextKeeps
<1> QED
  BY InitDesk, <1>1, PTL DEF Spec

(* Where the seat's focus is: shown, listed last, mapped.                  *)
LEMMA FocusedPlace ==
  ASSUME NEW s, DeskInv(s), s.focus # NULL
  PROVE  LET l == s.list[CurrWs(s)]
         IN  /\ l \in Seq(Managed) /\ Distinct(l) /\ Len(l) # 0
             /\ Last(l) = s.focus /\ s.focus \in ToSet(l)
             /\ s.focus \in Managed /\ s.life[s.focus] = "mapped"
             /\ s.viewWs[s.focus] = CurrWs(s)
             /\ view_is_visible(s, s.focus)
<1>1. Base(s, {}, {}) /\ Seated(s)
  BY DEF DeskInv
<1>2. /\ CurrWs(s) \in Ws /\ FocusedTile(s) \in Tiles
      /\ s.tileWs[FocusedTile(s)] = CurrWs(s) /\ FocusedTile(s) # NULL
  BY <1>1, CurrentProperties, DesktopAssumption
<1>3. s.list[CurrWs(s)] \in Seq(Managed) /\ Distinct(s.list[CurrWs(s)])
  BY <1>1, <1>2 DEF Base, DeskType, InLists
<1>4. s.focus = s.tileView[FocusedTile(s)]
  BY <1>1 DEF Seated
<1>5. /\ s.focus \in Managed /\ s.life[s.focus] = "mapped"
      /\ s.viewWs[s.focus] = CurrWs(s) /\ s.viewTile[s.focus] = FocusedTile(s)
  BY <1>1, <1>2, <1>4 DEF Base, Linked
<1>6. s.focus \in ToSet(s.list[CurrWs(s)])
  BY <1>1, <1>2, <1>5 DEF Base, InLists
<1>7. Len(s.list[CurrWs(s)]) # 0
  BY <1>3, <1>6, EmptyList
<1>8. view_is_visible(s, s.focus)
  BY <1>2, <1>4, <1>5 DEF view_is_visible, view_get_tile
<1> QED
  BY <1>1, <1>3, <1>5, <1>6, <1>7, <1>8 DEF Seated

(* A handler that uses freed memory found the scene node of an unmapped    *)
(* view gone: the node of a mapped one hangs under a workspace that exists,*)
(* and the seat focuses no other.                                          *)
LEMMA StepNeedsDeadNode ==
  ASSUME DeskInv(desk), NEW s, Sound(desk) => ~s.ub, Step(s)
  PROVE  UbNeedsDeadNode'
<1>1. CASE ~s.ub
  <2>1. desk' = s
    BY <1>1 DEF Step
  <2> QED
    BY <1>1, <2>1 DEF UbNeedsDeadNode
<1>2. CASE s.ub
  <2>1. desk' = [desk EXCEPT !.ub = TRUE] /\ ~desk.ub /\ ~Sound(desk)
    BY <1>2 DEF Step
  <2>2. Base(desk, {}, {}) /\ desk \in DeskType
    BY DEF DeskInv, Base
  <2>3. desk'.life = desk.life /\ desk'.tree = desk.tree
    BY <2>1, <2>2 DEF DeskType
  <2>4. desk.focus # NULL => desk.life[desk.focus] # "none"
    <3> HAVE desk.focus # NULL
    <3>1. desk.life[desk.focus] = "mapped"
      BY FocusedPlace
    <3> QED
      BY <3>1
  <2>5. PICK v \in Views : desk.life[v] # "none" /\ desk.tree[v] = NULL
    BY <2>1, <2>4 DEF Sound
  <2>6. desk.life[v] # "mapped"
    <3> SUFFICES ASSUME desk.life[v] = "mapped" PROVE FALSE
      OBVIOUS
    <3>1. desk.viewWs[v] \in LiveWs(desk) /\ desk.tree[v] = desk.viewWs[v]
      BY <2>2 DEF Base, InLists
    <3>2. desk.viewWs[v] \in Ws
      BY <3>1, <2>2, LiveProperties
    <3> QED
      BY <2>5, <3>1, <3>2, DesktopAssumption
  <2>7. desk.life[v] = "unmapped"
    BY <2>2, <2>5, <2>6 DEF DeskType
  <2>8. \E u \in Views : desk'.life[u] = "unmapped" /\ desk'.tree[u] = NULL
    BY <2>3, <2>5, <2>7
  <2> QED
    BY <2>8 DEF UbNeedsDeadNode
<1> QED
  BY <1>1, <1>2

(* Every step of the event loop that keeps an output connected.            *)
LEMMA NextNeedsDeadNode ==
  ASSUME ByPlace, "unplug_last" \notin Inputs, DeskInv(desk), UbNeedsDeadNode, [Next]_desk
  PROVE  UbNeedsDeadNode'
<1>1. CASE Handled
  <2>1. PICK s : Step(s) /\ DeskInv(s) /\ (Sound(desk) => Sound(s))
    BY <1>1 DEF Handled
  <2>2. Sound(desk) => ~s.ub
    BY <2>1 DEF Sound
  <2> QED
    BY <2>1, <2>2, StepNeedsDeadNode
<1>2. CASE OutputDestroy
  <2>1. PICK o \in ToSet(desk.outputs) :
          Len(desk.outputs) > 1 /\ Step(output_destroy(desk, o))
    BY <1>2 DEF OutputDestroy
  <2>2. Sound(desk) => ~output_destroy(desk, o).ub
    <3>1. Len(desk.outputs) \in Nat
      <4>1. desk.outputs \in Seq(Outputs)
        BY DEF DeskInv, Base, DeskType
      <4> QED
        BY <4>1, LenProperties
    <3>2. Len(desk.outputs) # 1
      <4> DEFINE n == Len(desk.outputs)
      <4>1. n > 1
        BY <2>1, Zenon
      <4>2. n \in Nat
        BY <3>1
      <4> HIDE DEF n
      <4>3. n # 1
        BY <4>1, <4>2
      <4> QED
        BY <4>3 DEF n
    <3>3. Len(desk.outputs) # 1 /\ Sound(desk) => ~output_destroy(desk, o).ub
      BY OutputDestroyKeeps
    <3> QED
      BY <3>2, <3>3
  <2> QED
    BY <2>1, <2>2, StepNeedsDeadNode
<1>3. CASE UNCHANGED desk
  BY <1>3 DEF UbNeedsDeadNode
<1> QED
  BY <1>1, <1>2, <1>3, NextHandled

(* With one output, which is never unplugged, no scene node goes down      *)
(* before its view does.                                                   *)
LEMMA NextKeepsSound ==
  ASSUME ByPlace, "unplug_last" \notin Inputs, Outputs = {FirstOutput},
         DeskInv(desk), Sound(desk), [Next]_desk
  PROVE  Sound(desk)'
<1>1. CASE Handled
  <2>1. PICK s : Step(s) /\ (Sound(desk) => Sound(s))
    BY <1>1 DEF Handled
  <2>2. Sound(s)
    BY <2>1
  <2>3. desk' = s
    BY <2>1, <2>2 DEF Step, Sound
  <2>4. Sound(desk')
    BY <2>2, <2>3
  <2> QED
    BY <2>4
<1>2. CASE OutputDestroy
  <2>1. Len(desk.outputs) > 1
    BY <1>2 DEF OutputDestroy
  <2>2. desk.outputs \in Seq(Outputs) /\ Distinct(desk.outputs)
    BY DEF DeskInv, Base, DeskType, Placed
  <2>3. /\ Len(desk.outputs) \in Nat /\ DOMAIN desk.outputs = 1 .. Len(desk.outputs)
        /\ \A i \in 1 .. Len(desk.outputs) : desk.outputs[i] \in Outputs
    BY <2>2, LenProperties
  <2>4. 1 \in DOMAIN desk.outputs /\ 2 \in DOMAIN desk.outputs
    BY <2>1, <2>3
  <2>5. desk.outputs[1] = desk.outputs[2]
    BY <2>3, <2>4
  <2> QED
    BY <2>2, <2>4, <2>5 DEF Distinct
<1>3. CASE UNCHANGED desk
  BY <1>3
<1> QED
  BY <1>1, <1>2, <1>3, NextHandled

-----------------------------------------------------------------------------
(* The walks over a list of views.                                         *)

(* Starting the walk one place earlier, at a visible view, finds the same. *)
LEMMA WalkPastVisible ==
  ASSUME NEW s, NEW S, NEW p \in Seq(S), NEW q \in Seq(S),
         Len(q) = Len(p) + 1, view_is_visible(s, q[1]),
         \A i \in 1 .. Len(p) : q[i + 1] = p[i]
  PROVE  FirstHidden(s, q) = FirstHidden(s, p)
<1> DEFINE hp == {i \in DOMAIN p : ~view_is_visible(s, p[i])}
           hq == {i \in DOMAIN q : ~view_is_visible(s, q[i])}
<1>1. /\ Len(p) \in Nat /\ DOMAIN p = 1 .. Len(p) /\ DOMAIN q = 1 .. Len(p) + 1
      /\ hp \in SUBSET Nat /\ hq \in SUBSET Nat
  BY LenProperties
<1>2. \A i \in hp : i + 1 \in hq /\ q[i + 1] = p[i]
  BY <1>1
<1>3. \A i \in hq : i - 1 \in hp
  <2> TAKE i \in hq
  <2>1. i # 1 /\ i \in 1 .. Len(p) + 1
    BY <1>1
  <2>2. i - 1 \in 1 .. Len(p) /\ (i - 1) + 1 = i
    BY <2>1, <1>1
  <2>3. q[i] = p[i - 1]
    BY <2>2
  <2> QED
    BY <2>2, <2>3, <1>1
<1>4. /\ FirstHidden(s, p) = IF hp = {} THEN NULL ELSE p[Min(hp)]
      /\ FirstHidden(s, q) = IF hq = {} THEN NULL ELSE q[Min(hq)]
  BY DEF FirstHidden
<1> HIDE DEF hp, hq
<1>5. CASE hp = {}
  BY <1>3, <1>4, <1>5
<1>6. CASE hp # {}
  <2>1. Min(hp) \in hp /\ \A i \in hp : Min(hp) <= i
    BY <1>1, <1>6, LeastNat DEF Min
  <2>2. hq # {}
    BY <1>2, <1>6
  <2>3. Min(hq) \in hq /\ \A i \in hq : Min(hq) <= i
    BY <1>1, <2>2, LeastNat DEF Min
  <2>4. Min(hp) + 1 \in hq /\ Min(hq) - 1 \in hp
    BY <2>1, <2>3, <1>2, <1>3
  <2>5. Min(hq) = Min(hp) + 1
    <3>1. Min(hq) \in Nat /\ Min(hp) \in Nat
      <4>1. hp \subseteq Nat /\ hq \subseteq Nat
        BY <1>1
      <4> QED
        BY <4>1, <2>1, <2>3
    <3>2. Min(hq) <= Min(hp) + 1 /\ Min(hp) <= Min(hq) - 1
      BY <2>1, <2>3, <2>4
    <3> QED
      BY <3>1, <3>2
  <2> QED
    BY <2>1, <2>2, <2>5, <1>2, <1>4, <1>6
<1> QED
  BY <1>5, <1>6

(* The walk of view_get_prev_view from the last view of a list agrees with *)
(* that of keybinding_cycle_views, which starts at this view.              *)
LEMMA SameWalk ==
  ASSUME NEW s, NEW S, NEW l \in Seq(S), Distinct(l), Len(l) # 0,
         view_is_visible(s, Last(l)), NEW v, s.list[s.viewWs[v]] = l, v = Last(l)
  PROVE  view_get_prev_view(s, v) = FirstHidden(s, Reverse(l))
<1> DEFINE n == Len(l)
           a == SubSeq(l, 1, n - 1)
           b == SubSeq(l, n + 1, n)
           p == Reverse(a) \o Reverse(b)
           q == Reverse(l)
<1>1. n \in Nat /\ n \in 1 .. n /\ DOMAIN l = 1 .. n /\ v = l[n]
  BY LenProperties DEF Last
<1>2. IndexIn(l, v) = n
  <2>1. IndexIn(l, v) \in 1 .. Len(l) /\ l[IndexIn(l, v)] = v
    <3>1. v \in ToSet(l)
      BY <1>1 DEF ToSet
    <3> QED
      BY <3>1, IndexInProperties
  <2> QED
    BY <2>1, <1>1 DEF Distinct
<1>3. view_get_prev_view(s, v) = FirstHidden(s, p)
  BY <1>2 DEF view_get_prev_view
<1>4. /\ a \in Seq(S) /\ Len(a) = n - 1 /\ \A i \in 1 .. n - 1 : a[i] = l[i]
      /\ b \in Seq(S) /\ Len(b) = n - n
  BY <1>1, CutProperties
<1> HIDE DEF a, b
<1>5. /\ Reverse(a) \in Seq(S) /\ Len(Reverse(a)) = n - 1
      /\ \A i \in 1 .. n - 1 : Reverse(a)[i] = a[n - 1 - i + 1]
      /\ Reverse(b) \in Seq(S) /\ Len(Reverse(b)) = 0
  <2>1. Reverse(a) \in Seq(S) /\ Reverse(b) \in Seq(S)
    BY <1>4, Reversed
  <2>2. /\ Len(Reverse(a)) = Len(a) /\ Len(Reverse(b)) = Len(b)
        /\ \A i \in 1 .. Len(a) : Reverse(a)[i] = a[Len(a) - i + 1]
    BY <1>4, ReversedAt
  <2> QED
    BY <2>1, <2>2, <1>1, <1>4
<1>6. p \in Seq(S) /\ Len(p) = n - 1 /\ \A i \in 1 .. n - 1 : p[i] = l[n - i]
  <2>1. /\ p \in Seq(S) /\ Len(p) = Len(Reverse(a)) + Len(Reverse(b))
        /\ \A i \in 1 .. Len(Reverse(a)) + Len(Reverse(b)) :
             p[i] = IF i <= Len(Reverse(a)) THEN Reverse(a)[i]
                    ELSE Reverse(b)[i - Len(Reverse(a))]
    BY <1>5, ConcatProperties
  <2> HIDE DEF p
  <2>2. Len(p) = n - 1
    BY <2>1, <1>1, <1>5
  <2>3. ASSUME NEW i \in 1 .. n - 1 PROVE p[i] = l[n - i]
    <3>1. /\ i \in 1 .. Len(Reverse(a)) + Len(Reverse(b)) /\ i <= Len(Reverse(a))
          /\ n - 1 - i + 1 = n - i /\ n - i \in 1 .. n - 1
      BY <1>1, <1>5
    <3>2. p[i] = Reverse(a)[i] /\ Reverse(a)[i] = a[n - 1 - i + 1]
      BY <2>1, <3>1, <1>5
    <3> QED
      BY <3>1, <3>2, <1>4
  <2> QED
    BY <2>1, <2>2, <2>3
<1>7. q \in Seq(S) /\ Len(q) = n /\ \A i \in 1 .. n : q[i] = l[n - i + 1]
  BY Reversed, ReversedAt
<1> HIDE DEF p, q
<1>8. Len(q) = Len(p) + 1
  BY <1>1, <1>6, <1>7
<1>9. q[1] = Last(l)
  BY <1>1, <1>7
<1>10. \A i \in 1 .. Len(p) : q[i + 1] = p[i]
  <2> TAKE i \in 1 .. Len(p)
  <2>1. i \in 1 .. n - 1 /\ i + 1 \in 1 .. n /\ n - (i + 1) + 1 = n - i
    BY <1>1, <1>6
  <2> QED
    BY <2>1, <1>6, <1>7
<1>11. FirstHidden(s, q) = FirstHidden(s, p)
  BY <1>6, <1>7, <1>8, <1>9, <1>10, WalkPastVisible
<1> QED
  BY <1>3, <1>11 DEF q

(* `next` and `prev` on the focused tile focus the view they find.         *)
LEMMA CycleFocuses ==
  ASSUME NEW s, DeskInv(s), NEW reverse \in BOOLEAN
  PROVE  LET l == s.list[CurrWs(s)]
             v == FirstHidden(s, IF reverse THEN l ELSE Reverse(l))
             r == keybinding_cycle_views(s, FocusedTile(s), reverse)
         IN  /\ DeskInv(r)
             /\ v = NULL => r = s
             /\ v # NULL => /\ v \in ToSet(l) /\ ~view_is_visible(s, v)
                            /\ r = ShowInTile(s, FocusedTile(s), v)
                            /\ Frame(s, r) /\ r.focus = v
                            /\ r.tileView = [s.tileView EXCEPT ![FocusedTile(s)] = v]
<1> DEFINE t == FocusedTile(s)
           l == s.list[CurrWs(s)]
           q == IF reverse THEN l ELSE Reverse(l)
           v == FirstHidden(s, q)
           r == keybinding_cycle_views(s, t, reverse)
<1>1. Base(s, {}, {}) /\ Seated(s)
  BY DEF DeskInv
<1>2. t \in Tiles /\ s.tileWs[t] = CurrWs(s) /\ CurrWs(s) \in LiveWs(s) /\ CurrWs(s) \in Ws
  BY <1>1, CurrentProperties
<1>3. r = IF v = NULL THEN s ELSE ShowInTile(s, t, v)
  BY <1>2 DEF keybinding_cycle_views
<1>4. q \in Seq(Managed) /\ ToSet(q) = ToSet(l)
  BY <1>1, <1>2, Reversed DEF Base, DeskType
<1>5. s.tileView \in [Tiles -> Views \cup {NULL}]
  BY <1>1 DEF Base, DeskType
<1> HIDE DEF q, r, t
<1>6. CASE v = NULL
  BY <1>3, <1>6 DEF q, r, t
<1>7. CASE v # NULL
  <2>1. v \in ToSet(l) /\ ~view_is_visible(s, v)
    BY <1>4, <1>7, FirstHiddenProperties
  <2> HIDE DEF v
  <2>2. r = ShowInTile(s, t, v)
    BY <1>3, <1>7
  <2>3. /\ Base(r, {}, {}) /\ Frame(s, r)
        /\ r.tileView = [s.tileView EXCEPT ![t] = v]
        /\ Seated(r)
    BY <2>1, <2>2, <1>1, <1>2, ShowKeeps DEF t
  <2>4. FocusedTile(r) = t
    BY <2>3, FrameProperties DEF t
  <2>5. r.focus = v
    BY <2>3, <2>4, <1>2, <1>5 DEF Seated
  <2> QED
    BY <2>1, <2>2, <2>3, <2>5, <1>7 DEF DeskInv, q, r, t, v
<1> QED
  BY <1>6, <1>7

(* Closing the focused view focuses the view that view_get_prev_view found.*)
LEMMA UnmapFocuses ==
  ASSUME NEW s, DeskInv(s), s.focus # NULL
  PROVE  view_unmap(s, s.focus).focus = view_get_prev_view(s, s.focus)
<1> DEFINE v == s.focus
           prev == view_get_prev_view(s, v)
           s1 == CASE v \in Managed /\ v = s.focus ->
                        seat_set_focus(s, prev)
                   [] v \in Managed /\ v # s.focus /\ s.kb = v ->
                        seat_set_focus(ClearKeyboard(s), s.focus)
                   [] v \in Unmanaged /\ s.kb \in {NULL, v} ->
                        seat_set_focus(s, s.focus)
                   [] OTHER -> s
           t  == view_get_tile(s1, v)
           s2 == IF v \in Managed /\ t # NULL
                 THEN workspace_tile_update_view(s1, t, prev) ELSE s1
<1>1. view_unmap(s, v) = [Unlink(s2, v) EXCEPT !.life[v] = "unmapped"]
  BY DEF view_unmap
<1>2. Base(s, {}, {}) /\ Seated(s)
  BY DEF DeskInv
<1>3. /\ v \in Managed /\ v \in ToSet(s.list[CurrWs(s)]) /\ s.viewWs[v] = CurrWs(s)
  BY FocusedPlace
<1>4. CurrWs(s) \in Ws /\ FocusedTile(s) \in Tiles
  BY <1>2, CurrentProperties
<1>5. s1 = seat_set_focus(s, prev)
  BY <1>3 DEF Managed
<1>6. prev # NULL => /\ prev \in ToSet(s.list[CurrWs(s)]) /\ prev \in Managed
                     /\ ~view_is_visible(s, prev)
  BY <1>2, <1>3, <1>4, PrevProperties, ListedIsHome
<1>7. Focusable(s, prev)
  BY <1>2, <1>6, HiddenFits DEF Focusable
<1> HIDE DEF prev, s1
<1>8. /\ Base(s1, {}, {}) /\ Seated(s1) /\ Frame(s, s1)
      /\ s1.tileView = [s.tileView EXCEPT ![FocusedTile(s)] = prev]
  BY <1>2, <1>5, <1>7, FocusSeats
<1>9. s1.focus = prev
  <2>1. FocusedTile(s1) = FocusedTile(s) /\ s.tileView \in [Tiles -> Views \cup {NULL}]
    BY <1>2, <1>8, FrameProperties DEF Base, DeskType
  <2> QED
    BY <2>1, <1>4, <1>8 DEF Seated
<1>10. s2.focus = s1.focus /\ DOMAIN s2 = Fields
  <2>1. CASE v \in Managed /\ t # NULL
    <3>1. s2 = workspace_tile_update_view(s1, t, prev)
      BY <2>1
    <3> QED
      BY <3>1, <1>8 DEF workspace_tile_update_view, Base, DeskType, Fields
  <2>2. CASE ~(v \in Managed /\ t # NULL)
    BY <2>2, <1>8 DEF Base, DeskType, Fields
  <2> QED
    BY <2>1, <2>2
<1> HIDE DEF s2
<1>11. [Unlink(s2, v) EXCEPT !.life[v] = "unmapped"].focus = s2.focus
  BY <1>10 DEF Unlink, Fields
<1> QED
  BY <1>1, <1>9, <1>10, <1>11 DEF prev

-----------------------------------------------------------------------------
(* Cycling through the views of a workspace.                               *)

(* A managed view is visible when a tile shows it.                         *)
LEMMA VisibleManaged ==
  ASSUME NEW s, NEW A, NEW G, Base(s, A, G), NEW v \in Managed
  PROVE  view_is_visible(s, v) <=> \E x \in Tiles : s.tileView[x] = v
<1>1. v # NULL /\ v \notin Unmanaged
  BY DesktopAssumption DEF Managed
<1>2. ASSUME NEW x \in Tiles, s.tileView[x] = v PROVE view_is_visible(s, v)
  BY <1>1, <1>2, HiddenFits
<1> QED
  BY <1>2, VisibleIsShown

(* The walk along a list finds its first hidden view.                      *)
LEMMA FirstHiddenIs ==
  ASSUME NEW s, NEW S, NEW seq \in Seq(S), NULL \notin S
  PROVE  /\ FirstHidden(s, seq) = NULL <=>
              \A i \in 1 .. Len(seq) : view_is_visible(s, seq[i])
         /\ \A i \in 1 .. Len(seq) :
              /\ ~view_is_visible(s, seq[i])
              /\ \A j \in 1 .. i - 1 : view_is_visible(s, seq[j])
              => FirstHidden(s, seq) = seq[i]
         /\ FirstHidden(s, seq) # NULL =>
              \E i \in 1 .. Len(seq) :
                /\ FirstHidden(s, seq) = seq[i] /\ ~view_is_visible(s, seq[i])
                /\ \A j \in 1 .. i - 1 : view_is_visible(s, seq[j])
<1> DEFINE hidden == {i \in DOMAIN seq : ~view_is_visible(s, seq[i])}
<1>1. /\ Len(seq) \in Nat /\ DOMAIN seq = 1 .. Len(seq) /\ hidden \in SUBSET Nat
      /\ \A i \in 1 .. Len(seq) : seq[i] \in S
  BY LenProperties, ElementOfSeq
<1>2. FirstHidden(s, seq) = IF hidden = {} THEN NULL ELSE seq[Min(hidden)]
  BY DEF FirstHidden
<1>3. \A i \in 1 .. Len(seq) : i \in hidden <=> ~view_is_visible(s, seq[i])
  BY <1>1
<1>4. hidden \subseteq 1 .. Len(seq)
  BY <1>1
<1> HIDE DEF hidden
<1>5. hidden # {} => Min(hidden) \in hidden /\ \A i \in hidden : Min(hidden) <= i
  BY <1>1, LeastNat DEF Min
<1>6. FirstHidden(s, seq) = NULL <=> hidden = {}
  BY <1>1, <1>2, <1>4, <1>5
<1>7. ASSUME NEW i \in 1 .. Len(seq), ~view_is_visible(s, seq[i]),
             \A j \in 1 .. i - 1 : view_is_visible(s, seq[j])
      PROVE  FirstHidden(s, seq) = seq[i]
  <2>1. i \in hidden /\ \A j \in 1 .. i - 1 : j \notin hidden
    BY <1>1, <1>3, <1>7
  <2>2. Min(hidden) \in hidden /\ Min(hidden) <= i /\ Min(hidden) \in 1 .. Len(seq)
    BY <2>1, <1>4, <1>5
  <2>3. Min(hidden) = i
    BY <2>1, <2>2, <1>1
  <2> QED
    BY <2>1, <2>3, <1>2
<1>8. ASSUME FirstHidden(s, seq) # NULL
      PROVE  \E i \in 1 .. Len(seq) :
               /\ FirstHidden(s, seq) = seq[i] /\ ~view_is_visible(s, seq[i])
               /\ \A j \in 1 .. i - 1 : view_is_visible(s, seq[j])
  <2>1. hidden # {} /\ FirstHidden(s, seq) = seq[Min(hidden)]
    BY <1>2, <1>8
  <2>2. Min(hidden) \in hidden /\ Min(hidden) \in 1 .. Len(seq)
    BY <2>1, <1>4, <1>5
  <2>3. \A j \in 1 .. Min(hidden) - 1 : j \in 1 .. Len(seq) /\ ~(Min(hidden) <= j)
    BY <2>2, <1>1
  <2>4. \A j \in 1 .. Min(hidden) - 1 : view_is_visible(s, seq[j])
    BY <2>1, <2>3, <1>3, <1>5
  <2> QED
    BY <2>1, <2>2, <2>4, <1>3
<1>9. FirstHidden(s, seq) = NULL <=>
        \A i \in 1 .. Len(seq) : view_is_visible(s, seq[i])
  BY <1>3, <1>4, <1>6
<1> QED
  BY <1>7, <1>8, <1>9

(* ... and the walk back from its end the last one.                        *)
LEMMA LastHiddenIs ==
  ASSUME NEW s, NEW S, NEW seq \in Seq(S), NULL \notin S
  PROVE  LET v == FirstHidden(s, Reverse(seq))
         IN  /\ v = NULL <=> \A i \in 1 .. Len(seq) : view_is_visible(s, seq[i])
             /\ v # NULL =>
                  \E k \in 1 .. Len(seq) :
                    /\ v = seq[k] /\ ~view_is_visible(s, seq[k])
                    /\ \A j \in k + 1 .. Len(seq) : view_is_visible(s, seq[j])
<1> DEFINE q == Reverse(seq)
           n == Len(seq)
           v == FirstHidden(s, q)
<1>1. n \in Nat
  BY LenProperties
<1>2. q \in Seq(S) /\ Len(q) = n /\ \A i \in 1 .. n : q[i] = seq[n - i + 1]
  BY Reversed, ReversedAt
<1> HIDE DEF q, n
<1>3. /\ v = NULL <=> \A i \in 1 .. n : view_is_visible(s, q[i])
      /\ v # NULL => \E i \in 1 .. n :
                       /\ v = q[i] /\ ~view_is_visible(s, q[i])
                       /\ \A j \in 1 .. i - 1 : view_is_visible(s, q[j])
  BY <1>2, FirstHiddenIs
<1>4. \A j \in 1 .. n : n - j + 1 \in 1 .. n /\ seq[j] = q[n - j + 1]
  <2> TAKE j \in 1 .. n
  <2>1. n - j + 1 \in 1 .. n /\ n - (n - j + 1) + 1 = j
    BY <1>1
  <2> QED
    BY <2>1, <1>2
<1>5. v = NULL <=> \A i \in 1 .. n : view_is_visible(s, seq[i])
  <2>1. \A i \in 1 .. n : n - i + 1 \in 1 .. n
    BY <1>1
  <2> HIDE DEF v
  <2> QED
    BY <2>1, <1>2, <1>3, <1>4
<1>6. ASSUME v # NULL
      PROVE  \E k \in 1 .. n : /\ v = seq[k] /\ ~view_is_visible(s, seq[k])
                               /\ \A j \in k + 1 .. n : view_is_visible(s, seq[j])
  <2>1. PICK i \in 1 .. n : /\ v = q[i] /\ ~view_is_visible(s, q[i])
                            /\ \A j \in 1 .. i - 1 : view_is_visible(s, q[j])
    BY <1>3, <1>6
  <2>2. n - i + 1 \in 1 .. n /\ q[i] = seq[n - i + 1]
    BY <1>1, <1>2
  <2>3. ASSUME NEW j \in (n - i + 1) + 1 .. n PROVE view_is_visible(s, seq[j])
    <3>1. j \in 1 .. n /\ n - j + 1 \in 1 .. i - 1
      BY <1>1
    <3> QED
      BY <3>1, <2>1, <1>4
  <2> QED
    BY <2>1, <2>2, <2>3
<1> QED
  BY <1>5, <1>6 DEF n, q

(* Where the elements of a list are when it is cut behind place k and its  *)
(* parts are exchanged.                                                    *)
LEMMA RotatedPlaces ==
  ASSUME NEW S, NEW seq \in Seq(S), NEW k \in 1 .. Len(seq)
  PROVE  LET r == SubSeq(seq, k + 1, Len(seq)) \o SubSeq(seq, 1, k)
         IN  /\ r \in Seq(S) /\ Len(r) = Len(seq)
             /\ \A i \in k + 1 .. Len(seq) : r[i - k] = seq[i]
             /\ \A i \in 1 .. k : r[Len(seq) - k + i] = seq[i]
<1> DEFINE p == SubSeq(seq, k + 1, Len(seq))
           q == SubSeq(seq, 1, k)
           r == p \o q
           n == Len(seq)
<1>1. k \in 1 .. n /\ n \in Nat
  BY LenProperties
<1>2. /\ q \in Seq(S) /\ Len(q) = k /\ \A i \in 1 .. k : q[i] = seq[i]
      /\ p \in Seq(S) /\ Len(p) = n - k /\ \A i \in 1 .. n - k : p[i] = seq[k + i]
  BY CutProperties
<1> HIDE DEF p, q, n
<1>3. /\ r \in Seq(S) /\ Len(r) = Len(p) + Len(q)
      /\ \A i \in 1 .. Len(p) + Len(q) :
           r[i] = IF i <= Len(p) THEN p[i] ELSE q[i - Len(p)]
  BY <1>2, ConcatProperties
<1> HIDE DEF r
<1>4. \A i \in k + 1 .. n : r[i - k] = seq[i]
  <2> TAKE i \in k + 1 .. n
  <2>1. i - k \in 1 .. n - k /\ k + (i - k) = i
    BY <1>1
  <2>2. r[i - k] = p[i - k]
    BY <2>1, <1>1, <1>2, <1>3
  <2> QED
    BY <2>1, <2>2, <1>2
<1>5. \A i \in 1 .. k : r[n - k + i] = seq[i]
  <2> TAKE i \in 1 .. k
  <2> DEFINE j == n - k + i
  <2>1. j \in 1 .. Len(p) + Len(q) /\ ~(j <= Len(p)) /\ j - Len(p) = i
    BY <1>1, <1>2
  <2> HIDE DEF j
  <2>2. r[j] = q[i]
    BY <2>1, <1>3
  <2> USE DEF j
  <2> QED
    BY <2>2, <1>2
<1>6. Len(r) = n
  BY <1>1, <1>2, <1>3
<1> QED
  BY <1>3, <1>4, <1>5, <1>6 DEF r, p, q, n

(* The place of an element of a list without duplicates.                   *)
LEMMA PlaceIs ==
  ASSUME NEW S, NEW seq \in Seq(S), Distinct(seq), NEW k \in 1 .. Len(seq)
  PROVE  IndexIn(seq, seq[k]) = k /\ seq[k] \in ToSet(seq)
<1>1. DOMAIN seq = 1 .. Len(seq)
  BY LenProperties
<1>2. seq[k] \in ToSet(seq)
  BY <1>1 DEF ToSet
<1>3. IndexIn(seq, seq[k]) \in 1 .. Len(seq) /\ seq[IndexIn(seq, seq[k])] = seq[k]
  BY <1>2, IndexInProperties
<1> QED
  BY <1>1, <1>2, <1>3 DEF Distinct

(* Rotating twice, first to place k and then back to what was the end,     *)
(* restores the list.                                                      *)
LEMMA RotatedBack ==
  ASSUME NEW S, NEW seq \in Seq(S), Distinct(seq), NEW k \in 1 .. Len(seq) - 1
  PROVE  RotateTo(RotateTo(seq, seq[k]), Last(seq)) = seq
<1> DEFINE n == Len(seq)
           r == RotateTo(seq, seq[k])
           b == RotateTo(r, Last(seq))
<1>1. n \in Nat /\ k \in 1 .. n /\ n - k \in 1 .. n /\ n \in k + 1 .. n
  BY LenProperties
<1>2. IndexIn(seq, seq[k]) = k
  BY <1>1, PlaceIs
<1>3. r = SubSeq(seq, k + 1, n) \o SubSeq(seq, 1, k)
  BY <1>2 DEF RotateTo
<1>4. /\ r \in Seq(S) /\ Distinct(r) /\ Len(r) = n
      /\ \A i \in k + 1 .. n : r[i - k] = seq[i]
      /\ \A i \in 1 .. k : r[n - k + i] = seq[i]
  BY <1>1, <1>3, RotatedPlaces, RotatedAt
<1> HIDE DEF r
<1>5. r[n - k] = Last(seq)
  BY <1>1, <1>4 DEF Last
<1>6. IndexIn(r, Last(seq)) = n - k
  BY <1>1, <1>4, <1>5, PlaceIs
<1>7. b = SubSeq(r, (n - k) + 1, Len(r)) \o SubSeq(r, 1, n - k)
  BY <1>6 DEF RotateTo
<1>8. /\ b \in Seq(S) /\ Len(b) = n
      /\ \A i \in (n - k) + 1 .. n : b[i - (n - k)] = r[i]
      /\ \A i \in 1 .. n - k : b[n - (n - k) + i] = r[i]
  <2>1. n - k \in 1 .. Len(r)
    BY <1>1, <1>4
  <2> QED
    BY <2>1, <1>4, <1>7, RotatedPlaces
<1> HIDE DEF b
<1>9. ASSUME NEW i \in 1 .. n PROVE b[i] = seq[i]
  <2>1. CASE i <= k
    <3>1. /\ i \in 1 .. k /\ n - k + i \in (n - k) + 1 .. n
          /\ (n - k + i) - (n - k) = i
      BY <2>1, <1>1
    <3>2. b[i] = r[n - k + i]
      BY <3>1, <1>8
    <3> QED
      BY <3>1, <3>2, <1>4
  <2>2. CASE i > k
    <3>1. /\ i \in k + 1 .. n /\ i - k \in 1 .. n - k
          /\ n - (n - k) + (i - k) = i
      BY <2>2, <1>1
    <3>2. b[i] = r[i - k]
      BY <3>1, <1>8
    <3> QED
      BY <3>1, <3>2, <1>4
  <2> QED
    BY <2>1, <2>2, <1>1
<1> HIDE DEF n
<1>10. b = seq
  BY <1>8, <1>9, SeqEqual DEF n
<1> QED
  BY <1>10 DEF b, r

(* Showing a hidden view of the current workspace in the focused tile: the *)
(* list of views is rotated, and what the tile showed gets hidden.         *)
LEMMA ShownInFocused ==
  ASSUME NEW s, DeskInv(s), NEW v \in ToSet(s.list[CurrWs(s)]),
         NEW r, r = ShowInTile(s, FocusedTile(s), v), DeskInv(r), Frame(s, r),
         r.tileView = [s.tileView EXCEPT ![FocusedTile(s)] = v]
  PROVE  /\ r.list = [s.list EXCEPT ![CurrWs(s)] = RotateTo(@, v)]
         /\ CurrWs(r) = CurrWs(s) /\ FocusedTile(r) = FocusedTile(s)
         /\ \A x \in Managed :
              view_is_visible(r, x) <=> x = v \/ (view_is_visible(s, x) /\ x # s.focus)
<1> DEFINE t == FocusedTile(s)
           w == CurrWs(s)
           u == workspace_tile_update_view(s, t, v)
<1>1. Base(s, {}, {}) /\ Seated(s) /\ Base(r, {}, {})
  BY DEF DeskInv
<1>2. /\ t \in Tiles /\ w \in Ws /\ s.tileView \in [Tiles -> Views \cup {NULL}]
      /\ s.list \in [Ws -> Seq(Managed)]
  BY <1>1, CurrentProperties DEF Base, DeskType
<1>3. v \in Managed /\ v # NULL
  BY <1>1, <1>2, ListedIsHome
<1>4. CurrWs(r) = w /\ FocusedTile(r) = t
  BY FrameProperties
<1>5. r.list = [s.list EXCEPT ![w] = RotateTo(@, v)]
  <2>1. r = seat_set_focus(u, v)
    BY DEF ShowInTile
  <2>2. /\ u \in DeskType /\ u.list = s.list /\ CurrWs(u) = w
    BY <1>1, <1>2, <1>3 DEF workspace_tile_update_view, Base, DeskType, CurrWs, Managed
  <2> HIDE DEF u, w
  <2> DEFINE x == workspace_tile_update_view(u, FocusedTile(u), v)
  <2>3. seat_set_focus(u, v) =
          [x EXCEPT !.list[w] = IF v \in ToSet(@) THEN RotateTo(@, v) ELSE @,
                    !.focus = v, !.kb = v,
                    !.ub = @ \/ (u.focus # NULL /\ u.life[u.focus] = "none")
                             \/ v \notin ToSet(u.list[w])]
    BY <2>2, <1>3, Zenon DEF seat_set_focus
  <2>4. x.list = s.list /\ DOMAIN x = Fields
    BY <2>2 DEF workspace_tile_update_view, DeskType, Fields
  <2> HIDE DEF x
  <2>5. r.list = [s.list EXCEPT ![w] = IF v \in ToSet(@) THEN RotateTo(@, v) ELSE @]
    BY <2>1, <2>3, <2>4 DEF Fields
  <2> QED
    BY <2>5, <1>2 DEF w
<1>6. ASSUME NEW x \in Managed
      PROVE  view_is_visible(r, x) <=> x = v \/ (view_is_visible(s, x) /\ x # s.focus)
  <2>1. /\ view_is_visible(r, x) <=> \E y \in Tiles : r.tileView[y] = x
        /\ view_is_visible(s, x) <=> \E y \in Tiles : s.tileView[y] = x
    BY <1>1, VisibleManaged
  <2>2. \A y \in Tiles : r.tileView[y] = IF y = t THEN v ELSE s.tileView[y]
    BY <1>2
  <2>3. s.tileView[t] = s.focus
    BY <1>1 DEF Seated
  <2>4. x # NULL
    BY DesktopAssumption DEF Managed
  <2>5. \A y \in Tiles : s.tileView[y] = x /\ x = s.focus => y = t
    BY <2>3, <2>4, <1>1, <1>2 DEF Base, Linked
  <2> QED
    BY <2>1, <2>2, <2>3, <2>5, <1>2
<1> QED
  BY <1>4, <1>5, <1>6

(* One `next`: the view it shows is the hidden one nearest to the end of   *)
(* the list, and every other hidden view stays hidden and moves closer.    *)
LEMMA CycleStep ==
  ASSUME NEW s, DeskInv(s), NEW v \in ToSet(s.list[CurrWs(s)]), ~view_is_visible(s, v)
  PROVE  LET r == Next1(s)
             l == s.list[CurrWs(s)]
             m == r.list[CurrWs(s)]
         IN  /\ DeskInv(r) /\ CurrWs(r) = CurrWs(s) /\ Len(m) = Len(l) /\ r.focus # NULL
             /\ r.focus # v => /\ v \in ToSet(m) /\ ~view_is_visible(r, v)
                               /\ IndexIn(m, v) >= IndexIn(l, v)
                               /\ s.focus # NULL => IndexIn(m, v) >= IndexIn(l, v) + 1
<1> DEFINE r == Next1(s)
           w == CurrWs(s)
           l == s.list[w]
           m == r.list[w]
           n == Len(l)
           f == FirstHidden(s, Reverse(l))
<1>1. Base(s, {}, {}) /\ Seated(s)
  BY DEF DeskInv
<1>2. /\ w \in Ws /\ s.list \in [Ws -> Seq(Managed)] /\ l \in Seq(Managed) /\ Distinct(l)
      /\ NULL \notin Managed
  BY <1>1, CurrentProperties, DesktopAssumption DEF Base, DeskType, InLists, Managed
<1>3. n \in Nat /\ DOMAIN l = 1 .. n
  BY <1>2, LenProperties
<1>4. PICK p \in 1 .. n : l[p] = v
  BY <1>3 DEF ToSet
<1>5. IndexIn(l, v) = p /\ v \in Managed
  BY <1>2, <1>4, PlaceIs, ElementOfSeq
<1> HIDE DEF l
<1>6. f # NULL
  BY <1>2, <1>4, LastHiddenIs
<1>7. PICK k \in 1 .. n : /\ f = l[k] /\ ~view_is_visible(s, l[k])
                          /\ \A j \in k + 1 .. n : view_is_visible(s, l[j])
  BY <1>2, <1>6, LastHiddenIs
<1>8. /\ DeskInv(r) /\ r = ShowInTile(s, FocusedTile(s), f) /\ Frame(s, r) /\ r.focus = f
      /\ r.tileView = [s.tileView EXCEPT ![FocusedTile(s)] = f]
      /\ f \in ToSet(l)
  <2> HIDE DEF f
  <2> QED
    BY <1>6, CycleFocuses DEF Next1, f, l
<1> HIDE DEF r, f
<1>9. /\ r.list = [s.list EXCEPT ![w] = RotateTo(@, f)] /\ CurrWs(r) = w
      /\ \A x \in Managed :
           view_is_visible(r, x) <=> x = f \/ (view_is_visible(s, x) /\ x # s.focus)
  BY <1>8, ShownInFocused DEF l
<1>10. m = SubSeq(l, k + 1, n) \o SubSeq(l, 1, k)
  <2>1. m = RotateTo(l, f)
    BY <1>2, <1>9 DEF l
  <2>2. IndexIn(l, f) = k
    BY <1>2, <1>7, PlaceIs
  <2> QED
    BY <2>1, <2>2 DEF RotateTo
<1> HIDE DEF m, n
<1>11. /\ m \in Seq(Managed) /\ Distinct(m) /\ Len(m) = n
       /\ \A i \in 1 .. k : m[n - k + i] = l[i]
  BY <1>2, <1>7, <1>10, RotatedPlaces, RotatedAt DEF n
<1>12. s.focus # NULL => k # n
  BY <1>3, <1>7, FocusedPlace DEF Last, l, n
<1>13. ASSUME f # v
       PROVE  /\ v \in ToSet(m) /\ ~view_is_visible(r, v)
              /\ IndexIn(m, v) >= p
              /\ s.focus # NULL => IndexIn(m, v) >= p + 1
  <2>1. p \in 1 .. k
    <3>1. p # k /\ p \notin k + 1 .. n
      BY <1>4, <1>7, <1>13
    <3> QED
      BY <3>1, <1>3, <1>4, <1>7
  <2>2. n - k + p \in 1 .. n /\ m[n - k + p] = v
    BY <2>1, <1>3, <1>4, <1>7, <1>11
  <2>3. IndexIn(m, v) = n - k + p /\ v \in ToSet(m)
    BY <2>2, <1>11, PlaceIs
  <2>4. n - k >= 0 /\ (s.focus # NULL => n - k >= 1)
    BY <1>3, <1>7, <1>12
  <2>5. ~view_is_visible(r, v)
    BY <1>5, <1>9, <1>13
  <2> QED
    BY <2>1, <2>3, <2>4, <2>5, <1>3, <1>7
<1>14. /\ DeskInv(r) /\ CurrWs(r) = CurrWs(s) /\ Len(m) = Len(l) /\ r.focus # NULL
       /\ r.focus # v => /\ v \in ToSet(m) /\ ~view_is_visible(r, v)
                         /\ IndexIn(m, v) >= IndexIn(l, v)
                         /\ s.focus # NULL => IndexIn(m, v) >= IndexIn(l, v) + 1
  BY <1>5, <1>6, <1>8, <1>9, <1>11, <1>13 DEF n
<1> QED
  BY <1>14 DEF r, l, m

(* `prev` finds the view that `next` took from the focused tile, and       *)
(* rotates the list back.                                                  *)
LEMMA CycleBack ==
  ASSUME NEW s, DeskInv(s), s.focus # NULL
  PROVE  Prev1(Next1(s)).focus = s.focus /\ Prev1(Next1(s)).list = s.list
<1> DEFINE r == Next1(s)
           b == Prev1(r)
           w == CurrWs(s)
           l == s.list[w]
           m == r.list[w]
           n == Len(l)
           f == FirstHidden(s, Reverse(l))
           h == FirstHidden(r, m)
<1>1. Base(s, {}, {}) /\ Seated(s)
  BY DEF DeskInv
<1>2. /\ w \in Ws /\ s.list \in [Ws -> Seq(Managed)] /\ l \in Seq(Managed) /\ Distinct(l)
      /\ NULL \notin Managed
  BY <1>1, CurrentProperties, DesktopAssumption DEF Base, DeskType, InLists, Managed
<1>3. n \in Nat /\ n # 0 /\ DOMAIN l = 1 .. n /\ \A i \in 1 .. n : l[i] \in Managed
  BY <1>2, LenProperties, ElementOfSeq, FocusedPlace
<1>4. l[n] = s.focus /\ view_is_visible(s, s.focus) /\ s.focus \in Managed
  BY FocusedPlace DEF Last
<1> HIDE DEF l
<1>5. CASE f = NULL
  <2>1. r = s
    <3> HIDE DEF f
    <3> QED
      BY <1>5, CycleFocuses DEF Next1, f, l
  <2>2. \A i \in 1 .. n : view_is_visible(s, l[i])
    BY <1>2, <1>5, LastHiddenIs
  <2>3. FirstHidden(s, l) = NULL
    BY <2>2, <1>2, FirstHiddenIs
  <2>4. Prev1(s) = s
    BY <2>3, CycleFocuses DEF Prev1, l
  <2> QED
    BY <2>1, <2>4
<1>6. CASE f # NULL
  <2>1. PICK k \in 1 .. n : /\ f = l[k] /\ ~view_is_visible(s, l[k])
                            /\ \A j \in k + 1 .. n : view_is_visible(s, l[j])
    BY <1>2, <1>6, LastHiddenIs
  <2>2. /\ DeskInv(r) /\ r = ShowInTile(s, FocusedTile(s), f) /\ Frame(s, r) /\ r.focus = f
        /\ r.tileView = [s.tileView EXCEPT ![FocusedTile(s)] = f]
        /\ f \in ToSet(l)
    <3> HIDE DEF f
    <3> QED
      BY <1>6, CycleFocuses DEF Next1, f, l
  <2> HIDE DEF r, f
  <2>3. /\ r.list = [s.list EXCEPT ![w] = RotateTo(@, f)] /\ CurrWs(r) = w
        /\ \A x \in Managed :
             view_is_visible(r, x) <=> x = f \/ (view_is_visible(s, x) /\ x # s.focus)
    BY <2>2, ShownInFocused DEF l
  <2>4. m = RotateTo(l, f) /\ r.list \in [Ws -> Seq(Managed)]
    BY <2>2, <2>3, <1>2 DEF l, DeskInv, Base, DeskType
  <2>5. k \in 1 .. n - 1 /\ n - k \in 1 .. n
    <3>1. k # n
      BY <2>1, <1>4
    <3> HIDE DEF n
    <3> QED
      BY <3>1, <1>3
  <2> HIDE DEF m
  <2>6. /\ m \in Seq(Managed) /\ Distinct(m) /\ Len(m) = n
        /\ \A i \in k + 1 .. n : m[i - k] = l[i]
    <3>1. IndexIn(l, f) = k
      BY <1>2, <2>1, PlaceIs
    <3>2. m = SubSeq(l, k + 1, n) \o SubSeq(l, 1, k)
      BY <3>1, <2>4 DEF RotateTo
    <3> QED
      BY <3>2, <1>2, <2>1, RotatedPlaces, RotatedAt
  <2> HIDE DEF n
  <2>7. m[n - k] = s.focus /\ ~view_is_visible(r, s.focus)
    <3>1. n \in k + 1 .. n
      BY <2>5, <1>3
    <3>2. m[n - k] = l[n]
      BY <3>1, <2>6
    <3>3. f # s.focus
      BY <2>1, <1>4
    <3> QED
      BY <3>2, <3>3, <2>3, <1>4
  <2>8. ASSUME NEW j \in 1 .. n - k - 1 PROVE view_is_visible(r, m[j])
    <3>1. /\ j + k \in k + 1 .. n /\ (j + k) - k = j /\ j + k \in 1 .. n
          /\ j + k # n
      BY <1>3, <2>1, <2>5
    <3>2. m[j] = l[j + k] /\ view_is_visible(s, l[j + k]) /\ l[j + k] \in Managed
      BY <3>1, <1>3, <2>1, <2>6
    <3>3. l[j + k] # s.focus
      <4>1. n \in DOMAIN l /\ j + k \in DOMAIN l
        BY <3>1, <1>3
      <4> QED
        BY <4>1, <3>1, <1>2, <1>4 DEF Distinct
    <3> QED
      BY <3>2, <3>3, <2>3
  <2>9. h = s.focus
    BY <2>5, <2>6, <2>7, <2>8, <1>2, FirstHiddenIs
  <2> HIDE DEF h
  <2>10. /\ b = ShowInTile(r, FocusedTile(r), h) /\ Frame(r, b) /\ b.focus = h
         /\ b.tileView = [r.tileView EXCEPT ![FocusedTile(r)] = h]
         /\ DeskInv(b) /\ h \in ToSet(m)
    <3>1. h # NULL /\ m = r.list[CurrWs(r)]
      BY <2>3, <2>9 DEF m
    <3> QED
      BY <3>1, <2>2, CycleFocuses DEF Prev1, h
  <2> HIDE DEF b
  <2>11. b.list = [r.list EXCEPT ![w] = RotateTo(@, h)]
    <3>1. h \in ToSet(r.list[CurrWs(r)])
      BY <2>3, <2>10 DEF m
    <3>2. DeskInv(r) /\ CurrWs(r) = w
      BY <2>2, <2>3
    <3>3. b.list = [r.list EXCEPT ![CurrWs(r)] = RotateTo(@, h)]
      BY <3>1, <3>2, <2>10, ShownInFocused
    <3> QED
      BY <3>2, <3>3
  <2>12. RotateTo(m, h) = l
    <3>1. Last(l) = s.focus
      BY <1>4 DEF Last, n
    <3> QED
      BY <3>1, <2>1, <2>4, <2>5, <2>9, <1>2, RotatedBack DEF n
  <2>13. b.list = [r.list EXCEPT ![w] = l]
    BY <2>11, <2>12 DEF m
  <2>14. b.list = s.list
    BY <2>3, <2>13, <1>2 DEF l
  <2> QED
    BY <2>9, <2>10, <2>14 DEF b, r
<1> QED
  BY <1>5, <1>6

(* The function by which CyclingReachesAll repeats `next`, on its first n  *)
(* arguments.                                                              *)
Nexts(s, g, n) ==
  g = [k \in 0 .. n |-> IF k = 0 THEN s ELSE Next1(g[k - 1])]

(* It exists, for every number of repetitions.                             *)
LEMMA NextsExists ==
  ASSUME NEW s, NEW n \in Nat
  PROVE  \E g : Nexts(s, g, n)
<1> DEFINE T == {k \in Nat : ~ \E g : Nexts(s, g, k)}
<1>1. CASE T = {}
  BY <1>1
<1>2. CASE T # {}
  <2>1. PICK m \in T : \A k \in T : m <= k
    BY <1>2, LeastNat
  <2>2. CASE m = 0
    <3> DEFINE h == [k \in 0 .. 0 |-> s]
    <3>1. h = [k \in 0 .. 0 |-> IF k = 0 THEN s ELSE Next1(h[k - 1])]
      OBVIOUS
    <3> QED
      BY <2>1, <2>2, <3>1 DEF Nexts
  <2>3. CASE m # 0
    <3>1. m \in Nat /\ m - 1 \in Nat /\ ~(m <= m - 1)
      BY <2>1, <2>3
    <3>2. PICK g : Nexts(s, g, m - 1)
      BY <2>1, <3>1
    <3> DEFINE e == Next1(g[m - 1])
               h == [k \in 0 .. m |-> IF k = m THEN e ELSE g[k]]
    <3>3. g = [k \in 0 .. m - 1 |-> IF k = 0 THEN s ELSE Next1(g[k - 1])]
      BY <3>2 DEF Nexts
    <3>4. \A k \in 0 .. m : h[k] = IF k = 0 THEN s ELSE Next1(h[k - 1])
      <4> TAKE k \in 0 .. m
      <4>1. k # 0 => k - 1 \in 0 .. m /\ k - 1 # m
        BY <3>1
      <4>2. CASE k = m
        BY <4>1, <4>2, <2>3
      <4>3. CASE k # m
        <5>1. k \in 0 .. m - 1
          BY <4>3, <3>1
        <5>2. g[k] = IF k = 0 THEN s ELSE Next1(g[k - 1])
          BY <5>1, <3>3
        <5> QED
          BY <4>1, <4>3, <5>2
      <4> QED
        BY <4>2, <4>3
    <3>5. h = [k \in 0 .. m |-> h[k]]
      OBVIOUS
    <3> HIDE DEF h
    <3>6. Nexts(s, h, m)
      BY <3>4, <3>5 DEF Nexts
    <3> QED
      BY <2>1, <3>6
  <2> QED
    BY <2>2, <2>3
<1> QED
  BY <1>1, <1>2

(* A hidden view is focused after at most as many repetitions as its       *)
(* workspace has views: each moves it one place closer to the end.         *)
LEMMA NextsReach ==
  ASSUME NEW s, DeskInv(s), NEW v \in ToSet(s.list[CurrWs(s)]), ~view_is_visible(s, v),
         NEW g, g[0] = s,
         \A k \in 1 .. Len(s.list[CurrWs(s)]) : g[k] = Next1(g[k - 1])
  PROVE  \E k \in 0 .. Len(s.list[CurrWs(s)]) : g[k].focus = v
<1> DEFINE w == CurrWs(s)
           n == Len(s.list[w])
           at(k) == IndexIn(g[k].list[w], v)
           Waits(k) == /\ DeskInv(g[k]) /\ CurrWs(g[k]) = w /\ Len(g[k].list[w]) = n
                       /\ v \in ToSet(g[k].list[w]) /\ ~view_is_visible(g[k], v)
                       /\ k # 0 => g[k].focus # NULL /\ at(k) >= k
           T == {k \in 0 .. n : ~Waits(k)}
<1>1. ASSUME NEW x, DeskInv(x), CurrWs(x) = w
      PROVE  x.list[w] \in Seq(Managed) /\ Distinct(x.list[w]) /\ w \in Ws
  <2>1. Base(x, {}, {})
    BY <1>1 DEF DeskInv
  <2>2. w \in Ws
    BY <2>1, <1>1, CurrentProperties
  <2> QED
    BY <2>1, <2>2 DEF Base, DeskType, InLists
<1>2. n \in Nat
  BY <1>1, LenProperties
<1>3. SUFFICES ASSUME \A k \in 0 .. n : g[k].focus # v
               PROVE  FALSE
  OBVIOUS
<1>4. Waits(0)
  OBVIOUS
<1> HIDE DEF n
<1>5. ASSUME NEW k \in 1 .. n, Waits(k - 1) PROVE Waits(k)
  <2> DEFINE y == g[k - 1]
  <2>1. k \in 0 .. n /\ k - 1 \in 0 .. n /\ g[k] = Next1(y) /\ g[k].focus # v
    BY <1>2, <1>3 DEF n
  <2>2. /\ DeskInv(y) /\ CurrWs(y) = w /\ Len(y.list[w]) = n
        /\ v \in ToSet(y.list[w]) /\ ~view_is_visible(y, v)
        /\ k - 1 # 0 => y.focus # NULL /\ at(k - 1) >= k - 1
    BY <1>5
  <2>3. y.list[w] \in Seq(Managed)
    BY <2>2, <1>1
  <2>4. at(k - 1) \in 1 .. n
    BY <2>2, <2>3, IndexInProperties
  <2> HIDE DEF w, y, at
  <2>5. /\ DeskInv(g[k]) /\ CurrWs(g[k]) = w /\ Len(g[k].list[w]) = n
        /\ g[k].focus # NULL
        /\ v \in ToSet(g[k].list[w]) /\ ~view_is_visible(g[k], v)
        /\ at(k) >= at(k - 1)
        /\ y.focus # NULL => at(k) >= at(k - 1) + 1
    BY <2>1, <2>2, CycleStep DEF at, y
  <2>6. at(k) \in 1 .. n
    <3>1. g[k].list[w] \in Seq(Managed)
      BY <2>5, <1>1
    <3> QED
      BY <3>1, <2>5, IndexInProperties DEF at
  <2>7. at(k) >= k
    BY <2>2, <2>4, <2>5, <2>6, <1>2
  <2> QED
    BY <2>5, <2>7
<1> HIDE DEF Waits, at
<1>6. Waits(n)
  <2>1. CASE T = {}
    BY <2>1, <1>2
  <2>2. CASE T # {}
    <3>1. T \in SUBSET Nat
      BY <1>2
    <3>2. PICK m \in T : \A k \in T : m <= k
      <4> HIDE DEF T
      <4> QED
        BY <3>1, <2>2, LeastNat
    <3>3. m \in 1 .. n /\ m - 1 \in 0 .. n /\ ~(m <= m - 1)
      BY <3>2, <1>2, <1>4
    <3>4. Waits(m - 1)
      BY <3>2, <3>3
    <3> QED
      BY <3>2, <3>3, <3>4, <1>5
  <2> QED
    BY <2>1, <2>2
<1>7. n # 0
  BY <1>1, EmptyList DEF n
<1>8. /\ DeskInv(g[n]) /\ CurrWs(g[n]) = w /\ Len(g[n].list[w]) = n
      /\ v \in ToSet(g[n].list[w]) /\ ~view_is_visible(g[n], v)
      /\ g[n].focus # NULL /\ at(n) >= n
  BY <1>6, <1>7 DEF Waits
<1>9. at(n) \in 1 .. n /\ g[n].list[w][at(n)] = v
  <2>1. g[n].list[w] \in Seq(Managed)
    BY <1>1, <1>8
  <2> QED
    BY <2>1, <1>8, IndexInProperties DEF at
<1>10. at(n) = n
  BY <1>2, <1>8, <1>9
<1>11. Last(g[n].list[w]) = v
  BY <1>8, <1>9, <1>10 DEF Last
<1>12. view_is_visible(g[n], v)
  BY <1>8, <1>11, FocusedPlace
<1> QED
  BY <1>8, <1>12

(* A workspace has no more views than there are.                           *)
LEMMA ListFits ==
  ASSUME IsFiniteSet(Views), NEW seq \in Seq(Managed), Distinct(seq)
  PROVE  Cardinality(Views) \in Nat /\ Len(seq) <= Cardinality(Views)
<1>1. Len(seq) \in Nat /\ DOMAIN seq = 1 .. Len(seq) /\ seq \in [1 .. Len(seq) -> Managed]
  BY LenProperties
<1>2. seq \in Injection(1 .. Len(seq), Views)
  BY <1>1 DEF Distinct, Injection, IsInjective, Managed
<1>3. Cardinality(1 .. Len(seq)) <= Cardinality(Views)
  BY <1>2, FS_Injection
<1>4. Cardinality(1 .. Len(seq)) = IF 1 > Len(seq) THEN 0 ELSE Len(seq) - 1 + 1
  BY <1>1, FS_Interval
<1>5. Cardinality(Views) \in Nat
  BY FS_CardinalityType
<1> QED
  BY <1>1, <1>3, <1>4, <1>5

-----------------------------------------------------------------------------
(* The theorems: what the runs check on a small instance, for any numbers  *)
(* of views, tiles, outputs and workspaces.                                *)

(* The state record keeps its type; no unmanaged view gets into a list of  *)
(* views (view_map, keybinding_move_view_to_tile, output_clear).           *)
THEOREM TypeCorrect ==
  ASSUME ByPlace
  PROVE  Spec => []TypeOK
<1>1. DeskInv(desk) => TypeOK
  BY DEF DeskInv, Base, TypeOK
<1> QED
  BY <1>1, DeskAlways, PTL

(* tile->view and view->tile stay two ends of one link through merge_tile, *)
(* swap_tiles, view_unmap, `only`, the moves and output_clear, and a tile  *)
(* that was freed shows nothing.                                           *)
THEOREM TilesAndViewsAgree ==
  ASSUME ByPlace
  PROVE  Spec => []TileViewLinked
<1>1. DeskInv(desk) => TileViewLinked
  BY DEF DeskInv, Base, Linked, TileViewLinked
<1> QED
  BY <1>1, DeskAlways, PTL

(* After every handler the seat focuses what the focused tile of the       *)
(* current workspace shows: seat_set_focus is called wherever that changed.*)
THEOREM FocusFollowsTile ==
  ASSUME ByPlace
  PROVE  Spec => []FocusIsShown
<1>1. DeskInv(desk) => FocusIsShown
  BY DEF DeskInv, Seated, FocusIsShown
<1> QED
  BY <1>1, DeskAlways, PTL

(* A tile only ever shows a view of its own workspace, the one whose list  *)
(* view_unmap searches for the view to show next.                          *)
THEOREM ShownInOwnWorkspace ==
  ASSUME ByPlace
  PROVE  Spec => []ShownAtHome
<1>1. DeskInv(desk) => ShownAtHome
  BY DEF DeskInv, Base, Linked, ShownAtHome
<1> QED
  BY <1>1, DeskAlways, PTL

(* The workspaces' lists partition the mapped managed views: no command,   *)
(* surface event or hot-plug event loses a view or lists it twice.         *)
THEOREM NoViewIsLost ==
  ASSUME ByPlace
  PROVE  Spec => []Listed
<1>1. DeskInv(desk) => Listed
  BY DEF DeskInv, Base, InLists, Listed
<1> QED
  BY <1>1, DeskAlways, PTL

(* The scene node of a mapped view hangs under the tree of its workspace,  *)
(* also after its output was unplugged (wlr_scene_node_reparent).          *)
THEOREM NodesFollowViews ==
  ASSUME ByPlace
  PROVE  Spec => []TreeFollows
<1>1. DeskInv(desk) => TreeFollows
  BY DEF DeskInv, Base, InLists, TreeFollows
<1> QED
  BY <1>1, DeskAlways, PTL

(* The focused view is the last of the current workspace's list, where     *)
(* `next`, `prev` and view_unmap start (seat_set_focus rotates the list).  *)
THEOREM FocusedViewIsLast ==
  ASSUME ByPlace
  PROVE  Spec => []FocusLast
<1>1. DeskInv(desk) => FocusLast
  BY DEF DeskInv, Seated, FocusLast
<1> QED
  BY <1>1, DeskAlways, PTL

(* The keyboard is on no managed view but the one the seat focuses,        *)
(* whatever unmanaged views and layer surfaces took and gave back.         *)
THEOREM KeyboardOnFocusedView ==
  ASSUME ByPlace
  PROVE  Spec => []KeyboardFollows
<1>1. DeskInv(desk) => KeyboardFollows
  BY DEF DeskInv, Seated, KeyboardFollows
<1> QED
  BY <1>1, DeskAlways, PTL

(* Freed memory is only ever used for the scene node of a view that exists *)
(* and is not mapped, with any number of outputs that come and go while    *)
(* one stays: output_clear moves the mapped views before workspace_free    *)
(* takes the scene tree of a workspace down, and no handler leaves a seat, *)
(* a tile or a list of views pointing at what it frees.                    *)
THEOREM FreedMemoryIsDeadNode ==
  ASSUME ByPlace, "unplug_last" \notin Inputs
  PROVE  Spec => []UbNeedsDeadNode
<1>1. Init => UbNeedsDeadNode
  BY DEF Init, UbNeedsDeadNode
<1>2. DeskInv(desk) /\ UbNeedsDeadNode /\ [Next]_desk => UbNeedsDeadNode'
  BY NextNeedsDeadNode
<1> QED
  BY <1>1, <1>2, DeskAlways, PTL DEF Spec

(* With one output no handler uses freed memory: view_init puts the scene  *)
(* node under a workspace that nothing takes down before view_destroy.     *)
THEOREM NoFreedMemoryIsUsed ==
  ASSUME ByPlace, "unplug_last" \notin Inputs, Outputs = {FirstOutput}
  PROVE  Spec => []NoUb
<1>1. Init => Sound(desk)
  BY DEF Init, Sound
<1>2. DeskInv(desk) /\ Sound(desk) /\ [Next]_desk => Sound(desk)'
  BY NextKeepsSound
<1>3. Sound(desk) => NoUb
  BY DEF Sound, NoUb
<1> QED
  BY <1>1, <1>2, <1>3, DeskAlways, PTL DEF Spec

(* view_unmap of the focused view and `next` walk the list of the current  *)
(* workspace from the same place, its end, and show the same view.         *)
THEOREM ClosingAgreesWithNext ==
  ASSUME ByPlace
  PROVE  Spec => []ClosingShowsNext
<1>1. DeskInv(desk) => ClosingShowsNext
  <2> SUFFICES ASSUME DeskInv(desk), desk.focus # NULL
               PROVE  LET next == Next1(desk).focus
                      IN  view_unmap(desk, desk.focus).focus =
                            IF next = desk.focus THEN NULL ELSE next
    BY DEF ClosingShowsNext
  <2> DEFINE l == desk.list[CurrWs(desk)]
             v == FirstHidden(desk, Reverse(l))
  <2>1. /\ l \in Seq(Managed) /\ Distinct(l) /\ Len(l) # 0
        /\ Last(l) = desk.focus /\ desk.viewWs[desk.focus] = CurrWs(desk)
        /\ view_is_visible(desk, desk.focus)
    BY FocusedPlace
  <2>2. view_unmap(desk, desk.focus).focus = v
    BY <2>1, SameWalk, UnmapFocuses
  <2>3. /\ v = NULL => Next1(desk) = desk
        /\ v # NULL => Next1(desk).focus = v /\ ~view_is_visible(desk, v)
    BY CycleFocuses DEF Next1
  <2> HIDE DEF v
  <2> QED
    BY <2>1, <2>2, <2>3
<1> QED
  BY <1>1, DeskAlways, PTL

(* Repeating `next` shows every hidden view of the workspace in the        *)
(* focused tile, and `prev` takes one `next` back, the order of the views  *)
(* included (keybinding_cycle_views and the rotation of seat_set_focus).   *)
(* IsFiniteSet(Views): the number of repetitions is bounded by the number  *)
(* of views, which memory bounds.                                          *)
THEOREM CyclingShowsEveryView ==
  ASSUME ByPlace, IsFiniteSet(Views)
  PROVE  Spec => []CyclingReachesAll
<1>1. DeskInv(desk) => CyclingReachesAll
  <2> SUFFICES ASSUME DeskInv(desk)
               PROVE  CyclingReachesAll
    OBVIOUS
  <2> DEFINE N == Cardinality(Views)
             g == CHOOSE h : Nexts(desk, h, N)
             l == desk.list[CurrWs(desk)]
  <2>1. l \in Seq(Managed) /\ Distinct(l)
    <3>1. Base(desk, {}, {})
      BY DEF DeskInv
    <3>2. CurrWs(desk) \in Ws
      BY <3>1, CurrentProperties
    <3> QED
      BY <3>1, <3>2 DEF Base, DeskType, InLists
  <2>2. N \in Nat /\ Len(l) \in Nat /\ Len(l) <= N
    BY <2>1, ListFits, LenProperties
  <2>3. Nexts(desk, g, N)
    BY <2>2, NextsExists
  <2>4. CyclingReachesAll =
          (desk.running /\ ~desk.ub =>
             /\ desk.focus # NULL => /\ Prev1(Next1(desk)).focus = desk.focus
                                     /\ Prev1(Next1(desk)).list = desk.list
             /\ \A v \in ToSet(l) :
                  view_is_visible(desk, v) \/ \E k \in DOMAIN g : g[k].focus = v)
    BY DEF CyclingReachesAll, Nexts
  <2> HIDE DEF N, g, l
  <2>5. DOMAIN g = 0 .. N /\ \A k \in 0 .. N : g[k] = IF k = 0 THEN desk ELSE Next1(g[k - 1])
    BY <2>3 DEF Nexts
  <2>6. ASSUME NEW v \in ToSet(l), ~view_is_visible(desk, v)
        PROVE  \E k \in DOMAIN g : g[k].focus = v
    <3>1. g[0] = desk /\ \A k \in 1 .. Len(l) : g[k] = Next1(g[k - 1])
      BY <2>2, <2>5
    <3>2. PICK k \in 0 .. Len(l) : g[k].focus = v
      BY <3>1, <2>6, NextsReach DEF l
    <3>3. k \in 0 .. N
      BY <3>2, <2>2
    <3> QED
      BY <3>2, <3>3, <2>5
  <2>7. desk.focus # NULL => /\ Prev1(Next1(desk)).focus = desk.focus
                             /\ Prev1(Next1(desk)).list = desk.list
    BY CycleBack
  <2> QED
    BY <2>4, <2>6, <2>7
<1> QED
  BY <1>1, DeskAlways, PTL
=============================================================================
