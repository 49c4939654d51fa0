--------------------------- MODULE OutputsProofs ---------------------------
(***************************************************************************)
(* Proofs about Outputs for any number of outputs, monitors, views and     *)
(* priorities: the list of outputs stays in order of priority, and what    *)
(* refers to an output refers to one in use.  The two rest on different    *)
(* invariants: the first (SortInv) survives a mode that is refused on the  *)
(* only output, the second (Held) does not.  On both of them, and on       *)
(* priorities that agree with the configuration (Ranked), rests that a     *)
(* permanent output keeps its place while its monitor is away; on both,    *)
(* and on what a struct in use owns (Intact), that memory is only misused  *)
(* around disabled outputs.                                                *)
(***************************************************************************)
EXTENDS Outputs, ListProofs

-----------------------------------------------------------------------------
(* Lists of outputs.                                                       *)

(* In order of priority, but for the place of o.                           *)
InOrderBut(seq, prio, o) ==
  \A i, j \in DOMAIN seq :
    i < j /\ seq[i] # o /\ seq[j] # o => prio[seq[i]] >= prio[seq[j]]

InOrder(seq, prio) ==
  \A i, j \in DOMAIN seq : i < j => prio[seq[i]] >= prio[seq[j]]

(* Taking an output from a list.                                           *)
LEMMA RemovedInOrder ==
  ASSUME NEW seq \in Seq(Structs), NEW o, NEW prio \in [Structs -> Int],
         Distinct(seq), InOrderBut(seq, prio, o)
  PROVE  InOrder(wl_list_remove(seq, o), prio)
<1> DEFINE r == wl_list_remove(seq, o)
<1>1. /\ ToSet(r) = ToSet(seq) \ {o}
      /\ \A i, j \in DOMAIN r : i < j =>
           \E k, l \in DOMAIN seq : k < l /\ seq[k] = r[i] /\ seq[l] = r[j]
  BY Removed
<1>2. \A i \in DOMAIN r : r[i] # o
  BY <1>1 DEF ToSet
<1> HIDE DEF r
<1>3. InOrder(r, prio)
  BY <1>1, <1>2 DEF InOrder, InOrderBut
<1> QED
  BY <1>3 DEF r

(* The place output_insert looks for: before the first lower priority.     *)
IsPlaceIn(seq, prio, o, i) ==
  /\ i \in 1 .. Len(seq) + 1
  /\ \A j \in 1 .. i - 1 : prio[seq[j]] >= prio[o]
  /\ i <= Len(seq) => prio[seq[i]] < prio[o]

LEMMA PlaceExists ==
  ASSUME NEW seq \in Seq(Structs), NEW prio \in [Structs -> Int], NEW o \in Structs
  PROVE  \E i \in 1 .. Len(seq) + 1 : IsPlaceIn(seq, prio, o, i)
<1> DEFINE lower == {i \in 1 .. Len(seq) : prio[seq[i]] < prio[o]}
<1>1. Len(seq) \in Nat /\ \A i \in 1 .. Len(seq) : prio[seq[i]] \in Int
  <2>1. Len(seq) \in Nat /\ \A i \in 1 .. Len(seq) : seq[i] \in Structs
    BY LenProperties, ElementOfSeq
  <2> QED
    BY <2>1
<1>2. CASE lower = {}
  <2>1. \A i \in 1 .. Len(seq) : prio[seq[i]] >= prio[o] /\ prio[o] \in Int
    BY <1>1, <1>2
  <2>2. Len(seq) + 1 \in 1 .. Len(seq) + 1 /\ (Len(seq) + 1) - 1 = Len(seq)
        /\ ~(Len(seq) + 1 <= Len(seq))
    BY <1>1
  <2>3. IsPlaceIn(seq, prio, o, Len(seq) + 1)
    BY <2>1, <2>2 DEF IsPlaceIn
  <2> QED
    BY <2>2, <2>3
<1>3. CASE lower # {}
  <2>1. lower \in SUBSET Nat
    OBVIOUS
  <2> HIDE DEF lower
  <2>2. PICK m \in lower : \A k \in lower : m <= k
    BY <1>3, <2>1, LeastNat
  <2>3. m \in 1 .. Len(seq) /\ prio[seq[m]] < prio[o]
    BY <2>2 DEF lower
  <2>4. \A j \in 1 .. m - 1 : j \in 1 .. Len(seq) /\ ~(m <= j)
    BY <1>1, <2>3
  <2>5. \A j \in 1 .. m - 1 : ~(prio[seq[j]] < prio[o])
    BY <2>2, <2>4 DEF lower
  <2>6. IsPlaceIn(seq, prio, o, m) /\ m \in 1 .. Len(seq) + 1
    BY <1>1, <2>3, <2>4, <2>5 DEF IsPlaceIn
  <2> QED
    BY <2>6
<1> QED
  BY <1>2, <1>3

(* Putting an output there.                                                *)
LEMMA Inserted ==
  ASSUME NEW seq \in Seq(Structs), NEW prio \in [Structs -> Int], NEW o \in Structs,
         Distinct(seq), InOrder(seq, prio), ~Listed(seq, o),
         NEW i \in 1 .. Len(seq) + 1, IsPlaceIn(seq, prio, o, i)
  PROVE  LET r == InsertAt(seq, i, o)
         IN  /\ r \in Seq(Structs) /\ Distinct(r) /\ InOrder(r, prio)
             /\ \A p : Listed(r, p) => p = o \/ Listed(seq, p)
<1> DEFINE r == InsertAt(seq, i, o)
<1>1. /\ Len(seq) \in Nat /\ DOMAIN seq = 1 .. Len(seq) /\ i \in 1 .. Len(seq) + 1
      /\ \A j \in DOMAIN seq : prio[seq[j]] \in Int /\ seq[j] # o
      /\ prio[o] \in Int
  BY LenProperties, ElementOfSeq DEF IsPlaceIn, Listed, ToSet
<1>0. r = InsertAt(seq, i, o)
  OBVIOUS
<1> HIDE DEF r
<1>2. /\ r \in Seq(Structs) /\ Len(r) = Len(seq) + 1
      /\ \A j \in 1 .. i - 1 : r[j] = seq[j]
      /\ r[i] = o
      /\ \A j \in i + 1 .. Len(seq) + 1 : r[j] = seq[j - 1]
  <2>1. InsertAt(seq, i, o) \in Seq(Structs) /\ Len(InsertAt(seq, i, o)) = Len(seq) + 1
    BY InsertAtProperties
  <2>2. \A j \in 1 .. i - 1 : InsertAt(seq, i, o)[j] = seq[j]
    BY InsertAtProperties
  <2>3. InsertAt(seq, i, o)[i] = o
    BY InsertAtProperties
  <2>4. \A j \in i + 1 .. Len(seq) + 1 : InsertAt(seq, i, o)[j] = seq[j - 1]
    BY InsertAtProperties
  <2> QED
    BY <1>0, <2>1, <2>2, <2>3, <2>4, Zenon
<1>3. DOMAIN r = 1 .. Len(seq) + 1
  BY <1>2, LenProperties
<1> DEFINE at(j) == IF j < i THEN j ELSE j - 1
<1>4. ASSUME NEW j \in DOMAIN r, j # i
      PROVE  at(j) \in DOMAIN seq /\ r[j] = seq[at(j)]
  <2>1. CASE j < i
    BY <2>1, <1>1, <1>2, <1>3
  <2>2. CASE j > i
    <3>1. j \in i + 1 .. Len(seq) + 1 /\ at(j) = j - 1
      BY <2>2, <1>1, <1>3
    <3> QED
      BY <2>2, <3>1, <1>1, <1>2
  <2> QED
    BY <2>1, <2>2, <1>1, <1>3, <1>4
<1>5. \A j, k \in DOMAIN r :
        j # i /\ k # i => (at(j) = at(k) => j = k) /\ (j < k => at(j) < at(k))
  BY <1>1, <1>3
<1>6. r[i] = o /\ i \in DOMAIN r
  BY <1>1, <1>2, <1>3
<1>7. \A j \in DOMAIN r : j < i => prio[r[j]] >= prio[o]
  BY <1>1, <1>2, <1>3 DEF IsPlaceIn
<1>8. ASSUME NEW j \in DOMAIN r, j > i PROVE prio[o] >= prio[r[j]]
  <2>1. /\ i \in DOMAIN seq /\ j - 1 \in DOMAIN seq /\ r[j] = seq[j - 1]
        /\ prio[seq[i]] < prio[o]
    BY <1>1, <1>2, <1>3, <1>8 DEF IsPlaceIn
  <2>2. prio[seq[i]] >= prio[seq[j - 1]]
    <3>1. CASE i = j - 1
      BY <3>1, <1>1, <2>1
    <3>2. CASE i < j - 1
      BY <3>2, <2>1 DEF InOrder
    <3> QED
      BY <3>1, <3>2, <1>1, <1>3, <1>8
  <2> QED
    BY <2>1, <2>2, <1>1
<1> HIDE DEF at
<1>9. Distinct(r)
  BY <1>1, <1>4, <1>5, <1>6 DEF Distinct
<1>10. ASSUME NEW j \in DOMAIN r, NEW k \in DOMAIN r, j < k
       PROVE  prio[r[j]] >= prio[r[k]]
  <2>1. CASE k = i
    BY <2>1, <1>6, <1>7, <1>10
  <2>2. CASE j = i
    BY <2>2, <1>6, <1>8, <1>10
  <2>3. CASE j # i /\ k # i
    BY <2>3, <1>4, <1>5, <1>10 DEF InOrder
  <2> QED
    BY <2>1, <2>2, <2>3
<1>11. \A p : Listed(r, p) => p = o \/ Listed(seq, p)
  BY <1>4, <1>6 DEF Listed, ToSet
<1> QED
  BY <1>2, <1>9, <1>10, <1>11 DEF r, InOrder

-----------------------------------------------------------------------------
(* Operators that leave the list, the names and the priorities alone.      *)

Fields ==
  {"outs", "disabled", "todo", "name", "prio", "role", "destroyed", "scene", "on",
   "bg", "ws", "msgs", "curr", "home", "config", "plugged", "alarm", "timed",
   "messages", "phase", "ub"}

IsServer(s) == DOMAIN s = Fields

Quiet(s, t) ==
  /\ IsServer(t)
  /\ t.outs = s.outs /\ t.disabled = s.disabled
  /\ t.prio = s.prio /\ t.name = s.name
  /\ t.todo = s.todo /\ t.config = s.config /\ t.phase = s.phase
  /\ t.plugged = s.plugged

LEMMA QuietUb ==
  ASSUME NEW s, IsServer(s), NEW broken PROVE Quiet(s, Ub(s, broken))
BY DEF IsServer, Quiet, Ub, Fields

LEMMA QuietMessages ==
  ASSUME NEW s, IsServer(s), NEW o
  PROVE  Quiet(s, message_clear(s, o)) /\ Quiet(s, message_printf(s, o))
<1>1. Quiet(s, message_clear(s, o))
  BY DEF IsServer, Quiet, message_clear, Fields
<1>2. Quiet(s, message_set_output(s, o))
  BY DEF IsServer, Quiet, message_set_output, Fields
<1>3. Quiet(s, message_printf(s, o))
  BY <1>2 DEF IsServer, Quiet, message_printf, Fields
<1> QED
  BY <1>1, <1>3

LEMMA QuietCycle ==
  ASSUME NEW s, IsServer(s), NEW o, NEW reverse
  PROVE  Quiet(s, set_output(s, o)) /\ Quiet(s, keybinding_cycle_outputs(s, reverse))
<1>1. ASSUME NEW p PROVE Quiet(s, set_output(s, p))
  <2> DEFINE t == [s EXCEPT !.curr = p]
  <2>1. IsServer(t) /\ Quiet(s, t)
    BY DEF IsServer, Quiet, Fields
  <2> HIDE DEF t
  <2>2. IsServer(Ub(t, ~s.ws[p])) /\ Quiet(s, Ub(t, ~s.ws[p]))
    BY <2>1, QuietUb DEF Quiet
  <2>3. Quiet(s, message_printf(Ub(t, ~s.ws[p]), p))
    BY <2>2, QuietMessages DEF Quiet
  <2> QED
    BY <2>3 DEF set_output, t
<1> QED
  BY <1>1, QuietUb DEF keybinding_cycle_outputs

LEMMA QuietScene ==
  ASSUME NEW s, IsServer(s), NEW o
  PROVE  /\ Quiet(s, DestroyScene(s, o)) /\ Quiet(s, LoseMonitor(s, o))
         /\ Quiet(s, LeaveCurrent(s, o)) /\ Quiet(s, Evacuate(s, o))
         /\ Quiet(s, Background(s, o))
<1>1. Quiet(s, DestroyScene(s, o)) /\ Quiet(s, Evacuate(s, o)) /\ Quiet(s, Background(s, o))
  BY DEF IsServer, Quiet, DestroyScene, Evacuate, Background, Fields
<1>2. Quiet(s, LoseMonitor(s, o))
  BY <1>1 DEF IsServer, Quiet, LoseMonitor, Fields
<1>3. Quiet(s, LeaveCurrent(s, o))
  BY QuietCycle DEF LeaveCurrent, Quiet, IsServer
<1> QED
  BY <1>1, <1>2, <1>3

LEMMA QuietRole ==
  ASSUME NEW s, IsServer(s), NEW o, NEW c
  PROVE  Quiet(s, SetRole(s, o, c))
BY DEF IsServer, Quiet, SetRole, Fields

-----------------------------------------------------------------------------
(* The inductive invariant, for any value of the server's state.           *)

(* The fields the order depends on, and that an output in use has a name.  *)
Shape(s) ==
  /\ IsServer(s)
  /\ s.outs \in Seq(Structs) /\ Distinct(s.outs)
  /\ s.disabled \in Seq(Structs)
  /\ s.prio \in [Structs -> Int]
  /\ s.name \in [Structs -> Monitors \cup {NULL}]
  /\ s.config \in [Monitors -> Config]
  /\ \A p : Listed(s.outs, p) => s.name[p] # NULL

SortedBut(s, o) == Shape(s) /\ InOrderBut(s.outs, s.prio, o)

AllSorted(s) == Shape(s) /\ InOrder(s.outs, s.prio)

(* From s to t only output o changed its place, its name or its priority.  *)
Keeps(s, t, o) ==
  /\ t.todo = s.todo /\ t.config = s.config /\ t.phase \in {s.phase, "stopped"}
  /\ t.plugged = s.plugged
  /\ \A p \in Structs \ {o} : t.name[p] = s.name[p] /\ t.prio[p] = s.prio[p]
  /\ \A p : Listed(t.outs, p) => p = o \/ Listed(s.outs, p)

(* From s to t output o left the list.                                     *)
Detached(s, t, o) ==
  /\ AllSorted(t) /\ ~Listed(t.outs, o)
  /\ t.name = s.name /\ t.prio = s.prio /\ t.phase = s.phase
  /\ Keeps(s, t, o)

LEMMA QuietKeeps ==
  ASSUME NEW s, NEW t, NEW o, Quiet(s, t)
  PROVE  /\ Shape(s) => Shape(t)
         /\ SortedBut(s, o) => SortedBut(t, o)
         /\ AllSorted(s) => AllSorted(t)
         /\ Keeps(s, t, o)
BY DEF Quiet, Shape, SortedBut, AllSorted, Keeps

LEMMA SortedIsSortedBut ==
  ASSUME NEW s, NEW o, AllSorted(s)
  PROVE  SortedBut(s, o)
BY DEF AllSorted, SortedBut, InOrder, InOrderBut

LEMMA UnlinkDetaches ==
  ASSUME NEW s, NEW o, SortedBut(s, o)
  PROVE  Detached(s, Unlink(s, o), o)
<1> DEFINE t == Unlink(s, o)
           r == wl_list_remove(s.outs, o)
<1>1. /\ IsServer(t) /\ t.outs = r /\ t.name = s.name /\ t.prio = s.prio
      /\ t.phase = s.phase /\ t.todo = s.todo /\ t.config = s.config
      /\ t.plugged = s.plugged /\ t.disabled = wl_list_remove(s.disabled, o)
  BY DEF Unlink, SortedBut, Shape, IsServer, Fields
<1>2. /\ r \in Seq(Structs) /\ Distinct(r) /\ ~Listed(r, o)
      /\ InOrder(r, s.prio)
      /\ \A p : Listed(r, p) => Listed(s.outs, p)
  <2>1. InOrder(r, s.prio)
    BY RemovedInOrder DEF SortedBut, Shape
  <2>2. r \in Seq(Structs) /\ Distinct(r) /\ ToSet(r) = ToSet(s.outs) \ {o}
    BY Removed DEF SortedBut, Shape
  <2> QED
    BY <2>1, <2>2 DEF Listed, ToSet
<1> HIDE DEF t, r
<1>3. t.disabled \in Seq(Structs)
  BY <1>1, RemovedKeepsType DEF SortedBut, Shape
<1>4. Shape(t)
  BY <1>1, <1>2, <1>3 DEF SortedBut, Shape
<1> QED
  BY <1>1, <1>2, <1>4 DEF Detached, AllSorted, Keeps, t

(* What comes quietly before or after leaves it at that.                   *)
LEMMA DetachedQuietly ==
  ASSUME NEW r, NEW s, NEW t, NEW u, NEW o,
         Quiet(r, s), Detached(s, t, o), Quiet(t, u)
  PROVE  Detached(r, u, o)
BY QuietKeeps DEF Detached, Quiet, Keeps

LEMMA ClearDetaches ==
  ASSUME NEW s, NEW o \in Structs, SortedBut(s, o)
  PROVE  Detached(s, output_clear(s, o), o) /\ Detached(s, Disable(s, o), o)
<1> DEFINE a == DestroyScene(s, o)
           b == LeaveCurrent(a, o)
           c == Unlink(b, o)
           d == message_clear(c, o)
           e == Evacuate(d, o)
           f == [e EXCEPT !.disabled = <<o>> \o @, !.on[o] = FALSE]
<1> HIDE DEF a, b, c, d, e, f
<1>1. IsServer(s)
  BY DEF SortedBut, Shape
<1>2. Quiet(s, a)
  BY <1>1, QuietScene DEF a
<1>3. Quiet(a, b)
  BY <1>2, QuietScene DEF b, Quiet
<1>4. Quiet(s, b) /\ SortedBut(b, o)
  BY <1>2, <1>3, QuietKeeps DEF Quiet
<1>5. Detached(b, c, o)
  BY <1>4, UnlinkDetaches DEF c
<1>6. Quiet(c, d)
  BY <1>5, QuietMessages DEF d, Detached, AllSorted, Shape
<1>7. Quiet(d, e)
  BY <1>6, QuietScene DEF e, Quiet
<1>8. Quiet(c, e)
  BY <1>6, <1>7 DEF Quiet
<1>9. Detached(s, e, o)
  BY <1>4, <1>5, <1>8, DetachedQuietly
<1>10. /\ IsServer(f) /\ f.disabled = <<o>> \o e.disabled
       /\ f.outs = e.outs /\ f.prio = e.prio /\ f.name = e.name
       /\ f.todo = e.todo /\ f.config = e.config /\ f.phase = e.phase
       /\ f.plugged = e.plugged
  BY <1>8 DEF f, Quiet, IsServer, Fields
<1>11. f.disabled \in Seq(Structs)
  <2>1. <<o>> \in Seq(Structs) /\ e.disabled \in Seq(Structs)
    BY <1>9 DEF Detached, AllSorted, Shape
  <2> QED
    BY <1>10, <2>1, ConcatProperties
<1>12. Detached(s, f, o)
  BY <1>9, <1>10, <1>11 DEF Detached, AllSorted, Shape, Keeps
<1>13. output_clear(s, o) = e /\ Disable(s, o) = f
  BY DEF output_clear, Disable, a, b, c, d, e, f
<1> QED
  BY <1>9, <1>12, <1>13

LEMMA InsertSorts ==
  ASSUME NEW s, NEW o \in Structs, AllSorted(s), ~Listed(s.outs, o), s.name[o] # NULL
  PROVE  AllSorted(output_insert(s, o)) /\ Keeps(s, output_insert(s, o), o)
<1> DEFINE i == CHOOSE i \in 1 .. Len(s.outs) + 1 : IsPlace(s, o, i)
           t == output_insert(s, o)
           r == InsertAt(s.outs, i, o)
<1>1. s.outs \in Seq(Structs) /\ s.prio \in [Structs -> Int]
  BY DEF AllSorted, Shape
<1>2. \A k : IsPlace(s, o, k) <=> IsPlaceIn(s.outs, s.prio, o, k)
  BY DEF IsPlace, IsPlaceIn
<1>3. \E k \in 1 .. Len(s.outs) + 1 : IsPlace(s, o, k)
  BY <1>1, <1>2, PlaceExists
<1>4. i \in 1 .. Len(s.outs) + 1 /\ IsPlaceIn(s.outs, s.prio, o, i)
  BY <1>2, <1>3
<1>5. /\ IsServer(t) /\ t.outs = r /\ t.name = s.name /\ t.prio = s.prio
      /\ t.phase = s.phase /\ t.todo = s.todo /\ t.config = s.config
      /\ t.plugged = s.plugged /\ t.disabled = s.disabled
  BY DEF output_insert, AllSorted, Shape, IsServer, Fields
<1> HIDE DEF i, t
<1>6. /\ r \in Seq(Structs) /\ Distinct(r) /\ InOrder(r, s.prio)
      /\ \A p : Listed(r, p) => p = o \/ Listed(s.outs, p)
  BY <1>1, <1>4, Inserted DEF AllSorted, Shape
<1> HIDE DEF r
<1>7. Shape(t)
  BY <1>5, <1>6 DEF AllSorted, Shape
<1> QED
  BY <1>5, <1>6, <1>7 DEF AllSorted, Keeps, t

LEMMA KeepsTwice ==
  ASSUME NEW s, NEW t, NEW u, NEW o, Keeps(s, t, o), Keeps(t, u, o)
  PROVE  Keeps(s, u, o)
BY DEF Keeps

LEMMA EnableSorts ==
  ASSUME NEW s, NEW o \in Structs, NEW changed \in BOOLEAN, SortedBut(s, o),
         ~changed => AllSorted(s), s.name[o] # NULL
  PROVE  AllSorted(Enable(s, o, changed)) /\ Keeps(s, Enable(s, o, changed), o)
<1> DEFINE u == Unlink(s, o)
           p == IF changed THEN output_insert(u, o) ELSE s
           t == [p EXCEPT !.on[o] = TRUE]
<1>1. Enable(s, o, changed) = t
  BY DEF Enable
<1> HIDE DEF u, p, t
<1>2. AllSorted(p) /\ Keeps(s, p, o)
  <2>1. CASE changed
    <3>1. Detached(s, u, o)
      BY UnlinkDetaches DEF u
    <3>2. AllSorted(output_insert(u, o)) /\ Keeps(u, output_insert(u, o), o)
      BY <3>1, InsertSorts DEF Detached
    <3> QED
      BY <2>1, <3>1, <3>2, KeepsTwice DEF p, Detached
  <2>2. CASE ~changed
    BY <2>2 DEF p, Keeps, AllSorted
  <2> QED
    BY <2>1, <2>2
<1>3. Quiet(p, t)
  BY <1>2 DEF t, Quiet, AllSorted, Shape, IsServer, Fields
<1>4. AllSorted(t) /\ Keeps(p, t, o)
  BY <1>2, <1>3, QuietKeeps
<1> QED
  BY <1>1, <1>2, <1>4, KeepsTwice

LEMMA PrioMoves ==
  ASSUME NEW s, NEW o \in Structs, NEW c, c.prio \in Int, AllSorted(s)
  PROVE  LET t == SetPrio(s, o, c)
         IN  /\ SortedBut(t, o) /\ Keeps(s, t, o) /\ t.name = s.name
             /\ t.prio[o] = s.prio[o] => AllSorted(t)
<1> DEFINE t == SetPrio(s, o, c)
<1>1. CASE c.prio = -1
  BY <1>1, SortedIsSortedBut DEF SetPrio, Keeps
<1>2. CASE c.prio # -1
  <2>1. t = [s EXCEPT !.prio[o] = c.prio]
    BY <1>2 DEF SetPrio
  <2> HIDE DEF t
  <2>2. /\ IsServer(t) /\ t.outs = s.outs /\ t.disabled = s.disabled
        /\ t.name = s.name /\ t.config = s.config /\ t.todo = s.todo
        /\ t.phase = s.phase /\ t.prio = [s.prio EXCEPT ![o] = c.prio]
        /\ t.plugged = s.plugged
    BY <2>1 DEF AllSorted, Shape, IsServer, Fields
  <2>3. t.prio \in [Structs -> Int] /\ \A p \in Structs \ {o} : t.prio[p] = s.prio[p]
    BY <2>2 DEF AllSorted, Shape
  <2>4. Shape(t) /\ Keeps(s, t, o)
    BY <2>2, <2>3 DEF AllSorted, Shape, Keeps
  <2>5. \A i \in DOMAIN s.outs : s.outs[i] \in Structs
    BY ElementOfSeq, LenProperties DEF AllSorted, Shape
  <2>6. InOrderBut(t.outs, t.prio, o)
    BY <2>2, <2>3, <2>5 DEF AllSorted, InOrder, InOrderBut
  <2>7. t.prio[o] = s.prio[o] => t.prio = s.prio
    BY <2>2 DEF AllSorted, Shape
  <2> QED
    BY <2>2, <2>4, <2>6, <2>7 DEF SortedBut, AllSorted, t
<1> QED
  BY <1>1, <1>2

(* A destroyed output is taken from the list before it loses its name.     *)
LEMMA DestroyKeepsOrder ==
  ASSUME NEW s, NEW o \in Structs, AllSorted(s)
  PROVE  AllSorted(output_destroy(s, o)) /\ Keeps(s, output_destroy(s, o), o)
<1> DEFINE l == LoseMonitor(s, o)
           c == output_clear(l, o)
           f == Free(c, o)
           k == [l EXCEPT !.scene[o] = "live"]
           e == IF l.role[o] = "permanent" THEN k ELSE f
           t == StopWithoutOutputs(e)
<1>1. output_destroy(s, o) = t
  BY DEF output_destroy
<1> HIDE DEF l, c, f, k, e, t
<1>2. Quiet(s, l)
  BY QuietScene DEF l, AllSorted, Shape
<1>3. AllSorted(l) /\ Keeps(s, l, o)
  BY <1>2, QuietKeeps
<1>4. Quiet(l, k)
  BY <1>2 DEF k, Quiet, IsServer, Fields
<1>5. AllSorted(k) /\ Keeps(l, k, o)
  BY <1>3, <1>4, QuietKeeps
<1>6. Detached(l, c, o)
  BY <1>3, SortedIsSortedBut, ClearDetaches DEF c
<1>7. /\ IsServer(f) /\ f.outs = c.outs /\ f.disabled = c.disabled
      /\ f.todo = c.todo /\ f.config = c.config /\ f.phase = c.phase
      /\ f.plugged = c.plugged
      /\ f.name = [c.name EXCEPT ![o] = NULL] /\ f.prio = [c.prio EXCEPT ![o] = -1]
  BY <1>6 DEF f, Free, Detached, AllSorted, Shape, IsServer, Fields
<1>8. /\ f.name \in [Structs -> Monitors \cup {NULL}] /\ f.prio \in [Structs -> Int]
      /\ \A p \in Structs \ {o} : f.name[p] = c.name[p] /\ f.prio[p] = c.prio[p]
  BY <1>6, <1>7 DEF Detached, AllSorted, Shape
<1>9. \A i \in DOMAIN c.outs : c.outs[i] \in Structs \ {o}
  BY <1>6, ElementOfSeq, LenProperties DEF Detached, AllSorted, Shape, Listed, ToSet
<1>10. AllSorted(f) /\ Keeps(l, f, o)
  <2>1. InOrder(f.outs, f.prio)
    BY <1>6, <1>7, <1>8, <1>9 DEF Detached, AllSorted, InOrder
  <2>2. \A p : Listed(f.outs, p) => p \in Structs \ {o} /\ Listed(c.outs, p)
    BY <1>7, <1>9 DEF Listed, ToSet
  <2>3. \A p : Listed(f.outs, p) => f.name[p] # NULL
    BY <1>6, <1>8, <2>2 DEF Detached, AllSorted, Shape
  <2>4. Shape(f)
    BY <1>6, <1>7, <1>8, <2>3 DEF Detached, AllSorted, Shape
  <2>5. Keeps(l, f, o)
    BY <1>6, <1>7, <1>8, <2>2 DEF Detached, Keeps
  <2> QED
    BY <2>1, <2>4, <2>5 DEF AllSorted
<1>11. AllSorted(e) /\ Keeps(s, e, o)
  BY <1>3, <1>5, <1>10, KeepsTwice DEF e
<1>12. AllSorted(t) /\ Keeps(e, t, o)
  BY <1>11 DEF t, StopWithoutOutputs, AllSorted, Shape, IsServer, Fields, Keeps
<1> QED
  BY <1>1, <1>11, <1>12, KeepsTwice

(* output_apply_config, with all it may do to the output: destroy it,      *)
(* disable it, or list it again at the place its priority gives it.        *)
LEMMA ApplyKeepsOrder ==
  ASSUME NEW s, NEW o \in Structs, NEW c, c.prio \in Int, NEW fails,
         AllSorted(s), s.name[o] # NULL
  PROVE  /\ AllSorted(output_apply_config(s, o, c, fails))
         /\ Keeps(s, output_apply_config(s, o, c, fails), o)
<1> DEFINE r == SetRole(s, o, c)
           p == SetPrio(r, o, c)
           q == Ub(p, c.pos /\ p.scene[o] = "dangling")
           changed == p.prio[o] # s.prio[o]
           e == IF c.status = "disable" /\ Len(p.outs) > 1 THEN Disable(q, o)
                ELSE Enable(q, o, changed)
           b == Background(e, o)
           t == IF c.role = "peripheral" /\ s.destroyed[o] THEN output_destroy(r, o)
                ELSE IF ModeFails(p, o, c, fails) THEN Disable(p, o) ELSE b
<1>1. output_apply_config(s, o, c, fails) = t
  BY DEF output_apply_config
<1> HIDE DEF r, p, q, changed, e, b, t
<1>2. Quiet(s, r)
  BY QuietRole DEF r, AllSorted, Shape
<1>3. AllSorted(r) /\ Keeps(s, r, o) /\ r.name = s.name /\ r.prio = s.prio
  BY <1>2, QuietKeeps DEF Quiet
<1>4. /\ SortedBut(p, o) /\ Keeps(r, p, o) /\ p.name = r.name
      /\ p.prio[o] = r.prio[o] => AllSorted(p)
  BY <1>3, PrioMoves DEF p
<1>5. Quiet(p, q)
  BY <1>4, QuietUb DEF q, SortedBut, Shape
<1>6. /\ SortedBut(q, o) /\ Keeps(p, q, o) /\ q.name[o] # NULL
      /\ ~changed => AllSorted(q)
  BY <1>3, <1>4, <1>5, QuietKeeps DEF Quiet, changed
<1>7. Keeps(s, p, o) /\ Keeps(s, q, o)
  BY <1>3, <1>4, <1>6, KeepsTwice
<1>8. ASSUME NEW a, SortedBut(a, o), Keeps(s, a, o)
      PROVE  AllSorted(Disable(a, o)) /\ Keeps(s, Disable(a, o), o)
  BY <1>8, ClearDetaches, KeepsTwice DEF Detached
<1>9. AllSorted(Enable(q, o, changed)) /\ Keeps(q, Enable(q, o, changed), o)
  <2>1. changed \in BOOLEAN
    BY DEF changed
  <2> QED
    BY <1>6, <2>1, EnableSorts
<1>10. AllSorted(e) /\ Keeps(s, e, o)
  BY <1>6, <1>7, <1>8, <1>9, KeepsTwice DEF e
<1>11. Quiet(e, b)
  BY <1>10, QuietScene DEF b, AllSorted, Shape
<1>12. AllSorted(b) /\ Keeps(s, b, o)
  BY <1>10, <1>11, QuietKeeps, KeepsTwice
<1>13. AllSorted(output_destroy(r, o)) /\ Keeps(s, output_destroy(r, o), o)
  BY <1>3, DestroyKeepsOrder, KeepsTwice
<1> QED
  BY <1>1, <1>7, <1>4, <1>8, <1>12, <1>13 DEF t

LEMMA ConfigurePrio ==
  ASSUME NEW c \in Config PROVE c.prio \in Int
<1>1. c.prio \in Prios \cup {-1}
  BY Zenon DEF Config
<1>2. Prios \subseteq Int /\ -1 \in Int
  BY OutputsAssumption
<1> QED
  BY <1>1, <1>2, Zenon

LEMMA ConfigureKeepsOrder ==
  ASSUME NEW s, NEW o \in Structs, NEW fails, AllSorted(s), s.name[o] # NULL
  PROVE  /\ AllSorted(output_configure(s, o, fails))
         /\ Keeps(s, output_configure(s, o, fails), o)
<1>1. s.config[s.name[o]] \in Config
  BY DEF AllSorted, Shape
<1>2. s.config[s.name[o]].prio \in Int
  BY <1>1, ConfigurePrio
<1> QED
  BY <1>2, ApplyKeepsOrder DEF output_configure

LEMMA NamedHasName ==
  ASSUME NEW s, NEW seq \in Seq(Structs), NEW m, Named(s, seq, m) # NULL
  PROVE  Named(s, seq, m) \in Structs /\ s.name[Named(s, seq, m)] = m
<1> DEFINE found == {i \in DOMAIN seq : s.name[seq[i]] = m}
<1>1. found # {} /\ found \in SUBSET Nat
  BY LenProperties DEF Named
<1> DEFINE i == CHOOSE i \in found : \A j \in found : i <= j
<1>2. Named(s, seq, m) = seq[i]
  BY <1>1 DEF Named
<1>3. \E k \in found : \A j \in found : k <= j
  <2> HIDE DEF found
  <2> QED
    BY <1>1, LeastNat
<1>4. i \in found
  BY <1>3
<1> HIDE DEF i
<1>5. i \in DOMAIN seq /\ s.name[seq[i]] = m
  BY <1>4
<1> QED
  BY <1>2, <1>5, ElementOfSeq, LenProperties

(* What the `output` command gives is a configuration.                     *)
LEMMA KeywordsAreConfigs ==
  ASSUME NEW c \in Keywords PROVE c \in Config
<1>1. empty_output_config
        = [status |-> "default", prio |-> -1, pos |-> FALSE, role |-> "default"]
  BY DEF empty_output_config
<1>2. Prios \subseteq Prios \cup {-1} /\ -1 \in Prios \cup {-1}
  OBVIOUS
<1>3. c \in [status : {"default", "enable", "disable"},
             prio   : Prios \cup {-1},
             pos    : BOOLEAN,
             role   : {"default", "permanent", "peripheral"}]
  BY <1>1, <1>2 DEF Keywords
<1> QED
  BY <1>3 DEF Config

(* The `output` command.                                                   *)
LEMMA CommandKeepsOrder ==
  ASSUME NEW s, NEW m \in Monitors, NEW c \in Config, NEW fails, AllSorted(s)
  PROVE  LET t == keybinding_configure_output(s, m, c, fails)
         IN  /\ AllSorted(t) /\ t.todo = s.todo /\ t.phase \in {s.phase, "stopped"}
             /\ t.plugged = s.plugged
<1> DEFINE k == merge_config(c, s.config[m])
           t == [s EXCEPT !.config[m] = k]
           o == Named(s, s.outs \o s.disabled, m)
<1>1. s.config[m] \in Config
  BY DEF AllSorted, Shape
<1>2. k \in Config
  BY <1>1 DEF merge_config, Config
<1>3. keybinding_configure_output(s, m, c, fails)
        = IF o = NULL THEN t ELSE output_configure(t, o, fails)
  BY DEF keybinding_configure_output
<1> HIDE DEF k
<1>4. /\ IsServer(t) /\ t.outs = s.outs /\ t.disabled = s.disabled
      /\ t.prio = s.prio /\ t.name = s.name /\ t.todo = s.todo /\ t.phase = s.phase
      /\ t.config = [s.config EXCEPT ![m] = k] /\ t.plugged = s.plugged
  BY DEF AllSorted, Shape, IsServer, Fields
<1> HIDE DEF t
<1>5. AllSorted(t)
  BY <1>2, <1>4 DEF AllSorted, Shape
<1>6. CASE o = NULL
  BY <1>3, <1>4, <1>5, <1>6
<1>7. CASE o # NULL
  <2>1. s.outs \o s.disabled \in Seq(Structs)
    BY ConcatProperties DEF AllSorted, Shape
  <2>2. o \in Structs /\ s.name[o] = m
    BY <1>7, <2>1, NamedHasName, Zenon
  <2>3. m # NULL
    BY OutputsAssumption
  <2> HIDE DEF o
  <2>4. AllSorted(output_configure(t, o, fails)) /\ Keeps(t, output_configure(t, o, fails), o)
    BY <1>4, <1>5, <2>2, <2>3, ConfigureKeepsOrder
  <2> QED
    BY <1>3, <1>4, <1>7, <2>4 DEF Keeps
<1> QED
  BY <1>6, <1>7

(* calloc: the struct of a new output.                                     *)
Fresh(s, o, m) ==
  [s EXCEPT !.name[o] = m, !.prio[o] = -1, !.role[o] = "peripheral",
            !.destroyed[o] = FALSE, !.scene[o] = "live", !.on[o] = TRUE,
            !.bg[o] = FALSE, !.ws[o] = FALSE, !.msgs[o] = "none"]

(* It is listed before it is configured.                                   *)
LEMMA FreshListed ==
  ASSUME NEW s, NEW o \in Structs, NEW m \in Monitors, AllSorted(s), s.name[o] = NULL
  PROVE  LET i == output_insert(Fresh(s, o, m), o)
         IN  /\ AllSorted(Fresh(s, o, m)) /\ AllSorted(i)
             /\ Keeps(s, i, o) /\ i.name[o] = m
<1> DEFINE n == Fresh(s, o, m)
           i == output_insert(n, o)
<1>1. /\ IsServer(n) /\ n.outs = s.outs /\ n.disabled = s.disabled
      /\ n.todo = s.todo /\ n.config = s.config /\ n.phase = s.phase
      /\ n.plugged = s.plugged
      /\ n.name = [s.name EXCEPT ![o] = m] /\ n.prio = [s.prio EXCEPT ![o] = -1]
  BY DEF Fresh, AllSorted, Shape, IsServer, Fields
<1> HIDE DEF n, i
<1>2. ~Listed(s.outs, o)
  BY DEF AllSorted, Shape
<1>3. \A k \in DOMAIN s.outs : s.outs[k] \in Structs \ {o}
  BY <1>2, ElementOfSeq, LenProperties DEF AllSorted, Shape, Listed, ToSet
<1>4. /\ n.name \in [Structs -> Monitors \cup {NULL}] /\ n.prio \in [Structs -> Int]
      /\ \A p \in Structs \ {o} : n.name[p] = s.name[p] /\ n.prio[p] = s.prio[p]
      /\ n.name[o] = m
  BY <1>1 DEF AllSorted, Shape
<1>5. m # NULL
  BY OutputsAssumption
<1>6. \A p : Listed(n.outs, p) => n.name[p] # NULL
  BY <1>1, <1>3, <1>4 DEF AllSorted, Shape, Listed, ToSet
<1>7. InOrder(n.outs, n.prio)
  BY <1>1, <1>3, <1>4 DEF AllSorted, InOrder
<1>8. AllSorted(n) /\ Keeps(s, n, o)
  BY <1>1, <1>4, <1>6, <1>7 DEF AllSorted, Shape, Keeps
<1>9. AllSorted(i) /\ Keeps(n, i, o)
  BY <1>1, <1>2, <1>4, <1>5, <1>8, InsertSorts DEF i
<1>10. i.name = n.name
  BY <1>1 DEF i, output_insert, IsServer, Fields
<1> QED
  BY <1>4, <1>8, <1>9, <1>10, KeepsTwice DEF i, n

(* A monitor that comes back, and one that is new.                         *)
LEMMA PlugKeepsOrder ==
  ASSUME NEW s, NEW o \in Structs, NEW m \in Monitors, NEW fails, AllSorted(s)
  PROVE  /\ s.name[o] # NULL => LET t == Reinit(s, o, fails)
                                IN  AllSorted(t) /\ Keeps(s, t, o)
         /\ s.name[o] = NULL => LET t == NewOutput(s, o, m, fails)
                                IN  AllSorted(t) /\ Keeps(s, t, o)
<1>1. ASSUME s.name[o] # NULL
      PROVE  AllSorted(Reinit(s, o, fails)) /\ Keeps(s, Reinit(s, o, fails), o)
  <2> DEFINE d == DestroyScene(s, o)
             r == [d EXCEPT !.scene[o] = "live", !.destroyed[o] = FALSE, !.on[o] = TRUE]
  <2> HIDE DEF d, r
  <2>1. Quiet(s, d)
    BY QuietScene DEF d, AllSorted, Shape
  <2>2. Quiet(s, r)
    BY <2>1 DEF r, Quiet, IsServer, Fields
  <2>3. AllSorted(r) /\ Keeps(s, r, o) /\ r.name[o] # NULL
    BY <1>1, <2>2, QuietKeeps DEF Quiet
  <2>4. AllSorted(output_configure(r, o, fails)) /\ Keeps(r, output_configure(r, o, fails), o)
    BY <2>3, ConfigureKeepsOrder
  <2>5. Reinit(s, o, fails) = output_configure(r, o, fails)
    BY DEF Reinit, r, d
  <2> QED
    BY <2>3, <2>4, <2>5, KeepsTwice
<1>2. ASSUME s.name[o] = NULL
      PROVE  AllSorted(NewOutput(s, o, m, fails)) /\ Keeps(s, NewOutput(s, o, m, fails), o)
  <2> DEFINE i == output_insert(Fresh(s, o, m), o)
             d == output_configure(i, o, fails)
             t == [d EXCEPT !.ws[o] = TRUE, !.curr = IF @ = NULL THEN o ELSE @]
  <2>1. NewOutput(s, o, m, fails) = t
    BY DEF NewOutput, Fresh
  <2> HIDE DEF i, d, t
  <2>2. AllSorted(i) /\ Keeps(s, i, o) /\ i.name[o] # NULL
    BY <1>2, FreshListed, OutputsAssumption DEF i
  <2>3. AllSorted(d) /\ Keeps(i, d, o)
    BY <2>2, ConfigureKeepsOrder DEF d
  <2>4. Quiet(d, t)
    BY <2>3 DEF t, Quiet, AllSorted, Shape, IsServer, Fields
  <2>5. AllSorted(t) /\ Keeps(d, t, o)
    BY <2>3, <2>4, QuietKeeps
  <2> QED
    BY <2>1, <2>2, <2>3, <2>5, KeepsTwice
<1> QED
  BY <1>1, <1>2

-----------------------------------------------------------------------------
(* The list is sorted in every reachable state.                            *)

(* While main() lists the outputs again one by one, those still to come    *)
(* have a name and are not listed yet.                                     *)
SortInv(s) ==
  /\ AllSorted(s)
  /\ s.todo \in Seq(Structs) /\ Distinct(s.todo)
  /\ \A p : Listed(s.todo, p) => s.name[p] # NULL /\ ~Listed(s.outs, p)
  /\ s.phase \notin {"sorting", "stopped"} => s.todo = <<>>

LEMMA SortedAtStart ==
  ASSUME NEW s, s = Start \/ s = [Start EXCEPT !.ub = TRUE]
  PROVE  SortInv(s)
<1>1. /\ IsServer(s) /\ s.outs = <<>> /\ s.disabled = <<>> /\ s.todo = <<>>
      /\ s.name = [o \in Structs |-> NULL] /\ s.prio = [o \in Structs |-> -1]
      /\ s.config = [m \in Monitors |-> [empty_output_config EXCEPT !.status = "enable"]]
  BY DEF Start, IsServer, Fields
<1>2. s.config \in [Monitors -> Config]
  <2> DEFINE c == [empty_output_config EXCEPT !.status = "enable"]
  <2>1. empty_output_config
          = [status |-> "default", prio |-> -1, pos |-> FALSE, role |-> "default"]
    BY DEF empty_output_config
  <2>2. -1 \in Prios \cup {-1}
    OBVIOUS
  <2>3. c \in [status : {"default", "enable", "disable"},
               prio   : Prios \cup {-1},
               pos    : BOOLEAN,
               role   : {"default", "permanent", "peripheral"}]
    BY <2>1, <2>2
  <2> HIDE DEF c
  <2>4. c \in Config
    BY <2>3 DEF Config
  <2> QED
    BY <1>1, <2>4 DEF c
<1>3. -1 \in Int /\ <<>> \in Seq(Structs) /\ DOMAIN <<>> = {}
  BY EmptySeq, LenProperties
<1>4. s.prio \in [Structs -> Int] /\ s.name \in [Structs -> Monitors \cup {NULL}]
  BY <1>1, <1>3
<1> QED
  BY <1>1, <1>2, <1>3, <1>4 DEF SortInv, AllSorted, Shape, Distinct, InOrder, Listed, ToSet

LEMMA SortedAfterStep ==
  ASSUME NEW phases, NEW s, Step(phases, s), SortInv(s)
  PROVE  SortInv(server)'
BY SortedAtStart DEF Step

(* When nothing waits to be listed.                                        *)
LEMMA SortedWhenIdle ==
  ASSUME NEW s, NEW t, SortInv(s), s.phase # "sorting", s.phase # "stopped",
         AllSorted(t), t.todo = s.todo, t.phase \in {s.phase, "stopped"}
  PROVE  SortInv(t)
BY DEF SortInv, Listed, ToSet, Distinct

LEMMA SortedQuietly ==
  ASSUME NEW s, NEW t, SortInv(s), Quiet(s, t)
  PROVE  SortInv(t)
BY QuietKeeps DEF SortInv, Quiet

LEMMA ResortKeepsOrder ==
  ASSUME SortInv(server), Resort
  PROVE  SortInv(server)'
<1> DEFINE o == Head(server.todo)
           s == [server EXCEPT !.todo = Tail(@)]
           i == output_insert(s, o)
<1>1. PICK fails \in BOOLEAN :
        /\ server.todo # <<>>
        /\ Step({"sorting"}, output_configure(i, o, fails))
  BY DEF Resort
<1> DEFINE t == output_configure(i, o, fails)
<1>2. /\ o \in Structs /\ Tail(server.todo) \in Seq(Structs)
      /\ Distinct(Tail(server.todo)) /\ ~Listed(Tail(server.todo), o)
      /\ \A p : Listed(Tail(server.todo), p) => Listed(server.todo, p)
      /\ Listed(server.todo, o)
  BY <1>1, Taken DEF SortInv, Listed
<1>3. server.name[o] # NULL /\ ~Listed(server.outs, o) /\ AllSorted(server)
  BY <1>2 DEF SortInv
<1> HIDE DEF o, s, i, t
<1>4. /\ IsServer(s) /\ s.outs = server.outs /\ s.disabled = server.disabled
      /\ s.name = server.name /\ s.prio = server.prio /\ s.config = server.config
      /\ s.phase = server.phase /\ s.todo = Tail(server.todo)
  BY <1>3 DEF s, AllSorted, Shape, IsServer, Fields
<1>5. AllSorted(s)
  BY <1>3, <1>4 DEF AllSorted, Shape
<1>6. AllSorted(i) /\ Keeps(s, i, o) /\ i.name = s.name
  <2>1. AllSorted(i) /\ Keeps(s, i, o)
    BY <1>2, <1>3, <1>4, <1>5, InsertSorts DEF i
  <2>2. i.name = s.name
    BY <1>4 DEF i, output_insert, IsServer, Fields
  <2> QED
    BY <2>1, <2>2
<1>7. AllSorted(t) /\ Keeps(i, t, o)
  BY <1>2, <1>3, <1>4, <1>6, ConfigureKeepsOrder DEF t
<1>8. Keeps(s, t, o)
  BY <1>6, <1>7, KeepsTwice
<1>9. server.phase = "sorting" /\ t.phase \in {"sorting", "stopped"} /\ t.todo = Tail(server.todo)
  BY <1>1, <1>4, <1>8 DEF Step, Keeps
<1>10. \A p : Listed(t.todo, p) => p \in Structs \ {o}
  <2>1. \A k \in DOMAIN Tail(server.todo) : Tail(server.todo)[k] \in Structs
    BY <1>2, ElementOfSeq, LenProperties
  <2> QED
    BY <1>2, <1>9, <2>1 DEF Listed, ToSet
<1>11. \A p : Listed(t.todo, p) => t.name[p] # NULL /\ ~Listed(t.outs, p)
  <2>1. ASSUME NEW p, Listed(t.todo, p)
        PROVE  t.name[p] # NULL /\ ~Listed(t.outs, p)
    <3>1. p \in Structs \ {o} /\ Listed(server.todo, p)
      BY <1>2, <1>9, <1>10, <2>1
    <3>2. server.name[p] # NULL /\ ~Listed(server.outs, p)
      BY <3>1 DEF SortInv
    <3> QED
      BY <1>4, <1>8, <3>1, <3>2 DEF Keeps
  <2> QED
    BY <2>1
<1>12. SortInv(t)
  BY <1>2, <1>7, <1>9, <1>11 DEF SortInv
<1> QED
  BY <1>1, <1>12, SortedAfterStep DEF t

(* Every step of the program.                                              *)
LEMMA SortedInductive ==
  SortInv(server) /\ [Next]_server => SortInv(server)'
<1> SUFFICES ASSUME SortInv(server), [Next]_server
             PROVE  SortInv(server)'
  OBVIOUS
<1>1. Quiet(server, Cleared) /\ Quiet(server, server)
  <2>1. IsServer(server)
    BY DEF SortInv, AllSorted, Shape
  <2> QED
    BY <2>1, QuietMessages DEF Cleared, Quiet
<1>2. SortInv(Cleared) /\ IsServer(Cleared)
  BY <1>1, SortedQuietly DEF Quiet
<1>3. ASSUME NEW phases, NEW s, Step(phases, s), Quiet(Cleared, s)
      PROVE  SortInv(server)'
  BY <1>2, <1>3, SortedQuietly, SortedAfterStep
<1>4. ASSUME NEW s, NEW t, SortInv(s), s.phase = server.phase,
             Step({"backend", "running"}, t) \/ Step({"running"}, t),
             NEW o, AllSorted(t), Keeps(s, t, o)
      PROVE  SortInv(server)'
  <2>1. server.phase \in {"backend", "running"}
    BY <1>4 DEF Step
  <2>2. SortInv(t)
    BY <1>4, <2>1, SortedWhenIdle DEF Keeps
  <2> QED
    BY <1>4, <2>2, SortedAfterStep
<1>5. CASE ReadConfig
  <2> DEFINE s == [server EXCEPT !.phase = "config"]
  <2>1. Step({"backend"}, s)
    BY <1>5 DEF ReadConfig
  <2>2. /\ IsServer(s) /\ s.outs = server.outs /\ s.disabled = server.disabled
        /\ s.name = server.name /\ s.prio = server.prio /\ s.config = server.config
        /\ s.phase = "config" /\ s.todo = server.todo
    BY DEF SortInv, AllSorted, Shape, IsServer, Fields
  <2>3. server.phase = "backend"
    BY <2>1 DEF Step
  <2> HIDE DEF s
  <2>4. SortInv(s)
    BY <2>2, <2>3 DEF SortInv, AllSorted, Shape
  <2> QED
    BY <2>1, <2>4, SortedAfterStep
<1>6. CASE StartSorting
  <2> DEFINE s == [server EXCEPT !.phase = "sorting", !.todo = server.outs, !.outs = <<>>]
  <2>1. Step({"config"}, s)
    BY <1>6 DEF StartSorting
  <2>2. /\ IsServer(s) /\ s.outs = <<>> /\ s.disabled = server.disabled
        /\ s.name = server.name /\ s.prio = server.prio /\ s.config = server.config
        /\ s.phase = "sorting" /\ s.todo = server.outs
    BY DEF SortInv, AllSorted, Shape, IsServer, Fields
  <2> HIDE DEF s
  <2>3. <<>> \in Seq(Structs) /\ DOMAIN <<>> = {}
    BY EmptySeq, LenProperties
  <2>4. SortInv(s)
    BY <2>2, <2>3 DEF SortInv, AllSorted, Shape, Distinct, InOrder, Listed, ToSet
  <2> QED
    BY <2>1, <2>4, SortedAfterStep
<1>7. CASE Resort
  BY <1>7, ResortKeepsOrder
<1>8. CASE Run
  <2> DEFINE s == [server EXCEPT !.curr = Head(server.outs), !.phase = "running"]
             u == Ub(server, TRUE)
  <2>1. server.todo = <<>> /\ Step({"sorting"}, IF server.outs = <<>> THEN u ELSE s)
    BY <1>8 DEF Run
  <2>2. /\ IsServer(s) /\ s.outs = server.outs /\ s.disabled = server.disabled
        /\ s.name = server.name /\ s.prio = server.prio /\ s.config = server.config
        /\ s.todo = server.todo
    BY DEF SortInv, AllSorted, Shape, IsServer, Fields
  <2> HIDE DEF s
  <2>3. SortInv(s)
    BY <2>1, <2>2 DEF SortInv, AllSorted, Shape
  <2>4. SortInv(u)
    BY <1>1, QuietUb, SortedQuietly DEF SortInv, AllSorted, Shape
  <2> HIDE DEF u
  <2>5. SortInv(IF server.outs = <<>> THEN u ELSE s)
    BY <2>3, <2>4
  <2> QED
    BY <2>1, <2>5, SortedAfterStep
<1>9. CASE ConfigureOutput
  <2>1. PICK m \in Monitors, c \in Keywords, fails \in BOOLEAN :
          Command(keybinding_configure_output(Cleared, m, c, fails))
    BY <1>9 DEF ConfigureOutput
  <2> DEFINE t == keybinding_configure_output(Cleared, m, c, fails)
  <2>2. c \in Config
    BY <2>1, KeywordsAreConfigs
  <2>3. AllSorted(Cleared)
    BY <1>2 DEF SortInv
  <2>4. AllSorted(t) /\ t.todo = Cleared.todo /\ t.phase \in {Cleared.phase, "stopped"}
    BY <2>2, <2>3, CommandKeepsOrder
  <2>5. Step({"config", "running"}, t) /\ Cleared.phase \in {"config", "running"}
    BY <1>1, <2>1 DEF Command, Step, Quiet
  <2> HIDE DEF t
  <2>6. SortInv(t)
    BY <1>2, <2>4, <2>5, SortedWhenIdle
  <2> QED
    BY <2>5, <2>6, SortedAfterStep
<1>10. CASE CycleOutputs
  BY <1>2, <1>3, <1>10, QuietCycle DEF CycleOutputs, Command
<1>11. CASE SwitchOutput
  BY <1>2, <1>3, <1>11, QuietCycle DEF SwitchOutput, Command
<1>12. CASE ShowMessage
  <2>1. CASE Command(message_printf(Cleared, server.curr))
    BY <1>2, <1>3, <2>1, QuietMessages DEF Command
  <2>2. CASE Step({"running"}, message_printf(server, server.curr))
    <3>1. Quiet(server, message_printf(server, server.curr))
      BY <1>1, QuietMessages DEF Quiet
    <3> QED
      BY <2>2, <3>1, SortedQuietly, SortedAfterStep
  <2> QED
    BY <1>12, <2>1, <2>2 DEF ShowMessage
<1>13. CASE ConfigureMessage
  <2>1. ASSUME NEW e PROVE Quiet(Cleared, [Cleared EXCEPT !.messages = e])
    BY <1>2 DEF Quiet, IsServer, Fields
  <2>2. ASSUME NEW e PROVE Quiet(Cleared, [Cleared EXCEPT !.timed = e])
    BY <1>2 DEF Quiet, IsServer, Fields
  <2> QED
    BY <1>3, <1>13, <2>1, <2>2 DEF ConfigureMessage, Command
<1>14. CASE SetBackground
  BY <1>2, <1>3, <1>14, QuietUb DEF SetBackground, keybinding_set_background, Command
<1>15. ASSUME NEW phases, NEW s, Step(phases, s), Quiet(server, s)
       PROVE  SortInv(server)'
  BY <1>15, SortedQuietly, SortedAfterStep
<1>16. CASE Sigalrm
  <2> DEFINE s == [server EXCEPT
                     !.alarm = FALSE,
                     !.ub = \E o \in Structs : Listed(server.outs, o) /\ server.msgs[o] = "raw",
                     !.msgs = [o \in Structs |->
                                 IF Listed(server.outs, o) THEN "none" ELSE server.msgs[o]]]
  <2>1. Step({"running"}, s)
    BY <1>16 DEF Sigalrm
  <2>2. Quiet(server, s)
    BY DEF Quiet, SortInv, AllSorted, Shape, IsServer, Fields
  <2> QED
    BY <1>15, <2>1, <2>2
<1>17. CASE NewView
  <2>1. PICK v \in Views : Step({"running"}, [server EXCEPT !.home[v] = server.curr])
    BY <1>17 DEF NewView
  <2>2. Quiet(server, [server EXCEPT !.home[v] = server.curr])
    BY DEF Quiet, SortInv, AllSorted, Shape, IsServer, Fields
  <2> QED
    BY <1>15, <2>1, <2>2
<1>18. CASE Plug
  <2>1. PICK m \in Monitors \ server.plugged, fails \in BOOLEAN :
          LET s == [server EXCEPT !.plugged = @ \cup {m}]
          IN  \/ \E o \in Waiting(server, m) :
                   Step({"running"}, Reinit(s, o, fails))
              \/ \E o \in Structs :
                   /\ server.name[o] = NULL
                   /\ Step({"backend", "running"}, NewOutput(s, o, m, fails))
    BY <1>18 DEF Plug
  <2> DEFINE s == [server EXCEPT !.plugged = @ \cup {m}]
  <2>2. SortInv(s) /\ s.phase = server.phase /\ s.name = server.name
    BY DEF SortInv, AllSorted, Shape, IsServer, Fields
  <2>3. PICK o \in Structs :
          \/ server.name[o] = m /\ Step({"running"}, Reinit(s, o, fails))
          \/ server.name[o] = NULL /\ Step({"backend", "running"}, NewOutput(s, o, m, fails))
    BY <2>1 DEF Waiting
  <2> HIDE DEF s
  <2>4. AllSorted(s) /\ s.name = server.name /\ m \in Monitors /\ m # NULL
    BY <2>2, OutputsAssumption DEF SortInv
  <2>5. CASE server.name[o] = m /\ Step({"running"}, Reinit(s, o, fails))
    <3>1. AllSorted(Reinit(s, o, fails)) /\ Keeps(s, Reinit(s, o, fails), o)
      BY <2>4, <2>5, PlugKeepsOrder
    <3> QED
      BY <1>4, <2>2, <2>5, <3>1
  <2>6. CASE /\ server.name[o] = NULL
             /\ Step({"backend", "running"}, NewOutput(s, o, m, fails))
    <3>1. AllSorted(NewOutput(s, o, m, fails)) /\ Keeps(s, NewOutput(s, o, m, fails), o)
      BY <2>4, <2>6, PlugKeepsOrder
    <3> QED
      BY <1>4, <2>2, <2>6, <3>1
  <2> QED
    BY <2>3, <2>5, <2>6
<1>19. CASE Unplug
  <2>1. PICK m \in server.plugged, o \in Structs :
          Step({"running"}, output_destroy([server EXCEPT !.plugged = @ \ {m}], o))
    BY <1>19 DEF Unplug
  <2> DEFINE s == [server EXCEPT !.plugged = @ \ {m}]
             t == output_destroy(s, o)
  <2>2. SortInv(s) /\ s.phase = server.phase
    BY DEF SortInv, AllSorted, Shape, IsServer, Fields
  <2> HIDE DEF s
  <2>3. AllSorted(s)
    BY <2>2 DEF SortInv
  <2>4. AllSorted(t) /\ Keeps(s, t, o)
    BY <2>3, DestroyKeepsOrder
  <2>5. Step({"running"}, t)
    BY <2>1 DEF s
  <2> HIDE DEF t
  <2> QED
    BY <1>4, <2>2, <2>4, <2>5
<1>20. CASE UNCHANGED server
  BY <1>20
<1> QED
  BY <1>5, <1>6, <1>7, <1>8, <1>9, <1>10, <1>11, <1>12, <1>13, <1>14, <1>16, <1>17,
     <1>18, <1>19, <1>20 DEF Next

(* The list of outputs is in order of priority in every reachable state,   *)
(* whatever is plugged, unplugged, disabled, enabled and configured, and   *)
(* even when a mode is refused or a message comes to an output without a   *)
(* scene: output_insert always finds its place, and every change of a      *)
(* priority or of a name happens to an output that leaves the list or is   *)
(* listed again before anyone looks (output.c:329, output.c:467).          *)
THEOREM OutputsSorted == Spec => []Sorted
<1>1. Init => SortInv(server)
  BY SortedAtStart DEF Init
<1>2. SortInv(server) /\ [Next]_server => SortInv(server)'
  BY SortedInductive
<1>3. SortInv(server) => Sorted
  BY DEF SortInv, AllSorted, InOrder, Sorted
<1> QED
  BY <1>1, <1>2, <1>3, PTL DEF Spec


-----------------------------------------------------------------------------
(* What refers to an output: the inductive invariant.                      *)

(* The outputs in use: those listed, and while main() lists them again     *)
(* those it has not reached yet.                                           *)
Use(s) == ToSet(s.outs) \cup ToSet(s.todo)

(* An output is in one list, once, and has a name.                         *)
Lists(s) ==
  /\ Distinct(s.outs) /\ Distinct(s.disabled) /\ Distinct(s.todo)
  /\ ToSet(s.outs) \cap ToSet(s.todo) = {}
  /\ Use(s) \cap ToSet(s.disabled) = {}
  /\ \A p \in Use(s) \cup ToSet(s.disabled) : s.name[p] # NULL
  /\ s.phase \notin {"sorting", "stopped"} => s.todo = <<>>

(* The names of the outputs in use differ, and so do those of the outputs  *)
(* that have their monitor; a disabled permanent output that lost its      *)
(* monitor may share its name with the one that got it.                    *)
Names(s) ==
  /\ \A p, q \in Use(s) : s.name[p] = s.name[q] => p = q
  /\ \A p, q \in Structs :
       /\ s.name[p] # NULL /\ s.name[p] = s.name[q]
       /\ ~s.destroyed[p] /\ ~s.destroyed[q]
       => p = q
  /\ \A p \in Structs : s.name[p] # NULL /\ ~s.destroyed[p] => s.name[p] \in s.plugged

(* The current output, the outputs of the views and those that show a      *)
(* message are in A, and the timer runs for the messages.                  *)
Refs(s, A) ==
  /\ s.curr \in A \cup {NULL}
  /\ \A v \in Views : s.home[v] \in A \cup {NULL}
  /\ \A p \in Structs : s.msgs[p] # "none" =>
       p \in A /\ ("time0" \notin Inputs => s.alarm)

Consistent(s) ==
  /\ s \in ServerType
  /\ Lists(s) /\ Names(s)
  /\ "time0" \notin Inputs => s.timed

(* Between two commands everything refers to outputs in use.               *)
Sound(s) == Consistent(s) /\ Refs(s, Use(s))

(* The last output may go: the program stops.                              *)
UseInv(s) ==
  /\ Consistent(s)
  /\ s.phase # "stopped" => Refs(s, Use(s))

(* main() has a current output as soon as it leaves the backend's start.   *)
Begun(s) == s.curr = NULL => s.phase \in {"backend", "stopped"} /\ s.outs = <<>>

(* From s to t no field changed but those in fs.                           *)
Same(s, t, fs) == \A f \in Fields \ fs : t[f] = s[f]

(* What a handler for one output leaves alone.                             *)
After(s, t) ==
  /\ t.todo = s.todo /\ t.config = s.config /\ t.plugged = s.plugged
  /\ t.phase \in {s.phase, "stopped"}
  /\ s.curr # NULL => t.curr # NULL

(* Handlers one after the other.                                           *)
LEMMA AfterTwice ==
  ASSUME NEW s, NEW t, NEW u, After(s, t), After(t, u)
  PROVE  After(s, u)
BY DEF After

(* The fields that no list, name or reference depends on.                  *)
Loose == {"scene", "on", "bg", "ws", "role", "prio", "ub", "messages", "config"}

(* Scene outputs, modes, backgrounds, roles, priorities and the stored     *)
(* configuration change without consequence for the invariant.             *)
LEMMA LooseKeeps ==
  ASSUME NEW s, NEW t \in ServerType, Same(s, t, Loose)
  PROVE  /\ Use(t) = Use(s) /\ t.outs = s.outs /\ t.todo = s.todo /\ t.name = s.name
         /\ t.disabled = s.disabled /\ t.destroyed = s.destroyed
         /\ t.plugged = s.plugged /\ t.phase = s.phase /\ t.curr = s.curr
         /\ Consistent(s) => Consistent(t)
         /\ \A A : Refs(s, A) => Refs(t, A)
         /\ Sound(s) => Sound(t)
<1>1. /\ t.outs = s.outs /\ t.todo = s.todo /\ t.name = s.name
      /\ t.disabled = s.disabled /\ t.destroyed = s.destroyed /\ t.alarm = s.alarm
      /\ t.plugged = s.plugged /\ t.phase = s.phase /\ t.curr = s.curr
      /\ t.home = s.home /\ t.msgs = s.msgs /\ t.timed = s.timed
  BY DEF Same, Loose, Fields
<1>2. Use(t) = Use(s)
  BY <1>1 DEF Use
<1>3. Consistent(s) => Consistent(t)
  BY <1>1, <1>2 DEF Consistent, Lists, Names
<1>4. ASSUME NEW A, Refs(s, A) PROVE Refs(t, A)
  BY <1>1, <1>4 DEF Refs
<1>5. Sound(s) => Sound(t)
  BY <1>2, <1>3, <1>4 DEF Sound
<1> QED
  BY <1>1, <1>2, <1>3, <1>4, <1>5

-----------------------------------------------------------------------------
(* Messages and the current output.                                        *)

(* The same for the seat of the messages and the current output.           *)
Talk == {"curr", "msgs", "alarm", "ub"}

(* A change of the current output and of messages keeps lists and names.   *)
LEMMA TalkKeeps ==
  ASSUME NEW s, NEW t \in ServerType, Same(s, t, Talk), Consistent(s)
  PROVE  /\ Consistent(t) /\ Use(t) = Use(s) /\ t.outs = s.outs /\ t.todo = s.todo
         /\ t.name = s.name /\ t.disabled = s.disabled /\ t.destroyed = s.destroyed
         /\ t.plugged = s.plugged /\ t.phase = s.phase /\ t.config = s.config
<1>1. /\ t.outs = s.outs /\ t.todo = s.todo /\ t.name = s.name
      /\ t.disabled = s.disabled /\ t.destroyed = s.destroyed
      /\ t.plugged = s.plugged /\ t.phase = s.phase /\ t.config = s.config
      /\ t.timed = s.timed
  BY DEF Same, Talk, Fields
<1>2. Use(t) = Use(s)
  BY <1>1 DEF Use
<1> QED
  BY <1>1, <1>2 DEF Consistent, Lists, Names

(* message_clear frees the messages of one output.                         *)
LEMMA ClearMessages ==
  ASSUME NEW s, Consistent(s), NEW o
  PROVE  LET t == message_clear(s, o)
         IN  /\ t \in ServerType /\ Same(s, t, {"msgs", "ub"})
             /\ Consistent(t) /\ Use(t) = Use(s)
             /\ o \in Structs => t.msgs[o] = "none"
             /\ \A A : Refs(s, A) => Refs(t, A)
<1> DEFINE t == message_clear(s, o)
<1>1. /\ t \in ServerType /\ Same(s, t, {"msgs", "ub"})
      /\ t.msgs = [s.msgs EXCEPT ![o] = "none"]
  BY DEF message_clear, Consistent, ServerType, Same, Fields
<1> HIDE DEF t
<1>2. Same(s, t, Talk)
  BY <1>1 DEF Same, Talk
<1>3. t.curr = s.curr /\ t.home = s.home /\ t.alarm = s.alarm
  BY <1>1 DEF Same, Fields
<1>4. s.msgs \in [Structs -> {"none", "shown", "raw"}]
  BY DEF Consistent, ServerType
<1>5. ASSUME NEW A, Refs(s, A) PROVE Refs(t, A)
  BY <1>1, <1>3, <1>4, <1>5 DEF Refs
<1>6. Consistent(t) /\ Use(t) = Use(s)
  BY <1>1, <1>2, TalkKeeps
<1> QED
  BY <1>1, <1>4, <1>5, <1>6 DEF t

(* message_printf on an output in use starts the timer.                    *)
LEMMA PrintMessage ==
  ASSUME NEW s, Consistent(s), NEW o \in Structs \cup {NULL}
  PROVE  LET t == message_printf(s, o)
         IN  /\ t \in ServerType /\ Same(s, t, {"msgs", "alarm"})
             /\ Consistent(t) /\ Use(t) = Use(s)
             /\ \A A : Refs(s, A) /\ o \in A \cup {NULL} => Refs(t, A)
<1> DEFINE t == message_printf(s, o)
<1>1. s \in ServerType
  BY DEF Consistent
<1>2. CASE s.destroyed[o] \/ ~s.messages
  BY <1>1, <1>2 DEF message_printf, Same
<1>3. CASE ~(s.destroyed[o] \/ ~s.messages)
  <2>1. t = [message_set_output(s, o) EXCEPT !.alarm = s.timed]
    BY <1>3 DEF message_printf
  <2> HIDE DEF t
  <2>2. /\ t \in ServerType /\ Same(s, t, {"msgs", "alarm"}) /\ t.alarm = s.timed
        /\ \A p \in Structs : p # o => t.msgs[p] = s.msgs[p]
    BY <1>1, <2>1 DEF message_set_output, ServerType, Same, Fields
  <2>3. Same(s, t, Talk)
    BY <2>2 DEF Same, Talk
  <2>4. t.curr = s.curr /\ t.home = s.home
    BY <2>2 DEF Same, Fields
  <2>5. NULL \notin Structs
    BY OutputsAssumption
  <2>6. ASSUME NEW A, Refs(s, A), o \in A \cup {NULL} PROVE Refs(t, A)
    BY <2>2, <2>4, <2>5, <2>6 DEF Refs, Consistent
  <2>7. Consistent(t) /\ Use(t) = Use(s)
    BY <2>2, <2>3, TalkKeeps
  <2> QED
    BY <2>2, <2>6, <2>7 DEF t
<1> QED
  BY <1>2, <1>3

(* Making an output current shows its number on it.                        *)
LEMMA SetCurrent ==
  ASSUME NEW s, Consistent(s), NEW o \in Structs
  PROVE  LET t == set_output(s, o)
         IN  /\ t \in ServerType /\ Same(s, t, Talk) /\ t.curr = o
             /\ Consistent(t) /\ Use(t) = Use(s)
             /\ \A A : Refs(s, A) /\ o \in A => Refs(t, A)
<1> DEFINE r == Ub([s EXCEPT !.curr = o], ~s.ws[o])
           t == message_printf(r, o)
<1>1. set_output(s, o) = t
  BY DEF set_output
<1>2. r \in ServerType /\ Same(s, r, {"curr", "ub"}) /\ r.curr = o
  BY DEF Ub, ServerType, Same, Fields, Consistent
<1> HIDE DEF r
<1>3. Same(s, r, Talk)
  BY <1>2 DEF Same, Talk
<1>4. Consistent(r) /\ Use(r) = Use(s)
  BY <1>2, <1>3, TalkKeeps
<1>5. ASSUME NEW A, Refs(s, A), o \in A PROVE Refs(r, A)
  BY <1>2, <1>5 DEF Refs, Same, Fields
<1>6. /\ t \in ServerType /\ Same(r, t, {"msgs", "alarm"})
      /\ Consistent(t) /\ Use(t) = Use(r)
      /\ \A A : Refs(r, A) /\ o \in A \cup {NULL} => Refs(t, A)
  BY <1>4, PrintMessage
<1> HIDE DEF t
<1>7. Same(s, t, Talk)
  BY <1>3, <1>6 DEF Same, Talk
<1>8. t.curr = o
  BY <1>2, <1>6 DEF Same, Fields
<1> QED
  BY <1>1, <1>4, <1>5, <1>6, <1>7, <1>8

(* The neighbour of an output in a ring of two or more is another one.     *)
LEMMA Neighbour ==
  ASSUME NEW s, Consistent(s), NEW reverse \in BOOLEAN, Listed(s.outs, s.curr)
  PROVE  LET n == Len(s.outs)
             i == IndexIn(s.outs, s.curr)
             k == IF reverse THEN (IF i = 1 THEN n ELSE i - 1)
                  ELSE (IF i = n THEN 1 ELSE i + 1)
         IN  /\ s.outs[k] \in ToSet(s.outs) /\ s.outs[k] \in Structs
             /\ n > 1 => s.outs[k] # s.curr
<1> DEFINE n == Len(s.outs)
           i == IndexIn(s.outs, s.curr)
           k == IF reverse THEN (IF i = 1 THEN n ELSE i - 1)
                ELSE (IF i = n THEN 1 ELSE i + 1)
<1>1. s.outs \in Seq(Structs) /\ Distinct(s.outs)
  BY DEF Consistent, ServerType, Lists
<1>2. i \in 1 .. n /\ s.outs[i] = s.curr
  BY <1>1, IndexInProperties DEF Listed
<1>3. n \in Nat /\ DOMAIN s.outs = 1 .. n
  BY <1>1, LenProperties
<1> HIDE DEF i, n
<1>4. k \in 1 .. n /\ (n > 1 => k # i)
  BY <1>2, <1>3
<1> HIDE DEF k
<1>5. s.outs[k] \in ToSet(s.outs) /\ s.outs[k] \in Structs
  BY <1>1, <1>3, <1>4, ElementOfSeq DEF ToSet
<1>6. n > 1 => s.outs[k] # s.curr
  BY <1>1, <1>2, <1>3, <1>4 DEF Distinct
<1> QED
  BY <1>5, <1>6 DEF k, n, i

(* Cycling through the outputs ends on a listed one.                       *)
LEMMA CycleCurrent ==
  ASSUME NEW s, Consistent(s), NEW reverse \in BOOLEAN
  PROVE  LET t == keybinding_cycle_outputs(s, reverse)
         IN  /\ t \in ServerType /\ Same(s, t, Talk)
             /\ Consistent(t) /\ Use(t) = Use(s)
             /\ \A A : Refs(s, A) /\ ToSet(s.outs) \subseteq A => Refs(t, A)
             /\ s.curr # NULL => t.curr # NULL
             /\ Listed(s.outs, s.curr) /\ Len(s.outs) > 1 => t.curr # s.curr
<1> DEFINE t == keybinding_cycle_outputs(s, reverse)
           n == Len(s.outs)
           i == IndexIn(s.outs, s.curr)
           k == IF reverse THEN (IF i = 1 THEN n ELSE i - 1)
                ELSE (IF i = n THEN 1 ELSE i + 1)
           o == s.outs[k]
<1>1. CASE Listed(s.outs, s.curr)
  <2>1. o \in ToSet(s.outs) /\ o \in Structs /\ (n > 1 => o # s.curr)
    BY <1>1, Neighbour
  <2>2. t = set_output(s, o)
    BY <1>1 DEF keybinding_cycle_outputs
  <2> HIDE DEF o, t
  <2>3. /\ t \in ServerType /\ Same(s, t, Talk) /\ t.curr = o
        /\ Consistent(t) /\ Use(t) = Use(s)
        /\ \A A : Refs(s, A) /\ o \in A => Refs(t, A)
    BY <2>1, <2>2, SetCurrent
  <2>4. o # NULL
    BY <2>1, OutputsAssumption
  <2> QED
    BY <2>1, <2>3, <2>4 DEF t
<1>2. CASE ~Listed(s.outs, s.curr)
  <2>1. t = Ub(s, TRUE)
    BY <1>2 DEF keybinding_cycle_outputs
  <2> HIDE DEF t
  <2>2. t \in ServerType /\ Same(s, t, {"ub"})
    BY <2>1 DEF Ub, ServerType, Same, Fields, Consistent
  <2>3. Same(s, t, Talk) /\ Same(s, t, Loose) /\ t.curr = s.curr
    BY <2>2 DEF Same, Talk, Loose, Fields
  <2> QED
    BY <1>2, <2>2, <2>3, LooseKeeps DEF t
<1> QED
  BY <1>1, <1>2

-----------------------------------------------------------------------------
(* Taking an output out of use.                                            *)

(* The current output moves on when it leaves and is not the only one.     *)
LEMMA LeaveFindsAnother ==
  ASSUME NEW s, Consistent(s), NEW o \in Structs
  PROVE  LET t == LeaveCurrent(s, o)
         IN  /\ t \in ServerType /\ Same(s, t, Talk)
             /\ Consistent(t) /\ Use(t) = Use(s)
             /\ s.curr # NULL => t.curr # NULL
             /\ Refs(s, Use(s)) => Refs(t, Use(t))
             /\ Refs(s, Use(s)) /\ o \notin ToSet(s.todo) /\ t.curr = o
                  => ToSet(s.outs) = {o}
<1> DEFINE t == LeaveCurrent(s, o)
           c == keybinding_cycle_outputs(s, FALSE)
<1>1. /\ c \in ServerType /\ Same(s, c, Talk)
      /\ Consistent(c) /\ Use(c) = Use(s)
      /\ \A A : Refs(s, A) /\ ToSet(s.outs) \subseteq A => Refs(c, A)
      /\ s.curr # NULL => c.curr # NULL
      /\ Listed(s.outs, s.curr) /\ Len(s.outs) > 1 => c.curr # s.curr
  BY CycleCurrent
<1>2. t = IF s.curr = o /\ Len(s.outs) > 1 THEN c ELSE s
  BY DEF LeaveCurrent
<1>3. s \in ServerType /\ Same(s, s, Talk) /\ ToSet(s.outs) \subseteq Use(s)
  BY DEF Consistent, Same, Use
<1> HIDE DEF t, c
<1>4. /\ t \in ServerType /\ Same(s, t, Talk)
      /\ Consistent(t) /\ Use(t) = Use(s)
      /\ s.curr # NULL => t.curr # NULL
      /\ Refs(s, Use(s)) => Refs(t, Use(t))
  BY <1>1, <1>2, <1>3
<1>5. ASSUME Refs(s, Use(s)), o \notin ToSet(s.todo), t.curr = o
      PROVE  ToSet(s.outs) = {o}
  <2>1. s.curr \in Use(s) \cup {NULL} /\ NULL \notin Structs
    BY <1>5, OutputsAssumption DEF Refs
  <2>2. s.curr = o
    <3>1. CASE s.curr = o /\ Len(s.outs) > 1
      BY <3>1
    <3>2. CASE ~(s.curr = o /\ Len(s.outs) > 1)
      BY <1>2, <1>5, <3>2
    <3> QED
      BY <3>1, <3>2
  <2>3. Listed(s.outs, s.curr)
    BY <1>5, <2>1, <2>2 DEF Listed, Use
  <2>4. ~(Len(s.outs) > 1)
    BY <1>1, <1>2, <1>5, <2>2, <2>3
  <2>5. s.outs \in Seq(Structs)
    BY DEF Consistent, ServerType
  <2>6. Len(s.outs) \in Nat /\ DOMAIN s.outs = 1 .. Len(s.outs)
    BY <2>5, LenProperties
  <2>7. PICK i \in DOMAIN s.outs : s.outs[i] = o
    BY <2>2, <2>3 DEF Listed, ToSet
  <2>8. DOMAIN s.outs = {i}
    BY <2>4, <2>6, <2>7
  <2> QED
    BY <2>7, <2>8 DEF ToSet
<1> QED
  BY <1>4, <1>5 DEF t

(* From s to e output o left both lists and nothing refers to it any more, *)
(* but when it was the only one.                                           *)
Left(s, e, o) ==
  /\ Consistent(e) /\ After(s, e)
  /\ e.name = s.name /\ e.destroyed = s.destroyed /\ e.phase = s.phase
  /\ ToSet(e.outs) = ToSet(s.outs) \ {o} /\ ToSet(e.disabled) = ToSet(s.disabled) \ {o}
  /\ e.msgs[o] = "none"
  /\ Use(e) = Use(s) \ {o}
  /\ Refs(s, Use(s)) /\ ToSet(s.outs) # {o} => Refs(e, Use(e))

LEMMA UnlinkLeaves ==
  ASSUME NEW s, Consistent(s), NEW o \in Structs, o \notin ToSet(s.todo)
  PROVE  LET t == Unlink(s, o)
         IN  /\ t \in ServerType /\ Same(s, t, {"outs", "disabled"})
             /\ Consistent(t) /\ Use(t) = Use(s) \ {o}
             /\ ToSet(t.outs) = ToSet(s.outs) \ {o}
             /\ ToSet(t.disabled) = ToSet(s.disabled) \ {o}
<1> DEFINE t == Unlink(s, o)
           r == wl_list_remove(s.outs, o)
           d == wl_list_remove(s.disabled, o)
<1>1. s \in ServerType /\ Lists(s) /\ Names(s) /\ ("time0" \notin Inputs => s.timed)
  BY DEF Consistent
<1>2. s.outs \in Seq(Structs) /\ s.disabled \in Seq(Structs)
  BY <1>1 DEF ServerType
<1>3. r \in Seq(Structs) /\ Distinct(r) /\ ToSet(r) = ToSet(s.outs) \ {o}
  BY <1>1, <1>2, Removed DEF Lists
<1>4. d \in Seq(Structs) /\ Distinct(d) /\ ToSet(d) = ToSet(s.disabled) \ {o}
  BY <1>1, <1>2, Removed DEF Lists
<1>5. t = [s EXCEPT !.outs = r, !.disabled = d]
  BY DEF Unlink
<1> HIDE DEF t, r, d
<1>6. t \in ServerType /\ t.outs = r /\ t.disabled = d /\ Same(s, t, {"outs", "disabled"})
  BY <1>1, <1>3, <1>4, <1>5 DEF ServerType, Same, Fields
<1>7. /\ t.todo = s.todo /\ t.name = s.name /\ t.destroyed = s.destroyed
      /\ t.plugged = s.plugged /\ t.phase = s.phase /\ t.timed = s.timed
  BY <1>6 DEF Same, Fields
<1>8. Use(t) = Use(s) \ {o}
  BY <1>3, <1>6, <1>7 DEF Use
<1>9. Lists(t)
  BY <1>1, <1>3, <1>4, <1>6, <1>7, <1>8 DEF Lists
<1>10. Names(t)
  BY <1>1, <1>7, <1>8 DEF Names
<1> QED
  BY <1>1, <1>3, <1>4, <1>6, <1>7, <1>8, <1>9, <1>10 DEF Consistent, t

LEMMA ClearLeaves ==
  ASSUME NEW s, Consistent(s), NEW o \in Structs, o \notin ToSet(s.todo)
  PROVE  Left(s, output_clear(s, o), o)
<1> DEFINE a == DestroyScene(s, o)
           b == LeaveCurrent(a, o)
           c == Unlink(b, o)
           d == message_clear(c, o)
           e == Evacuate(d, o)
<1>0. output_clear(s, o) = e
  BY DEF output_clear
<1>1. a \in ServerType /\ Same(s, a, Loose)
  BY DEF DestroyScene, Consistent, ServerType, Same, Loose, Fields
<1>2. /\ Consistent(a) /\ Use(a) = Use(s) /\ a.outs = s.outs /\ a.todo = s.todo
      /\ a.name = s.name /\ a.disabled = s.disabled /\ a.destroyed = s.destroyed
      /\ a.plugged = s.plugged /\ a.phase = s.phase /\ a.curr = s.curr
      /\ Refs(s, Use(s)) => Refs(a, Use(a))
  BY <1>1, LooseKeeps
<1>3. a.config = s.config
  BY DEF DestroyScene, Consistent, ServerType
<1> HIDE DEF a
<1>4. /\ b \in ServerType /\ Same(a, b, Talk)
      /\ Consistent(b) /\ Use(b) = Use(a)
      /\ a.curr # NULL => b.curr # NULL
      /\ Refs(a, Use(a)) => Refs(b, Use(b))
      /\ Refs(a, Use(a)) /\ o \notin ToSet(a.todo) /\ b.curr = o => ToSet(a.outs) = {o}
  BY <1>2, LeaveFindsAnother
<1>5. /\ b.outs = a.outs /\ b.todo = a.todo /\ b.name = a.name /\ b.disabled = a.disabled
      /\ b.destroyed = a.destroyed /\ b.plugged = a.plugged /\ b.phase = a.phase
      /\ b.config = a.config
  BY <1>2, <1>4, TalkKeeps
<1> HIDE DEF b
<1>6. /\ c \in ServerType /\ Same(b, c, {"outs", "disabled"})
      /\ Consistent(c) /\ Use(c) = Use(b) \ {o}
      /\ ToSet(c.outs) = ToSet(b.outs) \ {o}
      /\ ToSet(c.disabled) = ToSet(b.disabled) \ {o}
  BY <1>2, <1>4, <1>5, UnlinkLeaves
<1> HIDE DEF c
<1>7. /\ d \in ServerType /\ Same(c, d, {"msgs", "ub"})
      /\ Consistent(d) /\ Use(d) = Use(c) /\ d.msgs[o] = "none"
  BY <1>6, ClearMessages
<1>8. \A p \in Structs : d.msgs[p] # "none" => p # o /\ c.msgs[p] # "none"
  BY <1>6 DEF message_clear, ServerType
<1> HIDE DEF d
<1>9. /\ e \in ServerType /\ Same(d, e, {"home", "ub"})
      /\ \A v \in Views : e.home[v] =
           IF d.home[v] # o THEN d.home[v] ELSE IF d.outs = <<>> THEN NULL ELSE d.curr
  BY <1>7 DEF Evacuate, ServerType, Same, Fields
<1> HIDE DEF e
<1>10. /\ c.todo = b.todo /\ c.name = b.name /\ c.destroyed = b.destroyed
       /\ c.plugged = b.plugged /\ c.phase = b.phase /\ c.config = b.config
       /\ c.curr = b.curr /\ c.home = b.home /\ c.msgs = b.msgs /\ c.alarm = b.alarm
  BY <1>6 DEF Same, Fields
<1>11. /\ d.todo = c.todo /\ d.name = c.name /\ d.destroyed = c.destroyed
       /\ d.plugged = c.plugged /\ d.phase = c.phase /\ d.config = c.config
       /\ d.curr = c.curr /\ d.home = c.home /\ d.alarm = c.alarm
       /\ d.outs = c.outs /\ d.disabled = c.disabled
  BY <1>7 DEF Same, Fields
<1>12. /\ e.todo = d.todo /\ e.name = d.name /\ e.destroyed = d.destroyed
       /\ e.plugged = d.plugged /\ e.phase = d.phase /\ e.config = d.config
       /\ e.curr = d.curr /\ e.msgs = d.msgs /\ e.alarm = d.alarm /\ e.timed = d.timed
       /\ e.outs = d.outs /\ e.disabled = d.disabled
  BY <1>9 DEF Same, Fields
<1>13. Use(e) = Use(d) /\ Use(e) = Use(s) \ {o}
  BY <1>2, <1>4, <1>6, <1>7, <1>12 DEF Use
<1>14. Consistent(e)
  BY <1>7, <1>9, <1>12, <1>13 DEF Consistent, Lists, Names
<1>15. After(s, e)
  BY <1>2, <1>3, <1>4, <1>5, <1>10, <1>11, <1>12 DEF After
<1>16. ASSUME Refs(s, Use(s)), ToSet(s.outs) # {o} PROVE Refs(e, Use(e))
  <2>1. Refs(b, Use(s))
    BY <1>2, <1>4, <1>16
  <2>2. b.curr # o
    BY <1>2, <1>4, <1>16
  <2>3. e.curr \in Use(e) \cup {NULL}
    BY <1>10, <1>11, <1>12, <1>13, <2>1, <2>2 DEF Refs
  <2>4. ASSUME NEW v \in Views PROVE e.home[v] \in Use(e) \cup {NULL}
    <3>1. d.home[v] \in Use(s) \cup {NULL}
      BY <1>10, <1>11, <2>1 DEF Refs
    <3> QED
      BY <1>9, <1>12, <1>13, <2>3, <3>1
  <2>5. ASSUME NEW p \in Structs, e.msgs[p] # "none"
        PROVE  p \in Use(e) /\ ("time0" \notin Inputs => e.alarm)
    <3>1. p # o /\ b.msgs[p] # "none"
      BY <1>8, <1>10, <1>12, <2>5
    <3>2. p \in Use(s) /\ ("time0" \notin Inputs => b.alarm)
      BY <2>1, <3>1 DEF Refs
    <3> QED
      BY <1>10, <1>11, <1>12, <1>13, <3>1, <3>2
  <2> QED
    BY <2>3, <2>4, <2>5 DEF Refs
<1>17. /\ e.name = s.name /\ e.destroyed = s.destroyed /\ e.phase = s.phase
       /\ ToSet(e.outs) = ToSet(s.outs) \ {o} /\ ToSet(e.disabled) = ToSet(s.disabled) \ {o}
       /\ e.msgs[o] = "none"
  BY <1>2, <1>5, <1>6, <1>7, <1>10, <1>11, <1>12
<1>18. Left(s, e, o)
  BY <1>13, <1>14, <1>15, <1>16, <1>17 DEF Left
<1> QED
  BY <1>0, <1>18

(* A disabled output waits in the other list under its name.               *)
LEMMA DisableKeeps ==
  ASSUME NEW s, Sound(s), NEW o \in Structs, o \notin ToSet(s.todo),
         s.name[o] # NULL, ToSet(s.outs) # {o}
  PROVE  Sound(Disable(s, o)) /\ After(s, Disable(s, o))
<1> DEFINE c == output_clear(s, o)
           t == [c EXCEPT !.disabled = <<o>> \o @, !.on[o] = FALSE]
           d == <<o>> \o c.disabled
<1>1. Disable(s, o) = t
  BY DEF Disable
<1>2. Left(s, c, o)
  BY ClearLeaves DEF Sound
<1> HIDE DEF c
<1>3. Consistent(c) /\ After(s, c) /\ c.name = s.name /\ Use(c) = Use(s) \ {o} /\ Refs(c, Use(c))
  BY <1>2 DEF Left, Sound
<1>4. c.disabled \in Seq(Structs) /\ Distinct(c.disabled) /\ o \notin ToSet(c.disabled)
  BY <1>2, <1>3 DEF Left, Consistent, ServerType, Lists
<1>5. d \in Seq(Structs) /\ Distinct(d) /\ ToSet(d) = ToSet(c.disabled) \cup {o}
  BY <1>4, Prepended
<1>6. t = [c EXCEPT !.disabled = d, !.on[o] = FALSE]
  OBVIOUS
<1> HIDE DEF t, d
<1>7. /\ t \in ServerType /\ Same(c, t, {"disabled", "on"})
      /\ t.disabled = d
  BY <1>3, <1>5, <1>6 DEF Consistent, ServerType, Same, Fields
<1>8. /\ t.outs = c.outs /\ t.todo = c.todo /\ t.name = c.name /\ t.destroyed = c.destroyed
      /\ t.plugged = c.plugged /\ t.phase = c.phase /\ t.timed = c.timed /\ t.msgs = c.msgs
      /\ t.curr = c.curr /\ t.home = c.home /\ t.alarm = c.alarm /\ t.config = c.config
  BY <1>7 DEF Same, Fields
<1>9. Use(t) = Use(c)
  BY <1>8 DEF Use
<1>10. Lists(t)
  BY <1>3, <1>5, <1>7, <1>8, <1>9 DEF Consistent, Lists
<1>11. Names(t)
  BY <1>3, <1>8, <1>9 DEF Consistent, Names
<1>12. Consistent(t)
  BY <1>3, <1>7, <1>8, <1>10, <1>11 DEF Consistent
<1>13. Refs(t, Use(t))
  BY <1>3, <1>8, <1>9 DEF Refs
<1>14. After(s, t)
  BY <1>3, <1>8 DEF After
<1> QED
  BY <1>1, <1>12, <1>13, <1>14 DEF Sound

(* A struct that is freed is in no list.                                   *)
LEMMA FreeKeeps ==
  ASSUME NEW s, Consistent(s), NEW o \in Structs, o \notin Use(s) \cup ToSet(s.disabled)
  PROVE  LET t == Free(s, o)
         IN  /\ Consistent(t) /\ After(s, t) /\ t.outs = s.outs /\ t.phase = s.phase
             /\ Refs(s, Use(s)) => Refs(t, Use(t))
<1> DEFINE t == Free(s, o)
<1>1. s \in ServerType /\ Lists(s) /\ Names(s) /\ ("time0" \notin Inputs => s.timed)
  BY DEF Consistent
<1>2. /\ t \in ServerType
      /\ Same(s, t, {"name", "prio", "role", "destroyed", "scene", "bg", "ws"})
      /\ t.name[o] = NULL
      /\ \A p \in Structs \ {o} : t.name[p] = s.name[p] /\ t.destroyed[p] = s.destroyed[p]
  <2>1. t \in ServerType
    BY <1>1 DEF Free, ServerType
  <2>2. Same(s, t, {"name", "prio", "role", "destroyed", "scene", "bg", "ws"})
    BY <1>1 DEF Free, ServerType, Same, Fields
  <2>3. /\ t.name = [s.name EXCEPT ![o] = NULL]
        /\ t.destroyed = [s.destroyed EXCEPT ![o] = FALSE]
    BY <1>1 DEF Free, ServerType
  <2>4. s.name \in [Structs -> Monitors \cup {NULL}] /\ s.destroyed \in [Structs -> BOOLEAN]
    BY <1>1 DEF ServerType
  <2> HIDE DEF t
  <2> QED
    BY <2>1, <2>2, <2>3, <2>4
<1> HIDE DEF t
<1>3. /\ t.outs = s.outs /\ t.todo = s.todo /\ t.disabled = s.disabled
      /\ t.plugged = s.plugged /\ t.phase = s.phase /\ t.timed = s.timed /\ t.msgs = s.msgs
      /\ t.curr = s.curr /\ t.home = s.home /\ t.alarm = s.alarm /\ t.config = s.config
  BY <1>2 DEF Same, Fields
<1>4. Use(t) = Use(s)
  BY <1>3 DEF Use
<1>5. Use(s) \cup ToSet(s.disabled) \subseteq Structs \ {o}
  BY <1>1, EmptyList DEF ServerType, Use
<1>6. Lists(t)
  BY <1>1, <1>2, <1>3, <1>4, <1>5 DEF Lists
<1>7. Names(t)
  <2>1. \A p, q \in Use(t) : t.name[p] = t.name[q] => p = q
    BY <1>1, <1>2, <1>4, <1>5 DEF Names
  <2>2. \A p \in Structs : t.name[p] # NULL => p # o
    BY <1>2
  <2> QED
    BY <1>1, <1>2, <1>3, <2>1, <2>2 DEF Names
<1>8. Refs(s, Use(s)) => Refs(t, Use(t))
  BY <1>3, <1>4 DEF Refs
<1> QED
  BY <1>1, <1>2, <1>3, <1>6, <1>7, <1>8 DEF Consistent, After, t

(* output_destroy: a permanent output stays where it is; another one goes, *)
(* and with the last one the program stops.                                *)
LEMMA DestroyKeeps ==
  ASSUME NEW s, NEW o \in Structs, o \notin ToSet(s.todo),
         Sound(LoseMonitor(s, o)), After(s, LoseMonitor(s, o))
  PROVE  UseInv(output_destroy(s, o)) /\ After(s, output_destroy(s, o))
<1> DEFINE l == LoseMonitor(s, o)
           k == [l EXCEPT !.scene[o] = "live"]
           c == output_clear(l, o)
           f == Free(c, o)
           e == IF l.role[o] = "permanent" THEN k ELSE f
           t == StopWithoutOutputs(e)
<1>1. output_destroy(s, o) = t
  BY DEF output_destroy
<1> HIDE DEF l, c, f, k, e, t
<1>2. Sound(l) /\ After(s, l) /\ o \notin ToSet(l.todo)
  BY DEF l, After
<1>3. Sound(k) /\ After(l, k)
  <2>1. k \in ServerType /\ Same(l, k, Loose) /\ k.config = l.config
    BY <1>2 DEF k, Sound, Consistent, ServerType, Same, Loose, Fields
  <2> QED
    BY <1>2, <2>1, LooseKeeps DEF After
<1>4. Left(l, c, o)
  BY <1>2, ClearLeaves DEF c, Sound
<1>5. /\ Consistent(f) /\ After(c, f) /\ f.outs = c.outs /\ f.phase = c.phase
      /\ Refs(c, Use(c)) => Refs(f, Use(f))
  BY <1>4, FreeKeeps DEF f, Left
<1>6. /\ Consistent(f) /\ After(l, f)
      /\ ToSet(f.outs) # {} => Refs(f, Use(f))
  <2>1. ToSet(f.outs) # {} => ToSet(l.outs) # {o}
    BY <1>4, <1>5 DEF Left
  <2>2. After(l, f)
    BY <1>4, <1>5, AfterTwice DEF Left
  <2> QED
    BY <1>2, <1>4, <1>5, <2>1, <2>2 DEF Left, Sound
<1>7. Consistent(e) /\ After(l, e) /\ (ToSet(e.outs) # {} => Refs(e, Use(e)))
  BY <1>3, <1>6 DEF e, Sound
<1>8. CASE e.outs = <<>>
  <2>1. t = [e EXCEPT !.phase = "stopped"]
    BY <1>8 DEF t, StopWithoutOutputs
  <2>2. t \in ServerType /\ t.phase = "stopped" /\ Same(e, t, {"phase"})
    BY <1>7, <2>1 DEF Consistent, ServerType, Same, Fields
  <2>3. /\ t.outs = e.outs /\ t.todo = e.todo /\ t.disabled = e.disabled
        /\ t.plugged = e.plugged /\ t.timed = e.timed /\ t.name = e.name
        /\ t.curr = e.curr /\ t.config = e.config /\ t.destroyed = e.destroyed
    BY <2>2 DEF Same, Fields
  <2>4. Use(t) = Use(e)
    BY <2>3 DEF Use
  <2>5. Consistent(t)
    BY <1>7, <2>2, <2>3, <2>4 DEF Consistent, Lists, Names
  <2>6. After(e, t)
    BY <2>2, <2>3 DEF After
  <2>7. After(s, t)
    BY <1>2, <1>7, <2>6, AfterTwice
  <2> QED
    BY <1>1, <2>2, <2>5, <2>7 DEF UseInv
<1>9. CASE e.outs # <<>>
  <2>1. t = e
    BY <1>9 DEF t, StopWithoutOutputs
  <2>2. e.outs \in Seq(Structs)
    BY <1>7 DEF Consistent, ServerType
  <2>3. ToSet(e.outs) # {}
    BY <1>9, <2>2, EmptyList
  <2>4. After(s, e)
    BY <1>2, <1>7, AfterTwice
  <2> QED
    BY <1>1, <1>7, <2>1, <2>3, <2>4 DEF UseInv
<1> QED
  BY <1>8, <1>9

(* A monitor that is there can be lost.                                    *)
LEMMA LoseKeeps ==
  ASSUME NEW s, Sound(s), NEW o \in Structs
  PROVE  LET l == LoseMonitor(s, o)
         IN  /\ Sound(l) /\ After(s, l) /\ l.name = s.name /\ l.plugged = s.plugged
             /\ l.destroyed[o] /\ \A p \in Structs \ {o} : l.destroyed[p] = s.destroyed[p]
<1> DEFINE l == LoseMonitor(s, o)
<1>1. s \in ServerType
  BY DEF Sound, Consistent
<1>2. /\ l \in ServerType /\ Same(s, l, {"scene", "destroyed", "on", "ub"})
      /\ l.destroyed[o] /\ \A p \in Structs \ {o} : l.destroyed[p] = s.destroyed[p]
  <2>1. CASE s.destroyed[o]
    BY <1>1, <2>1 DEF LoseMonitor, Same
  <2>2. CASE ~s.destroyed[o]
    <3> DEFINE d == DestroyScene(s, o)
    <3>1. d \in ServerType /\ Same(s, d, {"scene", "ub"})
      BY <1>1 DEF DestroyScene, ServerType, Same, Fields
    <3>2. l = [d EXCEPT !.scene[o] = "null", !.destroyed[o] = TRUE, !.on[o] = FALSE]
      BY <2>2 DEF LoseMonitor
    <3> HIDE DEF d, l
    <3>3. /\ l \in ServerType /\ Same(d, l, {"scene", "destroyed", "on"})
          /\ l.destroyed = [d.destroyed EXCEPT ![o] = TRUE]
      BY <3>1, <3>2 DEF ServerType, Same, Fields
    <3>4. Same(s, l, {"scene", "destroyed", "on", "ub"})
      BY <3>1, <3>3 DEF Same
    <3>5. d.destroyed = s.destroyed
      BY <3>1 DEF Same, Fields
    <3>6. s.destroyed \in [Structs -> BOOLEAN]
      BY <1>1 DEF ServerType
    <3> QED
      BY <3>3, <3>4, <3>5, <3>6
  <2> QED
    BY <2>1, <2>2
<1> HIDE DEF l
<1>3. /\ l.outs = s.outs /\ l.todo = s.todo /\ l.disabled = s.disabled /\ l.name = s.name
      /\ l.plugged = s.plugged /\ l.phase = s.phase /\ l.timed = s.timed /\ l.msgs = s.msgs
      /\ l.curr = s.curr /\ l.home = s.home /\ l.alarm = s.alarm /\ l.config = s.config
  BY <1>2 DEF Same, Fields
<1>4. Use(l) = Use(s)
  BY <1>3 DEF Use
<1>5. Consistent(l)
  BY <1>2, <1>3, <1>4 DEF Sound, Consistent, Lists, Names
<1>6. Refs(l, Use(l))
  BY <1>3, <1>4 DEF Sound, Refs
<1> QED
  BY <1>2, <1>3, <1>5, <1>6 DEF Sound, After, l

-----------------------------------------------------------------------------
(* Listing and configuring.                                                *)

LEMMA RefsToMore ==
  ASSUME NEW s, NEW A, NEW B, A \subseteq B, Refs(s, A)
  PROVE  Refs(s, B)
BY DEF Refs

(* output_insert finds a place for an output that is nowhere yet.          *)
LEMMA InsertKeeps ==
  ASSUME NEW s, Consistent(s), NEW o \in Structs, o \notin Use(s) \cup ToSet(s.disabled),
         s.name[o] # NULL, \A p \in Use(s) : s.name[p] # s.name[o]
  PROVE  LET t == output_insert(s, o)
         IN  /\ Consistent(t) /\ Same(s, t, {"outs"}) /\ After(s, t)
             /\ ToSet(t.outs) = ToSet(s.outs) \cup {o}
             /\ Use(t) = Use(s) \cup {o}
             /\ \A A : Refs(s, A) => Refs(t, A)
<1> DEFINE i == CHOOSE i \in 1 .. Len(s.outs) + 1 : IsPlace(s, o, i)
           t == output_insert(s, o)
           r == InsertAt(s.outs, i, o)
<1>1. s \in ServerType /\ Lists(s) /\ Names(s) /\ ("time0" \notin Inputs => s.timed)
  BY DEF Consistent
<1>2. s.outs \in Seq(Structs) /\ s.prio \in [Structs -> Int]
  <2>1. s.outs \in Seq(Structs) /\ s.prio \in [Structs -> Prios \cup {-1}]
    BY <1>1 DEF ServerType
  <2>2. Prios \cup {-1} \subseteq Int
    BY OutputsAssumption
  <2> QED
    BY <2>1, <2>2
<1>3. \A k : IsPlace(s, o, k) <=> IsPlaceIn(s.outs, s.prio, o, k)
  BY DEF IsPlace, IsPlaceIn
<1>4. \E k \in 1 .. Len(s.outs) + 1 : IsPlace(s, o, k)
  BY <1>2, <1>3, PlaceExists
<1>5. i \in 1 .. Len(s.outs) + 1
  BY <1>4
<1>6. t = [s EXCEPT !.outs = r]
  BY DEF output_insert
<1> HIDE DEF i, t
<1>7. Distinct(s.outs) /\ o \notin ToSet(s.outs)
  BY <1>1 DEF Lists, Use
<1>8. r \in Seq(Structs) /\ Distinct(r) /\ ToSet(r) = ToSet(s.outs) \cup {o}
  BY <1>2, <1>5, <1>7, Spliced
<1> HIDE DEF r
<1>9. t \in ServerType /\ t.outs = r /\ Same(s, t, {"outs"})
  BY <1>1, <1>6, <1>8 DEF ServerType, Same, Fields
<1>10. /\ t.disabled = s.disabled /\ t.todo = s.todo /\ t.name = s.name
       /\ t.destroyed = s.destroyed /\ t.plugged = s.plugged /\ t.phase = s.phase
       /\ t.timed = s.timed /\ t.msgs = s.msgs /\ t.curr = s.curr /\ t.home = s.home
       /\ t.alarm = s.alarm /\ t.config = s.config
  BY <1>9 DEF Same, Fields
<1>11. Use(t) = Use(s) \cup {o}
  BY <1>8, <1>9, <1>10 DEF Use
<1>12. o \notin ToSet(s.todo)
  BY DEF Use
<1>13. Lists(t)
  BY <1>1, <1>8, <1>9, <1>10, <1>11, <1>12 DEF Lists
<1>14. Names(t)
  <2>1. \A p, q \in Use(t) : t.name[p] = t.name[q] => p = q
    BY <1>1, <1>10, <1>11 DEF Names
  <2> QED
    BY <1>1, <1>10, <2>1 DEF Names
<1>15. \A A : Refs(s, A) => Refs(t, A)
  BY <1>10 DEF Refs
<1>16. After(s, t)
  BY <1>10 DEF After
<1> QED
  BY <1>1, <1>8, <1>9, <1>10, <1>11, <1>13, <1>14, <1>15, <1>16 DEF Consistent, t

(* Enabling lists the output again when its priority changed.              *)
LEMMA EnableKeeps ==
  ASSUME NEW s, Sound(s), NEW o \in Structs, NEW changed \in BOOLEAN,
         o \notin ToSet(s.todo), s.name[o] # NULL,
         \A p \in Use(s) : s.name[p] = s.name[o] => p = o
  PROVE  LET t == Enable(s, o, changed)
         IN  Sound(t) /\ After(s, t) /\ ToSet(s.outs) \subseteq ToSet(t.outs)
<1> DEFINE u == Unlink(s, o)
           i == output_insert(u, o)
           p == IF changed THEN i ELSE s
           t == [p EXCEPT !.on[o] = TRUE]
<1>1. Enable(s, o, changed) = t
  BY DEF Enable
<1>2. /\ u \in ServerType /\ Same(s, u, {"outs", "disabled"})
      /\ Consistent(u) /\ Use(u) = Use(s) \ {o}
      /\ ToSet(u.outs) = ToSet(s.outs) \ {o}
      /\ ToSet(u.disabled) = ToSet(s.disabled) \ {o}
  BY UnlinkLeaves DEF Sound
<1> HIDE DEF u
<1>3. /\ u.name = s.name /\ u.curr = s.curr /\ u.home = s.home /\ u.msgs = s.msgs
      /\ u.alarm = s.alarm /\ u.todo = s.todo /\ u.config = s.config
      /\ u.plugged = s.plugged /\ u.phase = s.phase
  BY <1>2 DEF Same, Fields
<1>4. Refs(u, Use(s)) /\ After(s, u)
  BY <1>3 DEF Sound, Refs, After
<1>5. /\ o \notin Use(u) \cup ToSet(u.disabled) /\ u.name[o] # NULL
      /\ \A q \in Use(u) : u.name[q] # u.name[o]
  BY <1>2, <1>3
<1>6. /\ Consistent(i) /\ After(u, i)
      /\ ToSet(i.outs) = ToSet(u.outs) \cup {o}
      /\ Use(i) = Use(u) \cup {o}
      /\ \A A : Refs(u, A) => Refs(i, A)
  BY <1>2, <1>5, InsertKeeps
<1> HIDE DEF i
<1>7. Sound(i) /\ After(s, i) /\ ToSet(s.outs) \subseteq ToSet(i.outs)
  <2>1. Use(s) \subseteq Use(i) /\ Refs(i, Use(s))
    BY <1>2, <1>4, <1>6
  <2>2. Refs(i, Use(i))
    BY <2>1, RefsToMore
  <2> QED
    BY <1>2, <1>4, <1>6, <2>2, AfterTwice DEF Sound
<1>8. Sound(p) /\ After(s, p) /\ ToSet(s.outs) \subseteq ToSet(p.outs)
  BY <1>7 DEF After
<1> HIDE DEF p
<1>9. t \in ServerType /\ Same(p, t, Loose) /\ t.config = p.config
  BY <1>8 DEF Sound, Consistent, ServerType, Same, Loose, Fields
<1> HIDE DEF t
<1>10. Sound(t) /\ After(p, t) /\ t.outs = p.outs
  BY <1>8, <1>9, LooseKeeps DEF After
<1> QED
  BY <1>1, <1>8, <1>10, AfterTwice

(* Roles, priorities and backgrounds are loose.                            *)
Like(s, t) == t \in ServerType /\ Same(s, t, Loose) /\ t.config = s.config

LEMMA LikeKeeps ==
  ASSUME NEW s, NEW t, Like(s, t), Sound(s)
  PROVE  /\ Sound(t) /\ After(s, t) /\ Use(t) = Use(s) /\ t.outs = s.outs
         /\ t.todo = s.todo /\ t.name = s.name /\ t.destroyed = s.destroyed
BY LooseKeeps DEF Like, After

LEMMA SettingsAreLoose ==
  ASSUME NEW s, s \in ServerType, NEW o \in Structs, NEW c \in Config, NEW broken \in BOOLEAN
  PROVE  /\ Like(s, SetRole(s, o, c)) /\ Like(s, SetPrio(s, o, c))
         /\ Like(s, Ub(s, broken)) /\ Like(s, Background(s, o))
<1>1. c.role \in {"default", "permanent", "peripheral"} /\ c.prio \in Prios \cup {-1}
  BY DEF Config
<1>2. Like(s, s)
  BY DEF Like, Same
<1>3. ASSUME NEW x \in {"permanent", "peripheral"} PROVE Like(s, [s EXCEPT !.role[o] = x])
  BY DEF Like, ServerType, Same, Loose, Fields
<1>4. ASSUME NEW x \in Prios \cup {-1} PROVE Like(s, [s EXCEPT !.prio[o] = x])
  BY DEF Like, ServerType, Same, Loose, Fields
<1>5. Like(s, Ub(s, broken))
  BY DEF Ub, Like, ServerType, Same, Loose, Fields
<1>6. Like(s, Background(s, o))
  BY DEF Background, Like, ServerType, Same, Loose, Fields
<1>7. Like(s, SetRole(s, o, c))
  BY <1>1, <1>2, <1>3 DEF SetRole
<1>8. Like(s, SetPrio(s, o, c))
  BY <1>1, <1>2, <1>4 DEF SetPrio
<1> QED
  BY <1>5, <1>6, <1>7, <1>8

LEMMA LikeTwice ==
  ASSUME NEW s, NEW t, NEW u, Like(s, t), Like(t, u)
  PROVE  Like(s, u)
BY DEF Like, Same

(* Two outputs are not one.                                                *)
LEMMA Several ==
  ASSUME NEW s, Consistent(s), Len(s.outs) > 1
  PROVE  ToSet(s.outs) # {} /\ \A o : ToSet(s.outs) # {o}
<1>1. s.outs \in Seq(Structs) /\ Distinct(s.outs)
  BY DEF Consistent, ServerType, Lists
<1>2. Len(s.outs) \in Nat /\ DOMAIN s.outs = 1 .. Len(s.outs)
  BY <1>1, LenProperties
<1>3. 1 \in DOMAIN s.outs /\ 2 \in DOMAIN s.outs
  BY <1>2
<1>4. s.outs[1] # s.outs[2]
  BY <1>1, <1>3 DEF Distinct
<1> QED
  BY <1>3, <1>4 DEF ToSet

(* output_apply_config destroys, disables or enables the output.           *)
LEMMA ApplyKeeps ==
  ASSUME NEW s, Sound(s), NEW o \in Structs, NEW c \in Config, NEW fails \in BOOLEAN,
         o \notin ToSet(s.todo), s.name[o] # NULL,
         \A p \in Use(s) : s.name[p] = s.name[o] => p = o,
         fails => ToSet(s.outs) # {o}
  PROVE  LET t == output_apply_config(s, o, c, fails)
         IN  /\ UseInv(t) /\ After(s, t)
             /\ ~s.destroyed[o] /\ ToSet(s.outs) = {o} => o \in Use(t)
<1> DEFINE r == SetRole(s, o, c)
           p == SetPrio(r, o, c)
           q == Ub(p, c.pos /\ p.scene[o] = "dangling")
           changed == p.prio[o] # s.prio[o]
           off == c.status = "disable" /\ Len(p.outs) > 1
           n == Enable(q, o, changed)
           e == IF off THEN Disable(q, o) ELSE n
           b == Background(e, o)
           t == IF c.role = "peripheral" /\ s.destroyed[o] THEN output_destroy(r, o)
                ELSE IF ModeFails(p, o, c, fails) THEN Disable(p, o) ELSE b
<1>1. output_apply_config(s, o, c, fails) = t
  BY DEF output_apply_config
<1> HIDE DEF r, p, q, changed, off, n, e, b, t
<1>2. Like(s, r) /\ Like(r, p) /\ Like(p, q)
  <2>1. Like(s, r)
    BY SettingsAreLoose DEF r, Sound, Consistent
  <2>2. Like(r, p)
    BY <2>1, SettingsAreLoose DEF p, Like
  <2>3. c.pos \in BOOLEAN
    BY DEF Config
  <2>4. Like(p, q)
    BY <2>2, <2>3, SettingsAreLoose DEF q, Like
  <2> QED
    BY <2>1, <2>2, <2>4
<1>3. Like(s, p) /\ Like(s, q)
  BY <1>2, LikeTwice
<1>4. ASSUME NEW x, Like(s, x)
      PROVE  /\ Sound(x) /\ After(s, x) /\ Use(x) = Use(s) /\ x.outs = s.outs
             /\ x.todo = s.todo /\ x.name = s.name /\ x.destroyed = s.destroyed
  BY <1>4, LikeKeeps
<1>5. ASSUME NEW x, Like(s, x), ToSet(s.outs) # {o}
      PROVE  Sound(Disable(x, o)) /\ After(s, Disable(x, o))
  <2>1. Sound(Disable(x, o)) /\ After(x, Disable(x, o))
    BY <1>4, <1>5, DisableKeeps
  <2> QED
    BY <1>4, <1>5, <2>1, AfterTwice
<1>6. UseInv(output_destroy(r, o)) /\ After(s, output_destroy(r, o))
  <2>1. Sound(LoseMonitor(r, o)) /\ After(r, LoseMonitor(r, o))
    BY <1>2, <1>4, LoseKeeps
  <2>2. UseInv(output_destroy(r, o)) /\ After(r, output_destroy(r, o))
    BY <1>2, <1>4, <2>1, DestroyKeeps
  <2> QED
    BY <1>2, <1>4, <2>2, AfterTwice
<1>7. Sound(n) /\ After(s, n) /\ ToSet(s.outs) \subseteq ToSet(n.outs)
  <2>1. changed \in BOOLEAN
    BY DEF changed
  <2>2. Sound(n) /\ After(q, n) /\ ToSet(q.outs) \subseteq ToSet(n.outs)
    BY <1>3, <1>4, <2>1, EnableKeeps DEF n
  <2> QED
    BY <1>3, <1>4, <2>2, AfterTwice
<1>8. off => ToSet(s.outs) # {o}
  <2>1. off => Len(s.outs) > 1
    BY <1>3, <1>4 DEF off
  <2> QED
    BY <2>1, Several DEF Sound
<1>9. Sound(e) /\ After(s, e) /\ (~off => ToSet(s.outs) \subseteq ToSet(e.outs))
  BY <1>3, <1>5, <1>7, <1>8 DEF e
<1>10. Sound(b) /\ After(s, b) /\ (~off => ToSet(s.outs) \subseteq ToSet(b.outs))
  <2>1. Like(e, b)
    BY <1>9, SettingsAreLoose DEF b, Sound, Consistent
  <2>2. Sound(b) /\ After(e, b) /\ b.outs = e.outs
    BY <1>9, <2>1, LikeKeeps
  <2> QED
    BY <1>9, <2>2, AfterTwice
<1>11. ModeFails(p, o, c, fails) => ToSet(s.outs) # {o}
  BY DEF ModeFails
<1>12. UseInv(t) /\ After(s, t)
  BY <1>3, <1>5, <1>6, <1>10, <1>11 DEF t, Sound, UseInv
<1>13. ~s.destroyed[o] /\ ToSet(s.outs) = {o} => o \in Use(t)
  <2>1. ASSUME ~s.destroyed[o], ToSet(s.outs) = {o} PROVE o \in Use(t)
    <3>1. t = b /\ ~off
      BY <1>8, <1>11, <2>1 DEF t
    <3>2. o \in ToSet(b.outs)
      BY <1>10, <2>1, <3>1
    <3> QED
      BY <3>1, <3>2 DEF Use
  <2> QED
    BY <2>1
<1> QED
  BY <1>1, <1>12, <1>13

LEMMA ConfigureKeeps ==
  ASSUME NEW s, Sound(s), NEW o \in Structs, NEW fails \in BOOLEAN,
         o \notin ToSet(s.todo), s.name[o] # NULL,
         \A p \in Use(s) : s.name[p] = s.name[o] => p = o,
         fails => ToSet(s.outs) # {o}
  PROVE  LET t == output_configure(s, o, fails)
         IN  /\ UseInv(t) /\ After(s, t)
             /\ ~s.destroyed[o] /\ ToSet(s.outs) = {o} => o \in Use(t)
<1>1. s.name \in [Structs -> Monitors \cup {NULL}] /\ s.config \in [Monitors -> Config]
  BY DEF Sound, Consistent, ServerType
<1>2. s.config[s.name[o]] \in Config
  BY <1>1
<1> QED
  BY <1>2, ApplyKeeps DEF output_configure

(* A name means the listed output that has it, if there is one.            *)
LEMMA NamedListedFirst ==
  ASSUME NEW s, NEW p \in Seq(Structs), NEW q \in Seq(Structs), NEW m,
         Named(s, p \o q, m) # NULL
  PROVE  \/ Named(s, p \o q, m) \in ToSet(p)
         \/ \A o \in ToSet(p) : s.name[o] # m
<1> DEFINE seq == p \o q
           found == {i \in DOMAIN seq : s.name[seq[i]] = m}
           i == CHOOSE i \in found : \A j \in found : i <= j
<1>1. /\ seq \in Seq(Structs) /\ Len(p) \in Nat /\ Len(q) \in Nat
      /\ DOMAIN p = 1 .. Len(p) /\ DOMAIN seq = 1 .. Len(p) + Len(q)
      /\ \A k \in DOMAIN p : seq[k] = p[k]
  BY ConcatProperties, LenProperties
<1>2. Named(s, p \o q, m) = seq[i] /\ found # {}
  BY DEF Named
<1>3. found \in SUBSET Nat
  BY <1>1
<1>4. \A k \in DOMAIN p : k \in DOMAIN seq
  BY <1>1
<1>5. \A k \in DOMAIN p : s.name[p[k]] = m => k \in found
  BY <1>1, <1>4
<1>6. i \in found /\ \A j \in found : i <= j
  <2> HIDE DEF found
  <2> QED
    BY <1>2, <1>3, LeastNat
<1> HIDE DEF i, found, seq
<1>7. ASSUME NEW o \in ToSet(p), s.name[o] = m
      PROVE  seq[i] \in ToSet(p)
  <2>1. PICK k \in DOMAIN p : p[k] = o
    BY DEF ToSet
  <2>2. k \in found
    BY <1>5, <1>7, <2>1
  <2>3. i \in Nat /\ i <= k /\ i \in DOMAIN seq
    BY <1>3, <1>6, <2>2 DEF found
  <2>4. i \in DOMAIN p
    BY <1>1, <2>1, <2>3
  <2> QED
    BY <1>1, <2>4 DEF ToSet
<1> QED
  BY <1>2, <1>7 DEF seq

(* The `output` command.                                                   *)
LEMMA CommandKeeps ==
  ASSUME NEW s, Sound(s), s.todo = <<>>, NEW m \in Monitors, NEW c \in Config,
         NEW fails \in BOOLEAN, \A o \in Structs : fails => ToSet(s.outs) # {o}
  PROVE  LET t == keybinding_configure_output(s, m, c, fails)
         IN  /\ UseInv(t) /\ t.todo = s.todo /\ t.phase \in {s.phase, "stopped"}
             /\ s.curr # NULL => t.curr # NULL
<1> DEFINE k == merge_config(c, s.config[m])
           t == [s EXCEPT !.config[m] = k]
           o == Named(s, s.outs \o s.disabled, m)
<1>1. /\ s \in ServerType /\ s.config[m] \in Config
      /\ s.outs \in Seq(Structs) /\ s.disabled \in Seq(Structs)
  BY DEF Sound, Consistent, ServerType
<1>2. k \in Config
  BY <1>1 DEF merge_config, Config
<1>3. keybinding_configure_output(s, m, c, fails)
        = IF o = NULL THEN t ELSE output_configure(t, o, fails)
  BY DEF keybinding_configure_output
<1> HIDE DEF k
<1>4. t \in ServerType /\ Same(s, t, Loose)
  BY <1>1, <1>2 DEF ServerType, Same, Loose, Fields
<1> HIDE DEF t
<1>5. /\ Sound(t) /\ t.outs = s.outs /\ t.todo = s.todo /\ t.name = s.name
      /\ t.phase = s.phase /\ t.curr = s.curr /\ Use(t) = Use(s)
  BY <1>4, LooseKeeps
<1>6. CASE o = NULL
  BY <1>3, <1>5, <1>6 DEF UseInv, Sound
<1>7. CASE o # NULL
  <2>1. s.outs \o s.disabled \in Seq(Structs)
    BY <1>1, ConcatProperties
  <2>2. o \in Structs /\ s.name[o] = m /\ m # NULL
    BY <1>7, <2>1, NamedHasName, OutputsAssumption, Zenon
  <2>3. o \in ToSet(s.outs) \/ \A p \in ToSet(s.outs) : s.name[p] # m
    BY <1>1, <1>7, NamedListedFirst
  <2> HIDE DEF o
  <2>4. ToSet(s.todo) = {} /\ Use(s) = ToSet(s.outs)
    <3>1. ToSet(s.todo) = {}
      BY EmptySeq, LenProperties DEF ToSet
    <3> QED
      BY <3>1 DEF Use
  <2>5. \A p \in Use(t) : t.name[p] = t.name[o] => p = o
    BY <1>5, <2>2, <2>3, <2>4 DEF Sound, Consistent, Names
  <2>6. UseInv(output_configure(t, o, fails)) /\ After(t, output_configure(t, o, fails))
    BY <1>5, <2>2, <2>4, <2>5, ConfigureKeeps
  <2> QED
    BY <1>3, <1>5, <1>7, <2>6 DEF After
<1> QED
  BY <1>6, <1>7

(* A permanent output whose monitor comes back.                            *)
LEMMA ReinitKeeps ==
  ASSUME NEW s, Sound(s), NEW o \in Structs, NEW fails \in BOOLEAN,
         o \in Use(s), o \notin ToSet(s.todo), s.name[o] \in s.plugged,
         \A p \in Structs : s.name[p] = s.name[o] => s.destroyed[p],
         fails => ToSet(s.outs) # {o}
  PROVE  UseInv(Reinit(s, o, fails)) /\ After(s, Reinit(s, o, fails))
<1> DEFINE d == DestroyScene(s, o)
           r == [d EXCEPT !.scene[o] = "live", !.destroyed[o] = FALSE, !.on[o] = TRUE]
<1>1. Reinit(s, o, fails) = output_configure(r, o, fails)
  BY DEF Reinit
<1>2. s \in ServerType /\ Lists(s) /\ Names(s)
  BY DEF Sound, Consistent
<1>3. d \in ServerType /\ Same(s, d, {"scene", "ub"})
  BY <1>2 DEF DestroyScene, ServerType, Same, Fields
<1> HIDE DEF d
<1>4. /\ r \in ServerType /\ Same(d, r, {"scene", "destroyed", "on"})
      /\ r.destroyed = [d.destroyed EXCEPT ![o] = FALSE]
  BY <1>3 DEF ServerType, Same, Fields
<1> HIDE DEF r
<1>5. Same(s, r, {"scene", "destroyed", "on", "ub"}) /\ d.destroyed = s.destroyed
  BY <1>3, <1>4 DEF Same, Fields
<1>6. \A p \in Structs : p # o => r.destroyed[p] = s.destroyed[p]
  <2>1. s.destroyed \in [Structs -> BOOLEAN]
    BY <1>2 DEF ServerType
  <2> QED
    BY <1>4, <1>5, <2>1
<1>7. /\ r.outs = s.outs /\ r.todo = s.todo /\ r.disabled = s.disabled /\ r.name = s.name
      /\ r.plugged = s.plugged /\ r.phase = s.phase /\ r.timed = s.timed /\ r.msgs = s.msgs
      /\ r.curr = s.curr /\ r.home = s.home /\ r.alarm = s.alarm /\ r.config = s.config
  BY <1>5 DEF Same, Fields
<1>8. Use(r) = Use(s)
  BY <1>7 DEF Use
<1>9. Lists(r)
  BY <1>2, <1>7, <1>8 DEF Lists
<1>10. Names(r)
  BY <1>2, <1>6, <1>7, <1>8 DEF Names
<1>11. Sound(r)
  BY <1>4, <1>7, <1>8, <1>9, <1>10 DEF Sound, Consistent, Refs
<1>12. s.name[o] # NULL /\ \A p \in Use(s) : s.name[p] = s.name[o] => p = o
  BY <1>2 DEF Lists, Names
<1>13. UseInv(output_configure(r, o, fails)) /\ After(r, output_configure(r, o, fails))
  BY <1>7, <1>8, <1>11, <1>12, ConfigureKeeps
<1>14. After(s, r)
  BY <1>7 DEF After
<1> QED
  BY <1>1, <1>13, <1>14, AfterTwice

(* A new output: the only one becomes the current one and stays.           *)
LEMMA NewOutputKeeps ==
  ASSUME NEW s, Sound(s), NEW o \in Structs, NEW m \in Monitors, NEW fails \in BOOLEAN,
         s.name[o] = NULL, m \in s.plugged,
         \A p \in Structs : s.name[p] = m => s.destroyed[p],
         \A p \in Use(s) : s.name[p] # m,
         fails => ToSet(s.outs) # {},
         s.curr = NULL => ToSet(s.outs) = {}
  PROVE  LET t == NewOutput(s, o, m, fails)
         IN  /\ UseInv(t) /\ t.curr # NULL
             /\ t.todo = s.todo /\ t.phase \in {s.phase, "stopped"}
<1> DEFINE n == [s EXCEPT !.name[o] = m, !.prio[o] = -1, !.role[o] = "peripheral",
                          !.destroyed[o] = FALSE, !.scene[o] = "live", !.on[o] = TRUE,
                          !.bg[o] = FALSE, !.ws[o] = FALSE, !.msgs[o] = "none"]
           i == output_insert(n, o)
           d == output_configure(i, o, fails)
           t == [d EXCEPT !.ws[o] = TRUE, !.curr = IF @ = NULL THEN o ELSE @]
<1>1. NewOutput(s, o, m, fails) = t
  BY DEF NewOutput
<1>2. s \in ServerType /\ Lists(s) /\ Names(s) /\ Refs(s, Use(s))
      /\ ("time0" \notin Inputs => s.timed)
  BY DEF Sound, Consistent
<1>3. m # NULL /\ o # NULL
  BY OutputsAssumption
<1>4. o \notin Use(s) \cup ToSet(s.disabled)
  BY <1>2 DEF Lists
<1>5. /\ n \in ServerType
      /\ Same(s, n, {"name", "prio", "role", "destroyed", "scene", "on", "bg", "ws", "msgs"})
      /\ n.name[o] = m /\ ~n.destroyed[o] /\ n.msgs[o] = "none"
      /\ \A p \in Structs \ {o} : n.name[p] = s.name[p] /\ n.destroyed[p] = s.destroyed[p]
                                  /\ n.msgs[p] = s.msgs[p]
  <2>1. n \in ServerType
    <3> DEFINE a == [s EXCEPT !.name[o] = m, !.prio[o] = -1, !.role[o] = "peripheral",
                              !.destroyed[o] = FALSE]
               b == [a EXCEPT !.scene[o] = "live", !.on[o] = TRUE,
                              !.bg[o] = FALSE, !.ws[o] = FALSE, !.msgs[o] = "none"]
    <3>1. a \in ServerType /\ Same(s, a, {"name", "prio", "role", "destroyed"})
      BY <1>2 DEF ServerType, Same, Fields
    <3>2. n = b
      BY <1>2 DEF ServerType
    <3> HIDE DEF a, n
    <3>3. b \in ServerType
      BY <3>1 DEF ServerType
    <3> QED
      BY <3>2, <3>3
  <2>2. Same(s, n, {"name", "prio", "role", "destroyed", "scene", "on", "bg", "ws", "msgs"})
    BY <1>2 DEF ServerType, Same, Fields
  <2>3. /\ n.name = [s.name EXCEPT ![o] = m]
        /\ n.destroyed = [s.destroyed EXCEPT ![o] = FALSE]
        /\ n.msgs = [s.msgs EXCEPT ![o] = "none"]
    BY <1>2 DEF ServerType
  <2>4. /\ s.name \in [Structs -> Monitors \cup {NULL}]
        /\ s.destroyed \in [Structs -> BOOLEAN]
        /\ s.msgs \in [Structs -> {"none", "shown", "raw"}]
    BY <1>2 DEF ServerType
  <2> HIDE DEF n
  <2> QED
    BY <2>1, <2>2, <2>3, <2>4
<1> HIDE DEF n, i, d, t
<1>6. /\ n.outs = s.outs /\ n.todo = s.todo /\ n.disabled = s.disabled
      /\ n.plugged = s.plugged /\ n.phase = s.phase /\ n.timed = s.timed
      /\ n.curr = s.curr /\ n.home = s.home /\ n.alarm = s.alarm /\ n.config = s.config
  BY <1>5 DEF Same, Fields
<1>7. Use(n) = Use(s) /\ Use(s) \cup ToSet(s.disabled) \subseteq Structs \ {o}
  BY <1>2, <1>4, <1>6, EmptyList DEF Use, ServerType
<1>8. Lists(n)
  BY <1>2, <1>5, <1>6, <1>7 DEF Lists
<1>9. Names(n)
  <2>1. \A p, q \in Use(n) : n.name[p] = n.name[q] => p = q
    BY <1>2, <1>5, <1>7 DEF Names
  <2>2. \A p \in Structs : n.name[p] = m /\ ~n.destroyed[p] => p = o
    BY <1>5
  <2> QED
    BY <1>2, <1>5, <1>6, <2>1, <2>2 DEF Names
<1>10. Consistent(n) /\ Refs(n, Use(s))
  <2>1. Refs(n, Use(s))
    BY <1>2, <1>5, <1>6 DEF Refs
  <2> QED
    BY <1>2, <1>5, <1>6, <1>8, <1>9, <2>1 DEF Consistent
<1>11. /\ Consistent(i) /\ Same(n, i, {"outs"})
       /\ ToSet(i.outs) = ToSet(s.outs) \cup {o}
       /\ Use(i) = Use(s) \cup {o} /\ Refs(i, Use(s))
  BY <1>3, <1>4, <1>5, <1>6, <1>7, <1>10, InsertKeeps DEF i
<1>12. Sound(i)
  BY <1>11, RefsToMore DEF Sound
<1>13. /\ i.name = n.name /\ i.todo = s.todo /\ i.curr = s.curr /\ i.phase = s.phase
       /\ i.destroyed = n.destroyed
  BY <1>6, <1>11 DEF Same, Fields
<1>14. o \notin ToSet(i.todo) /\ o \notin ToSet(s.outs)
  BY <1>4, <1>13 DEF Use
<1>15. /\ UseInv(d) /\ After(i, d)
       /\ ToSet(i.outs) = {o} => o \in Use(d)
  <2>1. \A p \in Use(i) : i.name[p] = i.name[o] => p = o
    BY <1>5, <1>7, <1>11, <1>13
  <2>2. fails => ToSet(i.outs) # {o}
    BY <1>11, <1>14
  <2> QED
    BY <1>3, <1>5, <1>12, <1>13, <1>14, <2>1, <2>2, ConfigureKeeps DEF d
<1>16. d.curr = NULL => o \in Use(d)
  BY <1>11, <1>13, <1>15 DEF After
<1>17. d \in ServerType
  BY <1>15 DEF UseInv, Consistent
<1>18. /\ t \in ServerType /\ Same(d, t, {"ws", "curr"})
       /\ t.curr = IF d.curr = NULL THEN o ELSE d.curr
  <2> DEFINE c == IF d.curr = NULL THEN o ELSE d.curr
  <2>1. c \in Structs \cup {NULL}
    BY <1>17 DEF ServerType
  <2>2. t = [d EXCEPT !.ws[o] = TRUE, !.curr = c]
    BY DEF t
  <2> HIDE DEF c, t
  <2>3. t \in ServerType
    BY <1>17, <2>1, <2>2 DEF ServerType
  <2>4. Same(d, t, {"ws", "curr"}) /\ t.curr = c
    BY <1>17, <2>2 DEF ServerType, Same, Fields
  <2> QED
    BY <2>3, <2>4 DEF c
<1>20. /\ t.outs = d.outs /\ t.todo = d.todo /\ t.disabled = d.disabled /\ t.name = d.name
       /\ t.plugged = d.plugged /\ t.phase = d.phase /\ t.timed = d.timed
       /\ t.home = d.home /\ t.alarm = d.alarm /\ t.config = d.config
       /\ t.msgs = d.msgs /\ t.destroyed = d.destroyed
  BY <1>18 DEF Same, Fields
<1>21. Use(t) = Use(d)
  BY <1>20 DEF Use
<1>22. Consistent(t)
  BY <1>15, <1>18, <1>20, <1>21 DEF UseInv, Consistent, Lists, Names
<1>23. t.phase # "stopped" => Refs(t, Use(t))
  BY <1>15, <1>16, <1>18, <1>20, <1>21 DEF UseInv, Refs
<1> QED
  BY <1>1, <1>3, <1>13, <1>15, <1>18, <1>20, <1>22, <1>23 DEF UseInv, After

-----------------------------------------------------------------------------
(* Every step keeps the references.                                        *)

(* What holds between two steps.                                           *)
Held(s) == UseInv(s) /\ Begun(s)

LEMMA HeldAtStart ==
  ASSUME NEW s, s = Start \/ s = [Start EXCEPT !.ub = TRUE]
  PROVE  Held(s)
<1>1. /\ s.outs = <<>> /\ s.disabled = <<>> /\ s.todo = <<>> /\ s.curr = NULL
      /\ s.name = [o \in Structs |-> NULL] /\ s.msgs = [o \in Structs |-> "none"]
      /\ s.home = [v \in Views |-> NULL] /\ s.timed /\ s.phase = "backend"
  BY DEF Start
<1>2. SortInv(s)
  BY SortedAtStart
<1>3. s.config \in [Monitors -> Config] /\ <<>> \in Seq(Structs) /\ DOMAIN <<>> = {}
  BY <1>2, EmptySeq, LenProperties DEF SortInv, AllSorted, Shape
<1>4. s \in ServerType
  <2>1. Start.config \in [Monitors -> Config]
    BY <1>3 DEF Start
  <2>2. Start \in ServerType
    BY <1>3, <2>1 DEF Start, ServerType
  <2> HIDE DEF Start
  <2>3. [Start EXCEPT !.ub = TRUE] \in ServerType
    BY <2>2 DEF ServerType
  <2> QED
    BY <2>2, <2>3
<1>5. ToSet(<<>>) = {} /\ Distinct(<<>>)
  BY <1>3 DEF ToSet, Distinct
<1>6. Use(s) = {}
  BY <1>1, <1>5 DEF Use
<1>7. Lists(s) /\ Names(s) /\ Refs(s, Use(s))
  <2>1. Lists(s)
    BY <1>1, <1>5, <1>6 DEF Lists
  <2>2. Names(s)
    BY <1>1, <1>6 DEF Names
  <2> QED
    BY <1>1, <1>6, <2>1, <2>2 DEF Refs
<1> QED
  BY <1>1, <1>4, <1>7 DEF Held, UseInv, Begun, Consistent

(* A step ends in the state the handler left, or in a program that misused *)
(* memory.                                                                 *)
LEMMA HeldAfterStep ==
  ASSUME NEW phases, NEW s, Step(phases, s), ~s.ub => Held(s)
  PROVE  Held(server)'
BY HeldAtStart DEF Step

(* What a step starts from.                                                *)
LEMMA HeldBefore ==
  ASSUME Held(server), NEW phases, NEW s, Step(phases, s), "stopped" \notin phases
  PROVE  /\ Sound(server) /\ server.phase \in phases
         /\ "sorting" \notin phases
              => server.todo = <<>> /\ ToSet(server.todo) = {}
                 /\ Use(server) = ToSet(server.outs)
         /\ "backend" \notin phases => server.curr # NULL
<1>1. server.phase \in phases /\ server.phase # "stopped"
  BY DEF Step
<1>2. Sound(server)
  BY <1>1 DEF Held, UseInv, Sound
<1>3. "sorting" \notin phases => server.todo = <<>>
  BY <1>1, <1>2 DEF Sound, Consistent, Lists
<1>4. ToSet(<<>>) = {}
  BY EmptySeq, LenProperties DEF ToSet
<1>5. "backend" \notin phases => server.curr # NULL
  BY <1>1 DEF Held, Begun
<1> QED
  BY <1>1, <1>2, <1>3, <1>4, <1>5 DEF Use

(* A handler that keeps what the current output and the lists refer to.    *)
LEMMA HeldByHandler ==
  ASSUME NEW phases, NEW s, Step(phases, s), UseInv(s), s.curr # NULL
  PROVE  Held(server)'
<1>1. Held(s)
  BY DEF Held, Begun
<1> QED
  BY <1>1, HeldAfterStep

(* A mode is not refused on the only output.                               *)
LEMMA FailsElsewhere ==
  ASSUME "last_fails" \notin Inputs, Sound(server), NEW m, NEW pos, NEW fails \in BOOLEAN,
         MayFail(m, pos, fails), fails
  PROVE  ToSet(server.outs) # {} /\ \A o : ToSet(server.outs) # {o}
BY Several DEF MayFail, Sound

(* Hiding the messages of the current output first changes nothing else.   *)
LEMMA ClearedKeeps ==
  ASSUME Sound(server)
  PROVE  /\ Sound(Cleared) /\ Cleared.curr = server.curr /\ Cleared.outs = server.outs
         /\ Cleared.todo = server.todo /\ Use(Cleared) = Use(server)
         /\ Cleared.phase = server.phase
<1> DEFINE t == message_clear(server, server.curr)
<1>1. /\ t \in ServerType /\ Same(server, t, {"msgs", "ub"})
      /\ Consistent(t) /\ Use(t) = Use(server)
      /\ \A A : Refs(server, A) => Refs(t, A)
  BY ClearMessages DEF Sound
<1> HIDE DEF t
<1>2. /\ t.curr = server.curr /\ t.outs = server.outs /\ t.todo = server.todo
      /\ t.phase = server.phase
  BY <1>1 DEF Same, Fields
<1>3. Sound(t)
  BY <1>1 DEF Sound
<1> QED
  BY <1>1, <1>2, <1>3 DEF Cleared, t

LEMMA SoundIsUseInv ==
  ASSUME NEW s, Sound(s) PROVE UseInv(s)
BY DEF Sound, UseInv

(* The commands that only talk.                                            *)
LEMMA TalkHeld ==
  ASSUME Held(server), CycleOutputs \/ SwitchOutput \/ ShowMessage \/ SetBackground
  PROVE  Held(server)'
<1>1. ASSUME NEW s, Command(s)
      PROVE  /\ Sound(server) /\ Sound(Cleared) /\ Cleared.curr # NULL
             /\ Cleared.curr = server.curr /\ Cleared.outs = server.outs
             /\ Use(Cleared) = ToSet(server.outs)
             /\ Cleared.curr \in ToSet(server.outs)
  <2>1. /\ Sound(server) /\ server.curr # NULL /\ Use(server) = ToSet(server.outs)
    BY <1>1, HeldBefore DEF Command
  <2>2. Sound(Cleared) /\ Cleared.curr = server.curr /\ Cleared.outs = server.outs
        /\ Use(Cleared) = Use(server)
    BY <2>1, ClearedKeeps
  <2> QED
    BY <2>1, <2>2 DEF Sound, Refs
<1>2. CASE CycleOutputs
  <2>1. PICK reverse \in BOOLEAN : Command(keybinding_cycle_outputs(Cleared, reverse))
    BY <1>2 DEF CycleOutputs
  <2> DEFINE t == keybinding_cycle_outputs(Cleared, reverse)
  <2>2. Sound(t) /\ t.curr # NULL
    BY <1>1, <2>1, CycleCurrent DEF Sound
  <2> HIDE DEF t
  <2> QED
    BY <2>1, <2>2, SoundIsUseInv, HeldByHandler DEF Command, t
<1>3. CASE SwitchOutput
  <2>1. PICK i \in DOMAIN server.outs : Command(set_output(Cleared, server.outs[i]))
    BY <1>3 DEF SwitchOutput
  <2> DEFINE o == server.outs[i]
             t == set_output(Cleared, o)
  <2>2. o \in ToSet(server.outs) /\ o \in Structs
    <3>1. server.outs \in Seq(Structs)
      BY <1>1, <2>1 DEF Sound, Consistent, ServerType
    <3> QED
      BY <3>1, EmptyList DEF ToSet
  <2>3. o # NULL
    BY <2>2, OutputsAssumption
  <2> HIDE DEF o
  <2>4. Sound(t) /\ t.curr = o
    BY <1>1, <2>1, <2>2, SetCurrent DEF Sound, o
  <2> HIDE DEF t
  <2> QED
    BY <2>1, <2>3, <2>4, SoundIsUseInv, HeldByHandler DEF Command, t, o
<1>4. CASE ShowMessage
  <2>1. ASSUME NEW s, Sound(s), s.curr # NULL, NEW phases,
               Step(phases, message_printf(s, s.curr))
        PROVE  Held(server)'
    <3> DEFINE t == message_printf(s, s.curr)
    <3>1. s.curr \in Structs \cup {NULL} /\ s.curr \in Use(s) \cup {NULL}
      BY <2>1 DEF Sound, Consistent, ServerType, Refs
    <3>2. /\ t \in ServerType /\ Same(s, t, {"msgs", "alarm"})
          /\ Consistent(t) /\ Use(t) = Use(s)
          /\ \A A : Refs(s, A) /\ s.curr \in A \cup {NULL} => Refs(t, A)
      BY <2>1, <3>1, PrintMessage DEF Sound
    <3>3. Step(phases, t)
      BY <2>1
    <3> HIDE DEF t
    <3>4. Sound(t) /\ t.curr = s.curr
      BY <2>1, <3>1, <3>2 DEF Sound, Same, Fields
    <3> QED
      BY <2>1, <3>3, <3>4, SoundIsUseInv, HeldByHandler
  <2>2. CASE Command(message_printf(Cleared, server.curr))
    <3>1. Sound(Cleared) /\ Cleared.curr # NULL /\ Cleared.curr = server.curr
      BY <1>1, <2>2
    <3> QED
      BY <2>1, <2>2, <3>1 DEF Command
  <2>3. CASE Step({"running"}, message_printf(server, server.curr))
    <3>1. Sound(server) /\ server.curr # NULL
      BY <2>3, HeldBefore
    <3> QED
      BY <2>1, <2>3, <3>1
  <2> QED
    BY <1>4, <2>2, <2>3 DEF ShowMessage
<1>5. CASE SetBackground
  <2> DEFINE broken == \E o \in Structs :
               (Listed(Cleared.outs, o) \/ Listed(Cleared.disabled, o)) /\ ~Cleared.bg[o]
             t == Ub(Cleared, broken)
  <2>1. Command(t)
    BY <1>5 DEF SetBackground, keybinding_set_background
  <2>2. broken \in BOOLEAN
    OBVIOUS
  <2> HIDE DEF broken, t
  <2>3. Sound(Cleared) /\ Cleared.curr # NULL
    BY <1>1, <2>1
  <2>4. t \in ServerType /\ Same(Cleared, t, Loose) /\ t.curr = Cleared.curr
    BY <2>2, <2>3 DEF t, Ub, Sound, Consistent, ServerType, Same, Loose, Fields
  <2>5. Sound(t)
    BY <2>3, <2>4, LooseKeeps
  <2> QED
    BY <2>1, <2>3, <2>4, <2>5, SoundIsUseInv, HeldByHandler DEF Command
<1> QED
  BY <1>2, <1>3, <1>4, <1>5

LEMMA ResortHeld ==
  ASSUME "last_fails" \notin Inputs, Held(server), Resort
  PROVE  Held(server)'
<1> DEFINE o == Head(server.todo)
           s == [server EXCEPT !.todo = Tail(@)]
           i == output_insert(s, o)
<1>1. PICK fails \in BOOLEAN :
        /\ server.todo # <<>>
        /\ MayFail(server.name[o], FALSE, fails)
        /\ Step({"sorting"}, output_configure(i, o, fails))
  BY DEF Resort
<1> DEFINE t == output_configure(i, o, fails)
<1>2. /\ Sound(server) /\ server.curr # NULL /\ server.phase = "sorting"
      /\ server \in ServerType /\ Lists(server) /\ Names(server)
      /\ Refs(server, Use(server)) /\ ("time0" \notin Inputs => server.timed)
  BY <1>1, HeldBefore DEF Sound, Consistent
<1>3. /\ o \in Structs /\ o \in ToSet(server.todo)
      /\ Tail(server.todo) \in Seq(Structs) /\ Distinct(Tail(server.todo))
      /\ ToSet(Tail(server.todo)) = ToSet(server.todo) \ {o}
  <2>1. server.todo \in Seq(Structs) /\ Distinct(server.todo)
    BY <1>2 DEF ServerType, Lists
  <2> QED
    BY <1>1, <2>1, Taken
<1>4. /\ s \in ServerType /\ Same(server, s, {"todo"}) /\ s.todo = Tail(server.todo)
  BY <1>2, <1>3 DEF ServerType, Same, Fields
<1> HIDE DEF o, s, i, t
<1>5. /\ s.outs = server.outs /\ s.disabled = server.disabled /\ s.name = server.name
      /\ s.plugged = server.plugged /\ s.phase = server.phase /\ s.timed = server.timed
      /\ s.curr = server.curr /\ s.home = server.home /\ s.msgs = server.msgs
      /\ s.alarm = server.alarm /\ s.destroyed = server.destroyed
  BY <1>4 DEF Same, Fields
<1>6. Use(s) = Use(server) \ {o} /\ o \in Use(server) /\ o \notin ToSet(s.todo)
      /\ o \notin ToSet(server.outs)
  BY <1>2, <1>3, <1>4, <1>5 DEF Use, Lists
<1>7. Lists(s) /\ Names(s)
  <2>1. Lists(s)
    BY <1>2, <1>3, <1>4, <1>5, <1>6 DEF Lists
  <2>2. Names(s)
    BY <1>2, <1>5, <1>6 DEF Names
  <2> QED
    BY <2>1, <2>2
<1>8. Consistent(s) /\ Refs(s, Use(server))
  BY <1>2, <1>4, <1>5, <1>7 DEF Consistent, Refs
<1>9. /\ o \notin Use(s) \cup ToSet(s.disabled) /\ s.name[o] # NULL
      /\ \A p \in Use(s) : s.name[p] # s.name[o]
  BY <1>2, <1>5, <1>6 DEF Lists, Names
<1>10. /\ Consistent(i) /\ Same(s, i, {"outs"}) /\ After(s, i)
       /\ ToSet(i.outs) = ToSet(s.outs) \cup {o} /\ Use(i) = Use(server)
       /\ Refs(i, Use(server))
  <2>1. /\ Consistent(i) /\ Same(s, i, {"outs"}) /\ After(s, i)
        /\ ToSet(i.outs) = ToSet(s.outs) \cup {o}
        /\ Use(i) = Use(s) \cup {o}
        /\ \A A : Refs(s, A) => Refs(i, A)
    BY <1>3, <1>8, <1>9, InsertKeeps DEF i
  <2> QED
    BY <1>6, <1>8, <2>1
<1>11. i.name = server.name /\ i.todo = s.todo /\ i.curr = server.curr
  BY <1>5, <1>10 DEF Same, Fields
<1>12. Sound(i) /\ \A p \in Use(i) : i.name[p] = i.name[o] => p = o
  BY <1>2, <1>6, <1>10, <1>11 DEF Sound, Names
<1>13. fails => ToSet(i.outs) # {o}
  <2>1. fails => ToSet(server.outs) # {}
    BY <1>1, <1>2, FailsElsewhere
  <2> QED
    BY <1>5, <1>6, <1>10, <2>1
<1>14. UseInv(t) /\ After(i, t)
  BY <1>3, <1>5, <1>6, <1>9, <1>11, <1>12, <1>13, ConfigureKeeps DEF t
<1>15. t.curr # NULL
  BY <1>2, <1>11, <1>14 DEF After
<1>16. Step({"sorting"}, t)
  BY <1>1 DEF t
<1> QED
  BY <1>14, <1>15, <1>16, HeldByHandler

(* main() between reading the file and running.                            *)
LEMMA StartUpHeld ==
  ASSUME Held(server), ReadConfig \/ StartSorting \/ Run
  PROVE  Held(server)'
<1>1. CASE ReadConfig
  <2> DEFINE s == [server EXCEPT !.phase = "config"]
  <2>1. Step({"backend"}, s) /\ server.outs # <<>>
    BY <1>1 DEF ReadConfig
  <2>2. Sound(server) /\ server.phase = "backend" /\ server.todo = <<>> /\ server.curr # NULL
    BY <2>1, HeldBefore DEF Held, Begun
  <2>3. s \in ServerType /\ Same(server, s, {"phase"}) /\ s.phase = "config"
    BY <2>2 DEF Sound, Consistent, ServerType, Same, Fields
  <2> HIDE DEF s
  <2>4. /\ s.outs = server.outs /\ s.disabled = server.disabled /\ s.name = server.name
        /\ s.plugged = server.plugged /\ s.todo = server.todo /\ s.timed = server.timed
        /\ s.curr = server.curr /\ s.home = server.home /\ s.msgs = server.msgs
        /\ s.alarm = server.alarm /\ s.destroyed = server.destroyed
    BY <2>3 DEF Same, Fields
  <2>5. Use(s) = Use(server)
    BY <2>4 DEF Use
  <2>6. Consistent(s) /\ Refs(s, Use(s))
    BY <2>2, <2>3, <2>4, <2>5 DEF Sound, Consistent, Lists, Names, Refs
  <2> QED
    BY <2>1, <2>2, <2>4, <2>6, HeldByHandler DEF UseInv
<1>2. CASE StartSorting
  <2> DEFINE s == [server EXCEPT !.phase = "sorting", !.todo = server.outs, !.outs = <<>>]
  <2>1. Step({"config"}, s)
    BY <1>2 DEF StartSorting
  <2>2. Sound(server) /\ server.curr # NULL /\ Use(server) = ToSet(server.outs)
    BY <2>1, HeldBefore
  <2>3. ToSet(<<>>) = {} /\ Distinct(<<>>) /\ <<>> \in Seq(Structs)
    BY EmptySeq, LenProperties DEF ToSet, Distinct
  <2>4. /\ s \in ServerType /\ Same(server, s, {"phase", "todo", "outs"})
        /\ s.phase = "sorting" /\ s.todo = server.outs /\ s.outs = <<>>
    BY <2>2, <2>3 DEF Sound, Consistent, ServerType, Same, Fields
  <2> HIDE DEF s
  <2>5. /\ s.disabled = server.disabled /\ s.name = server.name
        /\ s.plugged = server.plugged /\ s.timed = server.timed
        /\ s.curr = server.curr /\ s.home = server.home /\ s.msgs = server.msgs
        /\ s.alarm = server.alarm /\ s.destroyed = server.destroyed
    BY <2>4 DEF Same, Fields
  <2>6. Use(s) = Use(server)
    BY <2>2, <2>3, <2>4 DEF Use
  <2>7. Lists(s)
    BY <2>2, <2>3, <2>4, <2>5, <2>6 DEF Sound, Consistent, Lists
  <2>8. Consistent(s) /\ Refs(s, Use(s))
    BY <2>2, <2>4, <2>5, <2>6, <2>7 DEF Sound, Consistent, Names, Refs
  <2> QED
    BY <2>1, <2>2, <2>5, <2>8, HeldByHandler DEF UseInv
<1>3. CASE Run
  <2> DEFINE s == [server EXCEPT !.curr = Head(server.outs), !.phase = "running"]
             u == Ub(server, TRUE)
             e == IF server.outs = <<>> THEN u ELSE s
  <2>1. server.todo = <<>> /\ Step({"sorting"}, e)
    BY <1>3 DEF Run
  <2>2. Sound(server)
    BY <2>1, HeldBefore
  <2>3. u.ub
    BY <2>2 DEF Ub, Sound, Consistent, ServerType
  <2>4. ASSUME server.outs # <<>>
        PROVE  Held(s)
    <3>1. server.outs \in Seq(Structs) /\ Distinct(server.outs)
      BY <2>2 DEF Sound, Consistent, ServerType, Lists
    <3>2. Head(server.outs) \in Structs /\ Head(server.outs) \in ToSet(server.outs)
      BY <2>4, <3>1, Taken
    <3>3. /\ s \in ServerType /\ Same(server, s, {"curr", "phase"})
          /\ s.curr = Head(server.outs) /\ s.phase = "running"
      BY <2>2, <3>2 DEF Sound, Consistent, ServerType, Same, Fields
    <3> HIDE DEF s
    <3>4. /\ s.outs = server.outs /\ s.disabled = server.disabled /\ s.name = server.name
          /\ s.plugged = server.plugged /\ s.todo = server.todo /\ s.timed = server.timed
          /\ s.home = server.home /\ s.msgs = server.msgs
          /\ s.alarm = server.alarm /\ s.destroyed = server.destroyed
      BY <3>3 DEF Same, Fields
    <3>5. Use(s) = Use(server) /\ s.curr \in Use(s)
      BY <3>2, <3>3, <3>4 DEF Use
    <3>6. Consistent(s) /\ Refs(s, Use(s))
      BY <2>1, <2>2, <3>3, <3>4, <3>5 DEF Sound, Consistent, Lists, Names, Refs
    <3>7. s.curr # NULL
      BY <3>2, <3>3, OutputsAssumption
    <3> QED
      BY <3>6, <3>7 DEF Held, UseInv, Begun
  <2> HIDE DEF s, u
  <2>5. ~e.ub => Held(e)
    BY <2>3, <2>4
  <2> HIDE DEF e
  <2> QED
    BY <2>1, <2>5, HeldAfterStep
<1> QED
  BY <1>1, <1>2, <1>3

(* The commands that change settings.                                      *)
LEMMA CommandsHeld ==
  ASSUME "last_fails" \notin Inputs, Held(server), ConfigureOutput \/ ConfigureMessage
  PROVE  Held(server)'
<1>1. ASSUME NEW s, Command(s)
      PROVE  /\ Sound(server) /\ Sound(Cleared) /\ Cleared.curr # NULL
             /\ Cleared.outs = server.outs /\ Cleared.todo = <<>>
             /\ Cleared \in ServerType
  <2>1. Sound(server) /\ server.curr # NULL /\ server.todo = <<>>
    BY <1>1, HeldBefore DEF Command
  <2>2. /\ Sound(Cleared) /\ Cleared.curr = server.curr /\ Cleared.outs = server.outs
        /\ Cleared.todo = server.todo
    BY <2>1, ClearedKeeps
  <2> QED
    BY <2>1, <2>2 DEF Sound, Consistent
<1>2. CASE ConfigureOutput
  <2>1. PICK m \in Monitors, c \in Keywords, fails \in BOOLEAN :
          /\ MayFail(m, c.pos, fails)
          /\ Command(keybinding_configure_output(Cleared, m, c, fails))
    BY <1>2 DEF ConfigureOutput
  <2> DEFINE t == keybinding_configure_output(Cleared, m, c, fails)
  <2>2. c \in Config
    BY <2>1, KeywordsAreConfigs
  <2>3. \A o \in Structs : fails => ToSet(Cleared.outs) # {o}
    BY <1>1, <2>1, FailsElsewhere
  <2>4. UseInv(t) /\ t.curr # NULL
    BY <1>1, <2>1, <2>2, <2>3, CommandKeeps
  <2> HIDE DEF t
  <2> QED
    BY <2>1, <2>4, HeldByHandler DEF Command, t
<1>3. CASE ConfigureMessage
  <2>1. ASSUME NEW e \in BOOLEAN, Command([Cleared EXCEPT !.messages = e])
        PROVE  Held(server)'
    <3> DEFINE t == [Cleared EXCEPT !.messages = e]
    <3>1. Sound(Cleared) /\ Cleared.curr # NULL /\ Cleared \in ServerType /\ Command(t)
      BY <1>1, <2>1
    <3>2. t \in ServerType /\ Same(Cleared, t, Loose) /\ t.curr = Cleared.curr
      BY <3>1 DEF ServerType, Same, Loose, Fields
    <3> HIDE DEF t
    <3>3. Sound(t)
      BY <3>1, <3>2, LooseKeeps
    <3> QED
      BY <3>1, <3>2, <3>3, SoundIsUseInv, HeldByHandler DEF Command
  <2>2. ASSUME NEW e \in {TRUE} \cup {FALSE : i \in Inputs \cap {"time0"}},
               Command([Cleared EXCEPT !.timed = e])
        PROVE  Held(server)'
    <3> DEFINE t == [Cleared EXCEPT !.timed = e]
    <3>1. Sound(Cleared) /\ Cleared.curr # NULL /\ Cleared \in ServerType /\ Command(t)
      BY <1>1, <2>2
    <3>2. e \in BOOLEAN /\ ("time0" \notin Inputs => e)
      BY <2>2
    <3>3. t \in ServerType /\ Same(Cleared, t, {"timed"}) /\ t.timed = e
      BY <3>1, <3>2 DEF ServerType, Same, Fields
    <3> HIDE DEF t
    <3>4. /\ t.outs = Cleared.outs /\ t.disabled = Cleared.disabled /\ t.name = Cleared.name
          /\ t.plugged = Cleared.plugged /\ t.todo = Cleared.todo /\ t.phase = Cleared.phase
          /\ t.curr = Cleared.curr /\ t.home = Cleared.home /\ t.msgs = Cleared.msgs
          /\ t.alarm = Cleared.alarm /\ t.destroyed = Cleared.destroyed
      BY <3>3 DEF Same, Fields
    <3>5. Use(t) = Use(Cleared)
      BY <3>4 DEF Use
    <3>6. Consistent(t) /\ Refs(t, Use(t))
      BY <3>1, <3>2, <3>3, <3>4, <3>5 DEF Sound, Consistent, Lists, Names, Refs
    <3> QED
      BY <3>1, <3>4, <3>6, HeldByHandler DEF Command, UseInv
  <2> QED
    BY <1>3, <2>1, <2>2 DEF ConfigureMessage
<1> QED
  BY <1>2, <1>3

(* The timer hides what is shown: every message is on a listed output.     *)
LEMMA SigalrmHeld ==
  ASSUME Held(server), Sigalrm
  PROVE  Held(server)'
<1> DEFINE broken == \E o \in Structs : Listed(server.outs, o) /\ server.msgs[o] = "raw"
           msgs == [o \in Structs |->
                      IF Listed(server.outs, o) THEN "none" ELSE server.msgs[o]]
           s == [server EXCEPT !.alarm = FALSE, !.ub = broken, !.msgs = msgs]
<1>1. Step({"running"}, s)
  BY DEF Sigalrm
<1>2. /\ Sound(server) /\ server.curr # NULL /\ Use(server) = ToSet(server.outs)
      /\ server \in ServerType
  BY <1>1, HeldBefore DEF Sound, Consistent
<1>3. broken \in BOOLEAN /\ msgs \in [Structs -> {"none", "shown", "raw"}]
  BY <1>2 DEF ServerType
<1>4. \A p \in Structs : msgs[p] = "none"
  BY <1>2 DEF Sound, Refs, Listed
<1> HIDE DEF broken, msgs
<1>5. s \in ServerType /\ Same(server, s, {"alarm", "ub", "msgs"}) /\ s.msgs = msgs
  BY <1>2, <1>3 DEF ServerType, Same, Fields
<1> HIDE DEF s
<1>6. /\ s.outs = server.outs /\ s.disabled = server.disabled /\ s.name = server.name
      /\ s.plugged = server.plugged /\ s.todo = server.todo /\ s.timed = server.timed
      /\ s.curr = server.curr /\ s.home = server.home /\ s.phase = server.phase
      /\ s.destroyed = server.destroyed
  BY <1>5 DEF Same, Fields
<1>7. Use(s) = Use(server)
  BY <1>6 DEF Use
<1>8. Consistent(s) /\ Refs(s, Use(s))
  BY <1>2, <1>4, <1>5, <1>6, <1>7 DEF Sound, Consistent, Lists, Names, Refs
<1> QED
  BY <1>1, <1>2, <1>6, <1>8, HeldByHandler DEF UseInv

(* A view appears on the current output.                                   *)
LEMMA NewViewHeld ==
  ASSUME Held(server), NewView
  PROVE  Held(server)'
<1>1. PICK v \in Views : Step({"running"}, [server EXCEPT !.home[v] = server.curr])
  BY DEF NewView
<1> DEFINE s == [server EXCEPT !.home[v] = server.curr]
<1>2. Sound(server) /\ server.curr # NULL /\ server \in ServerType
  BY <1>1, HeldBefore DEF Sound, Consistent
<1>3. /\ s \in ServerType /\ Same(server, s, {"home"})
      /\ s.home = [server.home EXCEPT ![v] = server.curr]
  BY <1>2 DEF ServerType, Same, Fields
<1> HIDE DEF s
<1>4. /\ s.outs = server.outs /\ s.disabled = server.disabled /\ s.name = server.name
      /\ s.plugged = server.plugged /\ s.todo = server.todo /\ s.timed = server.timed
      /\ s.curr = server.curr /\ s.msgs = server.msgs /\ s.phase = server.phase
      /\ s.destroyed = server.destroyed /\ s.alarm = server.alarm
  BY <1>3 DEF Same, Fields
<1>5. Use(s) = Use(server)
  BY <1>4 DEF Use
<1>6. server.home \in [Views -> Structs \cup {NULL}]
  BY <1>2 DEF ServerType
<1>7. Refs(s, Use(s))
  BY <1>2, <1>3, <1>4, <1>5, <1>6 DEF Sound, Refs
<1>8. Consistent(s)
  BY <1>2, <1>3, <1>4, <1>5 DEF Sound, Consistent, Lists, Names
<1>9. Step({"running"}, s)
  BY <1>1 DEF s
<1> QED
  BY <1>2, <1>4, <1>7, <1>8, <1>9, HeldByHandler DEF UseInv

(* A monitor comes: its permanent output has it back, or it gets a new one.*)
LEMMA PlugHeld ==
  ASSUME "last_fails" \notin Inputs, Held(server), Plug
  PROVE  Held(server)'
<1>1. PICK m \in Monitors \ server.plugged, fails \in BOOLEAN :
        LET s == [server EXCEPT !.plugged = @ \cup {m}]
        IN  /\ MayFail(m, FALSE, fails)
            /\ \/ \E o \in Waiting(server, m) : Step({"running"}, Reinit(s, o, fails))
               \/ /\ Waiting(server, m) = {}
                  /\ \E o \in Structs :
                       /\ server.name[o] = NULL
                       /\ Step({"backend", "running"}, NewOutput(s, o, m, fails))
  BY DEF Plug
<1> DEFINE s == [server EXCEPT !.plugged = @ \cup {m}]
<1>2. \E phases \in {{"running"}, {"backend", "running"}} : \E t : Step(phases, t)
  BY <1>1
<1>3. /\ Sound(server) /\ server \in ServerType /\ Lists(server) /\ Names(server)
      /\ Refs(server, Use(server)) /\ ("time0" \notin Inputs => server.timed)
      /\ ToSet(server.todo) = {} /\ Use(server) = ToSet(server.outs)
  BY <1>2, HeldBefore DEF Sound, Consistent
<1>4. s \in ServerType /\ Same(server, s, {"plugged"}) /\ s.plugged = server.plugged \cup {m}
  BY <1>3 DEF ServerType, Same, Fields
<1>5. MayFail(m, FALSE, fails)
  BY <1>1
<1>6. \/ \E o \in Waiting(server, m) : Step({"running"}, Reinit(s, o, fails))
      \/ /\ Waiting(server, m) = {}
         /\ \E o \in Structs : /\ server.name[o] = NULL
                               /\ Step({"backend", "running"}, NewOutput(s, o, m, fails))
  BY <1>1
<1> HIDE DEF s
<1>7. /\ s.outs = server.outs /\ s.disabled = server.disabled /\ s.name = server.name
      /\ s.home = server.home /\ s.todo = server.todo /\ s.timed = server.timed
      /\ s.curr = server.curr /\ s.msgs = server.msgs /\ s.phase = server.phase
      /\ s.destroyed = server.destroyed /\ s.alarm = server.alarm
  BY <1>4 DEF Same, Fields
<1>8. Use(s) = Use(server)
  BY <1>7 DEF Use
<1>9. Sound(s)
  BY <1>3, <1>4, <1>7, <1>8 DEF Sound, Consistent, Lists, Names, Refs
<1>10. \A p \in Structs : s.name[p] = m => s.destroyed[p]
  BY <1>3, <1>7, OutputsAssumption DEF Names
<1>11. m \in Monitors /\ m \in s.plugged
  BY <1>4
<1>12. fails => ToSet(s.outs) # {} /\ \A o : ToSet(s.outs) # {o}
  BY <1>3, <1>5, <1>7, FailsElsewhere
<1>13. ASSUME NEW o \in Waiting(server, m), Step({"running"}, Reinit(s, o, fails))
       PROVE  Held(server)'
  <2> DEFINE t == Reinit(s, o, fails)
  <2>1. o \in Structs /\ o \in ToSet(server.outs) /\ server.name[o] = m
    BY <1>13 DEF Waiting, Listed
  <2>2. UseInv(t) /\ After(s, t)
    BY <1>3, <1>7, <1>8, <1>9, <1>10, <1>11, <1>12, <2>1, ReinitKeeps
  <2>3. server.curr # NULL
    BY <1>13, HeldBefore
  <2>4. t.curr # NULL /\ Step({"running"}, t)
    BY <1>7, <1>13, <2>2, <2>3 DEF After
  <2> HIDE DEF t
  <2> QED
    BY <2>2, <2>4, HeldByHandler
<1>14. ASSUME Waiting(server, m) = {}, NEW o \in Structs, server.name[o] = NULL,
              Step({"backend", "running"}, NewOutput(s, o, m, fails))
       PROVE  Held(server)'
  <2> DEFINE t == NewOutput(s, o, m, fails)
  <2>1. server.outs \in Seq(Structs)
    BY <1>3 DEF ServerType
  <2>2. \A p \in Use(s) : s.name[p] # m
    <3>1. ToSet(server.outs) \subseteq Structs
      BY <2>1, EmptyList
    <3> QED
      BY <1>3, <1>7, <1>8, <1>10, <1>14, <3>1 DEF Waiting, Listed
  <2>3. s.curr = NULL => ToSet(s.outs) = {}
    <3>1. s.curr = NULL => s.outs = <<>>
      BY <1>7 DEF Held, Begun
    <3> QED
      BY <1>7, <2>1, <3>1, EmptyList
  <2>4. UseInv(t) /\ t.curr # NULL
    BY <1>7, <1>9, <1>10, <1>11, <1>12, <1>14, <2>2, <2>3, NewOutputKeeps
  <2>5. Step({"backend", "running"}, t)
    BY <1>14
  <2> HIDE DEF t
  <2> QED
    BY <2>4, <2>5, HeldByHandler
<1> QED
  BY <1>6, <1>13, <1>14

(* A monitor goes.                                                         *)
LEMMA UnplugHeld ==
  ASSUME Held(server), Unplug
  PROVE  Held(server)'
<1>1. PICK m \in server.plugged, o \in Structs :
        /\ server.name[o] = m /\ ~server.destroyed[o]
        /\ Step({"running"}, output_destroy([server EXCEPT !.plugged = @ \ {m}], o))
  BY DEF Unplug
<1> DEFINE s == [server EXCEPT !.plugged = @ \ {m}]
           l == LoseMonitor(s, o)
           k == LoseMonitor(server, o)
           t == output_destroy(s, o)
<1>2. /\ Sound(server) /\ server \in ServerType /\ Names(server) /\ server.curr # NULL
      /\ ToSet(server.todo) = {}
  BY <1>1, HeldBefore DEF Sound, Consistent
<1>3. /\ Sound(k) /\ After(server, k) /\ k.name = server.name /\ k.plugged = server.plugged
      /\ k.destroyed[o] /\ \A p \in Structs \ {o} : k.destroyed[p] = server.destroyed[p]
  BY <1>1, <1>2, LoseKeeps
<1>4. s \in ServerType /\ Same(server, s, {"plugged"}) /\ s.plugged = server.plugged \ {m}
  BY <1>2 DEF ServerType, Same, Fields
<1>5. s.curr = server.curr /\ s.todo = server.todo /\ s.config = server.config
      /\ s.phase = server.phase /\ s.destroyed = server.destroyed
  BY <1>4 DEF Same, Fields
<1>6. l = [k EXCEPT !.plugged = server.plugged \ {m}]
  <2>1. DestroyScene(s, o) = [DestroyScene(server, o) EXCEPT !.plugged = server.plugged \ {m}]
    BY <1>2 DEF DestroyScene, ServerType
  <2> DEFINE d == DestroyScene(server, o)
             e == DestroyScene(s, o)
  <2>2. d \in ServerType
    BY <1>2 DEF DestroyScene, ServerType
  <2>3. /\ l = [e EXCEPT !.scene[o] = "null", !.destroyed[o] = TRUE, !.on[o] = FALSE]
        /\ k = [d EXCEPT !.scene[o] = "null", !.destroyed[o] = TRUE, !.on[o] = FALSE]
    BY <1>1, <1>5 DEF LoseMonitor
  <2> HIDE DEF d, e, l, k, s
  <2>4. e = [d EXCEPT !.plugged = server.plugged \ {m}]
    BY <2>1 DEF d, e
  <2> QED
    BY <2>2, <2>3, <2>4 DEF ServerType
<1> HIDE DEF s, l, k, t
<1>7. /\ l \in ServerType /\ Same(k, l, {"plugged"}) /\ l.plugged = server.plugged \ {m}
  BY <1>3, <1>6 DEF Sound, Consistent, ServerType, Same, Fields
<1>8. /\ l.outs = k.outs /\ l.disabled = k.disabled /\ l.name = k.name
      /\ l.home = k.home /\ l.todo = k.todo /\ l.timed = k.timed
      /\ l.curr = k.curr /\ l.msgs = k.msgs /\ l.phase = k.phase
      /\ l.destroyed = k.destroyed /\ l.alarm = k.alarm /\ l.config = k.config
  BY <1>7 DEF Same, Fields
<1>9. Use(l) = Use(k)
  BY <1>8 DEF Use
<1>10. Names(l)
  <2>1. \A p \in Structs : l.name[p] # NULL /\ ~l.destroyed[p] => l.name[p] \in l.plugged
    BY <1>1, <1>2, <1>3, <1>7, <1>8 DEF Names
  <2> QED
    BY <1>3, <1>8, <1>9, <2>1 DEF Sound, Consistent, Names
<1>11. Sound(l)
  BY <1>3, <1>7, <1>8, <1>9, <1>10 DEF Sound, Consistent, Lists, Refs
<1>12. After(s, l)
  <2>1. l.plugged = s.plugged
    BY <1>4, <1>7
  <2> QED
    BY <1>3, <1>5, <1>8, <2>1 DEF After
<1>13. UseInv(t) /\ After(s, t)
  BY <1>1, <1>2, <1>5, <1>11, <1>12, DestroyKeeps DEF t, l
<1>14. t.curr # NULL /\ Step({"running"}, t)
  BY <1>1, <1>2, <1>5, <1>13 DEF After, t, s
<1> QED
  BY <1>13, <1>14, HeldByHandler

LEMMA HeldInductive ==
  ASSUME "last_fails" \notin Inputs
  PROVE  Held(server) /\ [Next]_server => Held(server)'
<1> SUFFICES ASSUME Held(server), [Next]_server
             PROVE  Held(server)'
  OBVIOUS
<1>1. CASE UNCHANGED server
  BY <1>1
<1>2. CASE ReadConfig \/ StartSorting \/ Run
  BY <1>2, StartUpHeld
<1>3. CASE Resort
  BY <1>3, ResortHeld
<1>4. CASE CycleOutputs \/ SwitchOutput \/ ShowMessage \/ SetBackground
  BY <1>4, TalkHeld
<1>5. CASE ConfigureOutput \/ ConfigureMessage
  BY <1>5, CommandsHeld
<1>6. CASE Sigalrm
  BY <1>6, SigalrmHeld
<1>7. CASE NewView
  BY <1>7, NewViewHeld
<1>8. CASE Plug
  BY <1>8, PlugHeld
<1>9. CASE Unplug
  BY <1>9, UnplugHeld
<1> QED
  BY <1>1, <1>2, <1>3, <1>4, <1>5, <1>6, <1>7, <1>8, <1>9 DEF Next

LEMMA HeldAlways ==
  ASSUME "last_fails" \notin Inputs
  PROVE  Spec => []Held(server)
<1>1. Init => Held(server)
  BY HeldAtStart DEF Init
<1>2. Held(server) /\ [Next]_server => Held(server)'
  BY HeldInductive
<1> QED
  BY <1>1, <1>2, PTL DEF Spec

(* Every field has the shape the code gives it.                            *)
THEOREM TypeCorrect ==
  ASSUME "last_fails" \notin Inputs
  PROVE  Spec => []TypeOK
<1>1. Held(server) => TypeOK
  BY DEF Held, UseInv, Consistent, TypeOK
<1> QED
  BY <1>1, HeldAlways, PTL

(* Running, the program has a current output that is listed, every view is *)
(* on a listed output, no output is in both lists, and a name means one    *)
(* listed output, whatever is plugged, unplugged, configured, disabled and *)
(* enabled, provided that no mode is refused on the only output            *)
(* (output.c:102, output.c:180, keybinding.c:1107).                        *)
THEOREM UseIsListed ==
  ASSUME "last_fails" \notin Inputs
  PROVE  Spec => []OutputsInUse
<1>1. Held(server) => OutputsInUse
  <2> SUFFICES ASSUME Held(server) PROVE OutputsInUse
    OBVIOUS
  <2>1. /\ server.outs \in Seq(Structs) /\ Distinct(server.outs)
        /\ Lists(server) /\ Names(server)
    BY DEF Held, UseInv, Consistent, ServerType, Lists
  <2>2. \A i, j \in DOMAIN server.outs :
          server.name[server.outs[i]] = server.name[server.outs[j]] => i = j
    BY <2>1 DEF Names, Use, ToSet, Distinct
  <2>3. \A o \in Structs : ~(Listed(server.outs, o) /\ Listed(server.disabled, o))
    BY <2>1 DEF Lists, Use, Listed
  <2>4. ASSUME Alive
        PROVE  /\ Listed(server.outs, server.curr)
               /\ \A v \in Views :
                    server.home[v] # NULL => Listed(server.outs, server.home[v])
    <3>1. server.phase = "running" /\ server.curr # NULL /\ Refs(server, Use(server))
      BY <2>4 DEF Alive, Held, Begun, UseInv
    <3>2. Use(server) = ToSet(server.outs)
      <4>1. server.todo = <<>>
        BY <2>1, <3>1 DEF Lists
      <4> QED
        BY <4>1, EmptySeq, LenProperties DEF Use, ToSet
    <3> QED
      BY <3>1, <3>2 DEF Refs, Listed
  <2> QED
    BY <2>2, <2>3, <2>4 DEF OutputsInUse
<1> QED
  BY <1>1, HeldAlways, PTL

(* No message stays on the screen: while the program runs, every message   *)
(* is on a listed output and the timer that will hide it is set, provided  *)
(* that display_time is not 0 (message.c:111, message.c:236).              *)
THEOREM MessagesAreHidden ==
  ASSUME "last_fails" \notin Inputs, "time0" \notin Inputs
  PROVE  Spec => []MessagesTimed
<1>1. Held(server) => MessagesTimed
  <2> SUFFICES ASSUME Held(server), Alive, NEW o \in Structs, server.msgs[o] # "none"
               PROVE  Listed(server.outs, o) /\ server.alarm
    BY DEF MessagesTimed
  <2>1. server.phase = "running" /\ Refs(server, Use(server)) /\ server.todo = <<>>
    BY DEF Alive, Held, UseInv, Consistent, Lists
  <2>2. Use(server) = ToSet(server.outs)
    BY <2>1, EmptySeq, LenProperties DEF Use, ToSet
  <2> QED
    BY <2>1, <2>2 DEF Refs, Listed
<1> QED
  BY <1>1, HeldAlways, PTL

-----------------------------------------------------------------------------
(* A permanent output keeps its place.                                     *)

(* An output in use has the priority that is stored for its name, if any:  *)
(* when its configuration is applied again, its place does not change.     *)
Fits(s, p) == s.config[s.name[p]].prio \in {-1, s.prio[p]}

Ranked(s) == \A p \in Use(s) : Fits(s, p)

(* A handler for one output may only break this for that output.           *)
LEMMA RankedElsewhere ==
  ASSUME NEW s, Use(s) \subseteq Structs, NEW t, NEW o, Keeps(s, t, o),
         \A p \in Use(s) \ {o} : Fits(s, p),
         o \in Use(t) => Fits(t, o)
  PROVE  Ranked(t)
<1> SUFFICES ASSUME NEW p \in Use(t), p # o PROVE Fits(t, p)
  BY DEF Ranked
<1>1. p \in Use(s)
  BY DEF Keeps, Use, Listed
<1> QED
  BY <1>1 DEF Keeps, Fits

LEMMA RankedQuietly ==
  ASSUME NEW s, NEW t, Quiet(s, t), Ranked(s)
  PROVE  Ranked(t)
BY DEF Quiet, Ranked, Fits, Use

(* output_destroy takes an output out of the list, unless it is permanent. *)
LEMMA DestroyWhole ==
  ASSUME NEW s, NEW o \in Structs, AllSorted(s)
  PROVE  LET t == output_destroy(s, o)
         IN  IF s.role[o] = "permanent"
             THEN /\ t.outs = s.outs /\ t.name = s.name /\ t.prio = s.prio
                  /\ t.home = s.home /\ t.curr = s.curr
             ELSE ~Listed(t.outs, o)
<1> DEFINE l == LoseMonitor(s, o)
           c == output_clear(l, o)
           f == Free(c, o)
           k == [l EXCEPT !.scene[o] = "live"]
           e == IF l.role[o] = "permanent" THEN k ELSE f
           t == StopWithoutOutputs(e)
<1>1. output_destroy(s, o) = t
  BY DEF output_destroy
<1>2. IsServer(s)
  BY DEF AllSorted, Shape
<1>3. /\ IsServer(l) /\ l.role = s.role /\ l.home = s.home /\ l.curr = s.curr
      /\ l.outs = s.outs /\ l.name = s.name /\ l.prio = s.prio
  BY <1>2 DEF LoseMonitor, DestroyScene, IsServer, Fields
<1>4. AllSorted(l)
  <2>1. Quiet(s, l)
    BY <1>2, QuietScene
  <2> QED
    BY <2>1, QuietKeeps
<1> HIDE DEF l
<1>5. /\ IsServer(k) /\ k.home = s.home /\ k.curr = s.curr
      /\ k.outs = s.outs /\ k.name = s.name /\ k.prio = s.prio
  BY <1>3 DEF IsServer, Fields
<1>6. IsServer(f) /\ ~Listed(f.outs, o)
  <2>1. Detached(l, c, o)
    BY <1>4, SortedIsSortedBut, ClearDetaches
  <2> HIDE DEF c
  <2>2. IsServer(f) /\ f.outs = c.outs
    BY <2>1 DEF Free, Detached, AllSorted, Shape, IsServer, Fields
  <2> QED
    BY <2>1, <2>2 DEF Detached
<1> HIDE DEF k, f
<1>7. IsServer(e)
  BY <1>5, <1>6
<1>8. /\ t.outs = e.outs /\ t.name = e.name /\ t.prio = e.prio
      /\ t.home = e.home /\ t.curr = e.curr
  <2> HIDE DEF e
  <2> QED
    BY <1>7 DEF StopWithoutOutputs, IsServer, Fields
<1> HIDE DEF t
<1> QED
  BY <1>1, <1>3, <1>5, <1>6, <1>8

(* However output_apply_config leaves the output, when it is still listed  *)
(* it has the priority of the configuration.                               *)
LEMMA ApplyFits ==
  ASSUME NEW s, s \in ServerType, AllSorted(s), NEW o \in Structs, s.name[o] # NULL,
         NEW c \in Config, NEW fails
  PROVE  LET t == output_apply_config(s, o, c, fails)
         IN  Listed(t.outs, o) => t.name[o] = s.name[o] /\ c.prio \in {-1, t.prio[o]}
<1> DEFINE r == SetRole(s, o, c)
           p == SetPrio(r, o, c)
           q == Ub(p, c.pos /\ p.scene[o] = "dangling")
           changed == p.prio[o] # s.prio[o]
           e == IF c.status = "disable" /\ Len(p.outs) > 1 THEN Disable(q, o)
                ELSE Enable(q, o, changed)
           b == Background(e, o)
           t == IF c.role = "peripheral" /\ s.destroyed[o] THEN output_destroy(r, o)
                ELSE IF ModeFails(p, o, c, fails) THEN Disable(p, o) ELSE b
<1>1. output_apply_config(s, o, c, fails) = t
  BY DEF output_apply_config
<1>2. IsServer(s) /\ s.role \in [Structs -> {"permanent", "peripheral"}]
      /\ s.prio \in [Structs -> Prios \cup {-1}]
  BY DEF AllSorted, Shape, ServerType
<1>3. IsServer(r) /\ r.prio = s.prio /\ r.name = s.name
      /\ (c.role = "peripheral" => r.role[o] = "peripheral")
  BY <1>2 DEF SetRole, IsServer, Fields
<1>4. AllSorted(r)
  BY <1>2, QuietRole, QuietKeeps
<1> HIDE DEF r
<1>5. /\ SortedBut(p, o) /\ p.name = s.name
      /\ p.prio[o] = s.prio[o] => AllSorted(p)
  <2>1. c.prio \in Int
    BY ConfigurePrio
  <2> HIDE DEF p
  <2> QED
    BY <1>3, <1>4, <2>1, PrioMoves DEF p
<1>6. c.prio \in {-1, p.prio[o]}
  BY <1>2, <1>3 DEF SetPrio, IsServer, Fields
<1> HIDE DEF p
<1>7. Quiet(p, q)
  BY <1>5, QuietUb DEF SortedBut, Shape
<1> HIDE DEF q
<1>8. SortedBut(q, o) /\ q.name = s.name /\ q.prio = p.prio /\ (~changed => AllSorted(q))
  BY <1>5, <1>7, QuietKeeps DEF Quiet
<1> HIDE DEF changed
<1>9. ~Listed(Disable(p, o).outs, o) /\ ~Listed(Disable(q, o).outs, o)
      /\ IsServer(Disable(q, o))
  BY <1>5, <1>8, ClearDetaches DEF Detached, AllSorted, Shape
<1>10. LET n == Enable(q, o, changed)
       IN  IsServer(n) /\ n.name = q.name /\ n.prio = q.prio
  <2>1. IsServer(q)
    BY <1>8 DEF SortedBut, Shape
  <2>2. LET u == Unlink(q, o) IN IsServer(u) /\ u.name = q.name /\ u.prio = q.prio
    BY <2>1 DEF Unlink, IsServer, Fields
  <2>3. LET u == output_insert(Unlink(q, o), o)
        IN  IsServer(u) /\ u.name = q.name /\ u.prio = q.prio
    <3> DEFINE u == Unlink(q, o)
    <3> HIDE DEF u
    <3>1. IsServer(u) /\ u.name = q.name /\ u.prio = q.prio
      BY <2>2 DEF u
    <3>2. LET v == output_insert(u, o)
          IN  IsServer(v) /\ v.name = u.name /\ v.prio = u.prio
      BY <3>1 DEF output_insert, IsServer, Fields
    <3> QED
      BY <3>1, <3>2 DEF u
  <2> DEFINE v == IF changed THEN output_insert(Unlink(q, o), o) ELSE q
  <2>4. IsServer(v) /\ v.name = q.name /\ v.prio = q.prio
    BY <2>1, <2>3
  <2>5. Enable(q, o, changed) = [v EXCEPT !.on[o] = TRUE]
    BY DEF Enable
  <2> HIDE DEF v
  <2> QED
    BY <2>4, <2>5 DEF IsServer, Fields
<1>11. Quiet(e, b)
  <2>1. IsServer(e)
    BY <1>9, <1>10
  <2> HIDE DEF e
  <2> QED
    BY <2>1, QuietScene
<1>12. Listed(b.outs, o) => b.name[o] = s.name[o] /\ c.prio \in {-1, b.prio[o]}
  <2>1. b.outs = e.outs /\ b.name = e.name /\ b.prio = e.prio
    BY <1>11 DEF Quiet
  <2> HIDE DEF b
  <2> QED
    BY <1>6, <1>8, <1>9, <1>10, <2>1
<1>13. c.role = "peripheral" => ~Listed(output_destroy(r, o).outs, o)
  BY <1>3, <1>4, DestroyWhole
<1> HIDE DEF b
<1> QED
  BY <1>1, <1>9, <1>12, <1>13

LEMMA ConfigureFits ==
  ASSUME NEW s, s \in ServerType, AllSorted(s), NEW o \in Structs, s.name[o] # NULL,
         NEW fails, o \notin ToSet(s.todo),
         \A p \in Use(s) \ {o} : Fits(s, p)
  PROVE  Ranked(output_configure(s, o, fails))
<1> DEFINE c == s.config[s.name[o]]
           t == output_configure(s, o, fails)
<1>1. s.name[o] \in Monitors /\ c \in Config
  BY DEF ServerType
<1>2. t = output_apply_config(s, o, c, fails)
  BY DEF output_configure
<1>3. Keeps(s, t, o)
  BY ConfigureKeepsOrder
<1> HIDE DEF t
<1>4. Listed(t.outs, o) => t.name[o] = s.name[o] /\ c.prio \in {-1, t.prio[o]}
  <2> HIDE DEF c
  <2> QED
    BY <1>1, <1>2, ApplyFits
<1>5. o \in Use(t) => Fits(t, o)
  BY <1>3, <1>4 DEF Use, Keeps, Listed, Fits
<1>6. Use(s) \subseteq Structs
  BY EmptyList DEF Use, ServerType
<1> HIDE DEF c
<1>7. Ranked(t)
  BY <1>3, <1>5, <1>6, RankedElsewhere
<1> QED
  BY <1>7 DEF t

(* A name that no output has.                                              *)
LEMMA NamedNone ==
  ASSUME NEW s, NEW p \in Seq(Structs), NEW q \in Seq(Structs), NEW m,
         Named(s, p \o q, m) = NULL
  PROVE  \A o \in ToSet(p) : s.name[o] # m
<1> DEFINE seq == p \o q
           found == {i \in DOMAIN seq : s.name[seq[i]] = m}
           i == CHOOSE i \in found : \A j \in found : i <= j
<1>1. /\ seq \in Seq(Structs) /\ Len(p) \in Nat /\ Len(q) \in Nat
      /\ DOMAIN p = 1 .. Len(p) /\ DOMAIN seq = 1 .. Len(p) + Len(q)
      /\ \A k \in DOMAIN p : seq[k] = p[k]
  BY ConcatProperties, LenProperties
<1>2. \A k \in DOMAIN p : k \in DOMAIN seq
  BY <1>1
<1>3. \A k \in DOMAIN p : s.name[p[k]] = m => k \in found
  BY <1>1, <1>2
<1>4. found = {}
  <2>1. ASSUME found # {} PROVE FALSE
    <3>1. found \in SUBSET Nat
      BY <1>1
    <3>2. i \in found
      <4> HIDE DEF found
      <4> QED
        BY <2>1, <3>1, LeastNat
    <3>3. i \in DOMAIN seq
      BY <3>2
    <3>4. Named(s, seq, m) = seq[i]
      BY <2>1 DEF Named
    <3> HIDE DEF i, seq, found
    <3>5. seq[i] \in Structs
      BY <1>1, <3>3, ElementOfSeq, LenProperties
    <3> QED
      BY <3>4, <3>5, OutputsAssumption DEF seq
  <2> QED
    BY <2>1
<1> QED
  BY <1>3, <1>4 DEF ToSet

LEMMA CommandRanks ==
  ASSUME NEW s, Sound(s), AllSorted(s), Ranked(s), s.todo = <<>>,
         NEW m \in Monitors, NEW c \in Config, NEW fails
  PROVE  Ranked(keybinding_configure_output(s, m, c, fails))
<1> DEFINE k == merge_config(c, s.config[m])
           t == [s EXCEPT !.config[m] = k]
           o == Named(s, s.outs \o s.disabled, m)
<1>1. /\ s \in ServerType /\ s.config[m] \in Config
      /\ s.outs \in Seq(Structs) /\ s.disabled \in Seq(Structs)
      /\ s.name \in [Structs -> Monitors \cup {NULL}] /\ s.config \in [Monitors -> Config]
      /\ ToSet(s.outs) \subseteq Structs
  BY EmptyList DEF Sound, Consistent, ServerType
<1>2. k \in Config
  BY <1>1 DEF merge_config, Config
<1>3. keybinding_configure_output(s, m, c, fails)
        = IF o = NULL THEN t ELSE output_configure(t, o, fails)
  BY DEF keybinding_configure_output
<1> HIDE DEF k
<1>4. t \in ServerType /\ Same(s, t, {"config"}) /\ t.config = [s.config EXCEPT ![m] = k]
  BY <1>1, <1>2 DEF ServerType, Same, Fields
<1>5. IsServer(t)
  BY DEF AllSorted, Shape, IsServer, Fields
<1> HIDE DEF t
<1>6. /\ t.outs = s.outs /\ t.todo = s.todo /\ t.name = s.name /\ t.disabled = s.disabled
      /\ t.prio = s.prio
  BY <1>4 DEF Same, Fields
<1>7. AllSorted(t)
  BY <1>4, <1>5, <1>6 DEF AllSorted, Shape, ServerType
<1>8. ToSet(s.todo) = {} /\ Use(s) = ToSet(s.outs) /\ Use(t) = ToSet(s.outs)
  <2>1. ToSet(s.todo) = {}
    BY EmptySeq, LenProperties DEF ToSet
  <2> QED
    BY <1>6, <2>1 DEF Use
<1>9. \A p \in Use(t) : t.name[p] # m => Fits(t, p)
  <2> SUFFICES ASSUME NEW p \in Use(t), t.name[p] # m PROVE Fits(t, p)
    OBVIOUS
  <2>1. p \in Structs /\ Fits(s, p) /\ s.name[p] # NULL
    BY <1>1, <1>8 DEF Ranked, Sound, Consistent, Lists
  <2>2. t.config[s.name[p]] = s.config[s.name[p]]
    BY <1>1, <1>4, <1>6, <2>1
  <2> QED
    BY <1>6, <2>1, <2>2 DEF Fits
<1>10. CASE o = NULL
  <2>1. \A p \in Use(t) : t.name[p] # m
    BY <1>1, <1>6, <1>8, <1>10, NamedNone
  <2>2. Ranked(t)
    BY <1>9, <2>1 DEF Ranked
  <2> QED
    BY <1>3, <1>10, <2>2
<1>11. CASE o # NULL
  <2>1. s.outs \o s.disabled \in Seq(Structs)
    BY <1>1, ConcatProperties
  <2>2. o \in Structs /\ s.name[o] = m /\ m # NULL
    BY <1>11, <2>1, NamedHasName, OutputsAssumption, Zenon
  <2>3. o \in ToSet(s.outs) \/ \A p \in ToSet(s.outs) : s.name[p] # m
    BY <1>1, <1>11, NamedListedFirst
  <2> HIDE DEF o
  <2>4. \A p \in Use(t) \ {o} : t.name[p] # m
    BY <1>6, <1>8, <2>2, <2>3 DEF Sound, Consistent, Names
  <2>5. Ranked(output_configure(t, o, fails))
    BY <1>4, <1>6, <1>7, <1>8, <1>9, <2>2, <2>4, ConfigureFits
  <2> QED
    BY <1>3, <1>11, <2>5
<1> QED
  BY <1>10, <1>11

LEMMA ReinitRanks ==
  ASSUME NEW s, s \in ServerType, AllSorted(s), Ranked(s), NEW o \in Structs,
         s.name[o] # NULL, o \notin ToSet(s.todo), NEW fails
  PROVE  Ranked(Reinit(s, o, fails))
<1> DEFINE d == DestroyScene(s, o)
           r == [d EXCEPT !.scene[o] = "live", !.destroyed[o] = FALSE, !.on[o] = TRUE]
<1>1. Reinit(s, o, fails) = output_configure(r, o, fails)
  BY DEF Reinit
<1>2. d \in ServerType
  BY DEF DestroyScene, ServerType
<1>3. Quiet(s, d)
  BY QuietScene DEF AllSorted, Shape
<1> HIDE DEF d
<1>4. r \in ServerType
  BY <1>2 DEF ServerType
<1>5. Quiet(s, r)
  BY <1>3 DEF Quiet, IsServer, Fields
<1> HIDE DEF r
<1>6. AllSorted(r) /\ Ranked(r) /\ r.name = s.name /\ r.todo = s.todo
  BY <1>5, QuietKeeps, RankedQuietly DEF Quiet
<1>7. Ranked(output_configure(r, o, fails))
  BY <1>4, <1>6, ConfigureFits DEF Ranked
<1> QED
  BY <1>1, <1>7

LEMMA NewOutputRanks ==
  ASSUME NEW s, s \in ServerType, AllSorted(s), Ranked(s), NEW o \in Structs,
         s.name[o] = NULL, o \notin ToSet(s.todo), NEW m \in Monitors, NEW fails
  PROVE  Ranked(NewOutput(s, o, m, fails))
<1> DEFINE n == Fresh(s, o, m)
           i == output_insert(n, o)
           d == output_configure(i, o, fails)
           t == [d EXCEPT !.ws[o] = TRUE, !.curr = IF @ = NULL THEN o ELSE @]
<1>1. NewOutput(s, o, m, fails) = t
  BY DEF NewOutput, Fresh
<1>2. Use(s) \subseteq Structs /\ m # NULL
  BY EmptyList, OutputsAssumption DEF Use, ServerType
<1>3. n \in ServerType
  <2> DEFINE a == [s EXCEPT !.name[o] = m, !.prio[o] = -1, !.role[o] = "peripheral",
                            !.destroyed[o] = FALSE]
             b == [a EXCEPT !.scene[o] = "live", !.on[o] = TRUE,
                            !.bg[o] = FALSE, !.ws[o] = FALSE, !.msgs[o] = "none"]
  <2>1. a \in ServerType
    BY DEF ServerType
  <2>2. n = b
    BY DEF ServerType, Fresh
  <2> HIDE DEF a, n
  <2>3. b \in ServerType
    BY <2>1 DEF ServerType
  <2> QED
    BY <2>2, <2>3
<1>4. AllSorted(i) /\ Keeps(s, i, o) /\ i.name[o] = m
  BY FreshListed
<1> HIDE DEF n, d, t
<1>5. i \in ServerType
  <2>1. i.outs \in Seq(Structs)
    BY <1>4 DEF AllSorted, Shape
  <2>2. i = [n EXCEPT !.outs = i.outs]
    BY <1>3 DEF output_insert, ServerType
  <2> HIDE DEF i
  <2> QED
    BY <1>3, <2>1, <2>2 DEF ServerType
<1> HIDE DEF i
<1>6. o \notin ToSet(i.todo)
  BY <1>4 DEF Keeps
<1>7. \A p \in Use(i) \ {o} : Fits(i, p)
  <2> SUFFICES ASSUME NEW p \in Use(i), p # o PROVE Fits(i, p)
    OBVIOUS
  <2>1. p \in Use(s)
    BY <1>4 DEF Keeps, Use, Listed
  <2> QED
    BY <1>2, <1>4, <2>1 DEF Keeps, Ranked, Fits
<1>8. Ranked(d)
  BY <1>2, <1>4, <1>5, <1>6, <1>7, ConfigureFits DEF d
<1>9. Quiet(d, t)
  <2>1. IsServer(d)
    BY <1>2, <1>4, ConfigureKeepsOrder DEF d, AllSorted, Shape
  <2> QED
    BY <2>1 DEF t, Quiet, IsServer, Fields
<1> QED
  BY <1>1, <1>8, <1>9, RankedQuietly

LEMMA RankedAtStart ==
  ASSUME NEW s, s = Start \/ s = [Start EXCEPT !.ub = TRUE]
  PROVE  Ranked(s)
<1>1. s.outs = <<>> /\ s.todo = <<>>
  BY DEF Start
<1>2. ToSet(<<>>) = {}
  BY EmptySeq, LenProperties DEF ToSet
<1> QED
  BY <1>1, <1>2 DEF Ranked, Use

LEMMA RankedAfterStep ==
  ASSUME NEW phases, NEW s, Step(phases, s), Ranked(s)
  PROVE  Ranked(server)'
BY RankedAtStart DEF Step

LEMMA ResortRanks ==
  ASSUME SortInv(server), Held(server), Ranked(server), Resort
  PROVE  Ranked(server)'
<1> DEFINE o == Head(server.todo)
           s == [server EXCEPT !.todo = Tail(@)]
           i == output_insert(s, o)
<1>1. PICK fails \in BOOLEAN :
        server.todo # <<>> /\ Step({"sorting"}, output_configure(i, o, fails))
  BY DEF Resort
<1> DEFINE t == output_configure(i, o, fails)
<1>2. Sound(server) /\ server \in ServerType /\ AllSorted(server)
  BY <1>1, HeldBefore DEF Sound, Consistent, SortInv
<1>3. /\ o \in Structs /\ o \in ToSet(server.todo)
      /\ Tail(server.todo) \in Seq(Structs)
      /\ ToSet(Tail(server.todo)) = ToSet(server.todo) \ {o}
  <2>1. server.todo \in Seq(Structs) /\ Distinct(server.todo)
    BY <1>2 DEF ServerType, Sound, Consistent, Lists
  <2> QED
    BY <1>1, <2>1, Taken
<1>4. s \in ServerType
  BY <1>2, <1>3 DEF ServerType
<1> HIDE DEF o
<1>5. /\ IsServer(s) /\ s.outs = server.outs /\ s.disabled = server.disabled
      /\ s.name = server.name /\ s.prio = server.prio /\ s.config = server.config
      /\ s.phase = server.phase /\ s.todo = Tail(server.todo)
  BY <1>2 DEF AllSorted, Shape, IsServer, Fields
<1> HIDE DEF s
<1>6. AllSorted(s) /\ s.name[o] # NULL /\ ~Listed(s.outs, o)
  BY <1>2, <1>3, <1>5 DEF AllSorted, Shape, SortInv, Listed
<1>7. AllSorted(i) /\ Keeps(s, i, o)
  BY <1>3, <1>6, InsertSorts
<1>8. i \in ServerType /\ i.name = s.name
  <2>1. i.outs \in Seq(Structs)
    BY <1>7 DEF AllSorted, Shape
  <2>2. i = [s EXCEPT !.outs = i.outs]
    BY <1>4 DEF output_insert, ServerType
  <2> HIDE DEF i
  <2> QED
    BY <1>4, <2>1, <2>2 DEF ServerType
<1> HIDE DEF i, t
<1>9. o \notin ToSet(i.todo)
  BY <1>3, <1>5, <1>7 DEF Keeps
<1>10. \A p \in Use(i) \ {o} : Fits(i, p)
  <2> SUFFICES ASSUME NEW p \in Use(i), p # o PROVE Fits(i, p)
    OBVIOUS
  <2>1. p \in Use(server)
    BY <1>3, <1>5, <1>7 DEF Keeps, Use, Listed
  <2>2. p \in Structs
    BY <1>2, <2>1, EmptyList DEF Use, ServerType
  <2> QED
    BY <1>5, <1>7, <2>1, <2>2 DEF Keeps, Ranked, Fits
<1>11. Ranked(t)
  BY <1>3, <1>6, <1>7, <1>8, <1>9, <1>10, ConfigureFits DEF t
<1> QED
  BY <1>1, <1>11, RankedAfterStep DEF t

LEMMA RankedInductive ==
  SortInv(server) /\ Held(server) /\ Ranked(server) /\ [Next]_server => Ranked(server)'
<1> SUFFICES ASSUME SortInv(server), Held(server), Ranked(server), [Next]_server
             PROVE  Ranked(server)'
  OBVIOUS
<1>1. IsServer(server) /\ AllSorted(server)
  BY DEF SortInv, AllSorted, Shape
<1>2. Quiet(server, Cleared) /\ Quiet(server, server) /\ IsServer(Cleared)
  BY <1>1, QuietMessages DEF Cleared, Quiet
<1>3. Ranked(Cleared) /\ AllSorted(Cleared)
  BY <1>1, <1>2, RankedQuietly, QuietKeeps
<1>4. ASSUME NEW phases, NEW s, Step(phases, s), Quiet(Cleared, s) \/ Quiet(server, s)
      PROVE  Ranked(server)'
  BY <1>3, <1>4, RankedQuietly, RankedAfterStep
<1>5. CASE ReadConfig
  <2> DEFINE s == [server EXCEPT !.phase = "config"]
  <2>1. Step({"backend"}, s)
    BY <1>5 DEF ReadConfig
  <2>2. /\ s.outs = server.outs /\ s.todo = server.todo
        /\ s.name = server.name /\ s.prio = server.prio /\ s.config = server.config
    BY <1>1 DEF IsServer, Fields
  <2> HIDE DEF s
  <2>3. Ranked(s)
    BY <2>2 DEF Ranked, Fits, Use
  <2> QED
    BY <2>1, <2>3, RankedAfterStep
<1>6. CASE StartSorting
  <2> DEFINE s == [server EXCEPT !.phase = "sorting", !.todo = server.outs, !.outs = <<>>]
  <2>1. Step({"config"}, s)
    BY <1>6 DEF StartSorting
  <2>2. /\ s.outs = <<>> /\ s.todo = server.outs
        /\ s.name = server.name /\ s.prio = server.prio /\ s.config = server.config
    BY <1>1 DEF IsServer, Fields
  <2>3. ToSet(<<>>) = {}
    BY EmptySeq, LenProperties DEF ToSet
  <2> HIDE DEF s
  <2>4. Ranked(s)
    BY <2>2, <2>3 DEF Ranked, Fits, Use
  <2> QED
    BY <2>1, <2>4, RankedAfterStep
<1>7. CASE Resort
  BY <1>7, ResortRanks
<1>8. CASE Run
  <2> DEFINE s == [server EXCEPT !.curr = Head(server.outs), !.phase = "running"]
             u == Ub(server, TRUE)
             e == IF server.outs = <<>> THEN u ELSE s
  <2>1. Step({"sorting"}, e)
    BY <1>8 DEF Run
  <2>2. /\ s.outs = server.outs /\ s.todo = server.todo
        /\ s.name = server.name /\ s.prio = server.prio /\ s.config = server.config
    BY <1>1 DEF IsServer, Fields
  <2>3. Ranked(u)
    BY <1>1, QuietUb, RankedQuietly
  <2> HIDE DEF s, u
  <2>4. Ranked(e)
    BY <2>2, <2>3 DEF Ranked, Fits, Use
  <2> HIDE DEF e
  <2> QED
    BY <2>1, <2>4, RankedAfterStep
<1>9. CASE ConfigureOutput
  <2>1. PICK m \in Monitors, c \in Keywords, fails \in BOOLEAN :
          Command(keybinding_configure_output(Cleared, m, c, fails))
    BY <1>9 DEF ConfigureOutput
  <2> DEFINE t == keybinding_configure_output(Cleared, m, c, fails)
  <2>2. Step({"config", "running"}, t)
    BY <2>1 DEF Command
  <2>3. Sound(server) /\ server.todo = <<>>
    BY <2>2, HeldBefore
  <2>4. Sound(Cleared) /\ Cleared.todo = <<>>
    BY <2>3, ClearedKeeps
  <2>5. c \in Config
    BY <2>1, KeywordsAreConfigs
  <2>6. Ranked(t)
    BY <1>3, <2>4, <2>5, CommandRanks
  <2> HIDE DEF t
  <2> QED
    BY <2>2, <2>6, RankedAfterStep
<1>10. CASE CycleOutputs \/ SwitchOutput
  BY <1>2, <1>4, <1>10, QuietCycle DEF CycleOutputs, SwitchOutput, Command
<1>11. CASE ShowMessage
  BY <1>1, <1>2, <1>4, <1>11, QuietMessages DEF ShowMessage, Command
<1>12. CASE ConfigureMessage
  <2>1. ASSUME NEW e
        PROVE  /\ Quiet(Cleared, [Cleared EXCEPT !.messages = e])
               /\ Quiet(Cleared, [Cleared EXCEPT !.timed = e])
    BY <1>2 DEF Quiet, IsServer, Fields
  <2> QED
    BY <1>4, <1>12, <2>1 DEF ConfigureMessage, Command
<1>13. CASE SetBackground
  BY <1>2, <1>4, <1>13, QuietUb DEF SetBackground, keybinding_set_background, Command
<1>14. CASE Sigalrm
  <2> DEFINE s == [server EXCEPT
                     !.alarm = FALSE,
                     !.ub = \E o \in Structs : Listed(server.outs, o) /\ server.msgs[o] = "raw",
                     !.msgs = [o \in Structs |->
                                 IF Listed(server.outs, o) THEN "none" ELSE server.msgs[o]]]
  <2>1. Step({"running"}, s)
    BY <1>14 DEF Sigalrm
  <2>2. Quiet(server, s)
    BY <1>1 DEF Quiet, IsServer, Fields
  <2> HIDE DEF s
  <2> QED
    BY <1>4, <2>1, <2>2
<1>15. CASE NewView
  <2>1. PICK v \in Views : Step({"running"}, [server EXCEPT !.home[v] = server.curr])
    BY <1>15 DEF NewView
  <2>2. Quiet(server, [server EXCEPT !.home[v] = server.curr])
    BY <1>1 DEF Quiet, IsServer, Fields
  <2> QED
    BY <1>4, <2>1, <2>2
<1>16. ASSUME NEW x \in SUBSET Monitors, NEW phases, NEW t, Step(phases, t),
              "stopped" \notin phases, "sorting" \notin phases
       PROVE  LET s == [server EXCEPT !.plugged = x]
              IN  /\ s \in ServerType /\ AllSorted(s) /\ Ranked(s)
                  /\ s.outs = server.outs /\ s.todo = server.todo
                  /\ s.name = server.name /\ s.prio = server.prio
                  /\ ToSet(s.todo) = {} /\ Use(s) \subseteq Structs
  <2> DEFINE s == [server EXCEPT !.plugged = x]
  <2>1. server \in ServerType /\ ToSet(server.todo) = {}
    BY <1>16, HeldBefore DEF Sound, Consistent
  <2>2. s \in ServerType
    BY <2>1 DEF ServerType
  <2>3. /\ s.outs = server.outs /\ s.todo = server.todo /\ s.disabled = server.disabled
        /\ s.name = server.name /\ s.prio = server.prio /\ s.config = server.config
        /\ s.phase = server.phase /\ IsServer(s)
    BY <1>1 DEF IsServer, Fields
  <2> HIDE DEF s
  <2>4. AllSorted(s) /\ Ranked(s)
    BY <1>1, <2>3 DEF AllSorted, Shape, Ranked, Fits, Use
  <2>5. Use(s) \subseteq Structs
    BY <2>2, EmptyList DEF Use, ServerType
  <2> QED
    BY <2>1, <2>2, <2>3, <2>4, <2>5 DEF s
<1>17. CASE Plug
  <2>1. PICK m \in Monitors \ server.plugged, fails \in BOOLEAN :
          LET s == [server EXCEPT !.plugged = @ \cup {m}]
          IN  \/ \E o \in Waiting(server, m) :
                   Step({"running"}, Reinit(s, o, fails))
              \/ \E o \in Structs :
                   /\ server.name[o] = NULL
                   /\ Step({"backend", "running"}, NewOutput(s, o, m, fails))
    BY <1>17 DEF Plug
  <2> DEFINE s == [server EXCEPT !.plugged = @ \cup {m}]
  <2>2. PICK o \in Structs :
          \/ server.name[o] = m /\ Step({"running"}, Reinit(s, o, fails))
          \/ server.name[o] = NULL /\ Step({"backend", "running"}, NewOutput(s, o, m, fails))
    BY <2>1 DEF Waiting
  <2>3. server.plugged \cup {m} \in SUBSET Monitors /\ m \in Monitors /\ m # NULL
    BY OutputsAssumption DEF Held, UseInv, Consistent, ServerType
  <2> DEFINE x == server.plugged \cup {m}
  <2>4. s = [server EXCEPT !.plugged = x]
    OBVIOUS
  <2> HIDE DEF s, x
  <2>5. ASSUME NEW phases, NEW t, Step(phases, t), "stopped" \notin phases, "sorting" \notin phases
        PROVE  /\ s \in ServerType /\ AllSorted(s) /\ Ranked(s) /\ s.name = server.name
               /\ o \notin ToSet(s.todo)
    BY <1>16, <2>3, <2>4, <2>5 DEF x
  <2>6. CASE server.name[o] = m /\ Step({"running"}, Reinit(s, o, fails))
    <3>1. Ranked(Reinit(s, o, fails))
      BY <2>3, <2>5, <2>6, ReinitRanks
    <3> QED
      BY <2>6, <3>1, RankedAfterStep
  <2>7. CASE /\ server.name[o] = NULL
             /\ Step({"backend", "running"}, NewOutput(s, o, m, fails))
    <3>1. Ranked(NewOutput(s, o, m, fails))
      BY <2>3, <2>5, <2>7, NewOutputRanks
    <3> QED
      BY <2>7, <3>1, RankedAfterStep
  <2> QED
    BY <2>2, <2>6, <2>7
<1>18. CASE Unplug
  <2>1. PICK m \in server.plugged, o \in Structs :
          Step({"running"}, output_destroy([server EXCEPT !.plugged = @ \ {m}], o))
    BY <1>18 DEF Unplug
  <2> DEFINE s == [server EXCEPT !.plugged = @ \ {m}]
             t == output_destroy(s, o)
  <2>2. server.plugged \ {m} \in SUBSET Monitors
    BY DEF Held, UseInv, Consistent, ServerType
  <2>3. Step({"running"}, t)
    BY <2>1
  <2>4. AllSorted(s) /\ Ranked(s) /\ ToSet(s.todo) = {} /\ Use(s) \subseteq Structs
    BY <1>16, <2>2, <2>3
  <2> HIDE DEF s
  <2>5. Keeps(s, t, o)
    BY <2>4, DestroyKeepsOrder
  <2>6. o \in Use(t) => Fits(t, o)
    <3>1. Listed(t.outs, o) => t.outs = s.outs /\ t.name = s.name /\ t.prio = s.prio
      BY <2>4, DestroyWhole
    <3> QED
      BY <2>4, <2>5, <3>1 DEF Keeps, Use, Listed, Fits, Ranked
  <2> HIDE DEF t
  <2>7. Ranked(t)
    BY <2>4, <2>5, <2>6, RankedElsewhere DEF Ranked
  <2> QED
    BY <2>3, <2>7, RankedAfterStep
<1>19. CASE UNCHANGED server
  BY <1>19
<1> QED
  BY <1>5, <1>6, <1>7, <1>8, <1>9, <1>10, <1>11, <1>12, <1>13, <1>14, <1>15,
     <1>17, <1>18, <1>19 DEF Next

(* A permanent output gets its monitor back: its configuration is applied  *)
(* again, and changes neither its priority nor its place.                  *)
LEMMA ReinitStays ==
  ASSUME NEW s, s \in ServerType, AllSorted(s), NEW o \in Structs, s.name[o] # NULL,
         Fits(s, o), s.config[s.name[o]].status # "disable"
  PROVE  LET t == Reinit(s, o, FALSE)
         IN  t.outs = s.outs /\ t.home = s.home /\ t.curr = s.curr
<1> DEFINE g == DestroyScene(s, o)
           d == [g EXCEPT !.scene[o] = "live", !.destroyed[o] = FALSE, !.on[o] = TRUE]
           c == s.config[s.name[o]]
           r == SetRole(d, o, c)
           p == SetPrio(r, o, c)
           q == Ub(p, c.pos /\ p.scene[o] = "dangling")
           e == [q EXCEPT !.on[o] = TRUE]
           b == Background(e, o)
<1>1. s.name[o] \in Monitors /\ c \in Config /\ s.destroyed \in [Structs -> BOOLEAN]
      /\ IsServer(s) /\ s.prio \in [Structs -> Int]
  BY DEF ServerType, AllSorted, Shape
<1>2. /\ IsServer(g) /\ g.destroyed = s.destroyed /\ g.outs = s.outs /\ g.home = s.home
      /\ g.curr = s.curr /\ g.name = s.name /\ g.prio = s.prio /\ g.config = s.config
  BY <1>1 DEF DestroyScene, IsServer, Fields
<1> HIDE DEF g
<1>3. /\ IsServer(d) /\ d.destroyed = [s.destroyed EXCEPT ![o] = FALSE]
      /\ d.outs = s.outs /\ d.home = s.home
      /\ d.curr = s.curr /\ d.name = s.name /\ d.prio = s.prio /\ d.config = s.config
  BY <1>2 DEF IsServer, Fields
<1>4. ~d.destroyed[o]
  BY <1>1, <1>3
<1> HIDE DEF d
<1>5. /\ IsServer(r) /\ r.outs = s.outs /\ r.home = s.home /\ r.curr = s.curr
      /\ r.prio = s.prio
  BY <1>3 DEF SetRole, IsServer, Fields
<1> HIDE DEF r
<1>6. /\ IsServer(p) /\ p.outs = s.outs /\ p.home = s.home /\ p.curr = s.curr
      /\ p.prio[o] = s.prio[o]
  <2>1. c.prio \in {-1, s.prio[o]}
    BY DEF Fits
  <2> HIDE DEF c
  <2> QED
    BY <1>1, <1>5, <2>1 DEF SetPrio, IsServer, Fields
<1> HIDE DEF p
<1>7. IsServer(q) /\ q.outs = s.outs /\ q.home = s.home /\ q.curr = s.curr
  BY <1>6 DEF Ub, IsServer, Fields
<1> HIDE DEF q
<1>8. IsServer(e) /\ e.outs = s.outs /\ e.home = s.home /\ e.curr = s.curr
  BY <1>7 DEF IsServer, Fields
<1> HIDE DEF e
<1>9. b.outs = s.outs /\ b.home = s.home /\ b.curr = s.curr
  BY <1>8 DEF Background, IsServer, Fields
<1>10. output_apply_config(d, o, c, FALSE) = b
  <2>1. Enable(q, o, FALSE) = e
    BY DEF Enable, e
  <2>2. p.prio[o] # d.prio[o] <=> FALSE
    BY <1>3, <1>6
  <2>3. c.status # "disable"
    OBVIOUS
  <2>4. ~ModeFails(p, o, c, FALSE)
    BY DEF ModeFails
  <2> HIDE DEF c, b
  <2>5. output_apply_config(d, o, c, FALSE)
          = Background(Enable(q, o, p.prio[o] # d.prio[o]), o)
    BY <1>4, <2>3, <2>4 DEF output_apply_config, q, p, r
  <2> QED
    BY <2>1, <2>2, <2>5 DEF b
<1>11. Reinit(s, o, FALSE) = b
  <2>1. Reinit(s, o, FALSE) = output_configure(d, o, FALSE)
    BY DEF Reinit, d, g
  <2>2. output_configure(d, o, FALSE) = output_apply_config(d, o, c, FALSE)
    BY <1>3 DEF output_configure
  <2> QED
    BY <1>10, <2>1, <2>2
<1> HIDE DEF b
<1> QED
  BY <1>9, <1>11

(* A disabled output goes: nothing referred to it.                         *)
LEMMA DestroyElsewhere ==
  ASSUME NEW s, s \in ServerType, AllSorted(s), NEW o \in Structs, ~Listed(s.outs, o),
         s.curr # o, \A v \in Views : s.home[v] # o
  PROVE  LET t == output_destroy(s, o)
         IN  t.outs = s.outs /\ t.home = s.home /\ t.curr = s.curr
<1> DEFINE l == LoseMonitor(s, o)
           a == DestroyScene(l, o)
           u == Unlink(a, o)
           d == message_clear(u, o)
           g == Evacuate(d, o)
           f == Free(g, o)
           k == [l EXCEPT !.scene[o] = "live"]
           e == IF l.role[o] = "permanent" THEN k ELSE f
           t == StopWithoutOutputs(e)
<1>1. IsServer(s) /\ s.home \in [Views -> Structs \cup {NULL}]
  BY DEF AllSorted, Shape, ServerType
<1>2. IsServer(l) /\ l.outs = s.outs /\ l.home = s.home /\ l.curr = s.curr
  BY <1>1 DEF LoseMonitor, DestroyScene, IsServer, Fields
<1> HIDE DEF l
<1>3. IsServer(a) /\ a.outs = s.outs /\ a.home = s.home /\ a.curr = s.curr
  BY <1>2 DEF DestroyScene, IsServer, Fields
<1>4. LeaveCurrent(a, o) = a
  BY <1>3 DEF LeaveCurrent
<1> HIDE DEF a
<1>5. IsServer(u) /\ u.outs = s.outs /\ u.home = s.home /\ u.curr = s.curr
  BY <1>3 DEF Unlink, wl_list_remove, Listed, IsServer, Fields
<1> HIDE DEF u
<1>6. IsServer(d) /\ d.outs = s.outs /\ d.home = s.home /\ d.curr = s.curr
  BY <1>5 DEF message_clear, IsServer, Fields
<1> HIDE DEF d
<1>7. IsServer(g) /\ g.outs = s.outs /\ g.home = s.home /\ g.curr = s.curr
  <2> DEFINE h == [v \in Views |-> IF d.home[v] # o THEN d.home[v]
                                   ELSE IF d.outs = <<>> THEN NULL ELSE d.curr]
  <2>1. h = s.home
    BY <1>1, <1>6
  <2>2. IsServer(g) /\ g.outs = d.outs /\ g.home = h /\ g.curr = d.curr
    BY <1>6 DEF Evacuate, IsServer, Fields
  <2> QED
    BY <1>6, <2>1, <2>2
<1>8. output_clear(l, o) = g
  BY <1>4 DEF output_clear, g, d, u, a
<1> HIDE DEF g
<1>9. IsServer(f) /\ f.outs = s.outs /\ f.home = s.home /\ f.curr = s.curr
  BY <1>7 DEF Free, IsServer, Fields
<1> HIDE DEF f
<1>10. IsServer(k) /\ k.outs = s.outs /\ k.home = s.home /\ k.curr = s.curr
  BY <1>2 DEF IsServer, Fields
<1> HIDE DEF k
<1>11. IsServer(e) /\ e.outs = s.outs /\ e.home = s.home /\ e.curr = s.curr
  BY <1>9, <1>10
<1>12. output_destroy(s, o) = t
  BY <1>8 DEF output_destroy, f, k, l
<1> HIDE DEF e
<1>13. t.outs = s.outs /\ t.home = s.home /\ t.curr = s.curr
  BY <1>11 DEF StopWithoutOutputs, IsServer, Fields
<1> HIDE DEF t
<1> QED
  BY <1>12, <1>13

(* Only plugging and unplugging change which monitors there are.           *)
LEMMA OnlyPlugs ==
  ASSUME SortInv(server), Next, Alive, ~server'.ub, server'.plugged # server.plugged
  PROVE  Plug \/ Unplug
<1>1. IsServer(server) /\ AllSorted(server) /\ server.phase = "running"
  BY DEF SortInv, AllSorted, Shape, Alive
<1>2. Quiet(server, Cleared) /\ IsServer(Cleared) /\ Cleared.plugged = server.plugged
  BY <1>1, QuietMessages DEF Cleared, Quiet
<1>3. ASSUME NEW phases, NEW s, Step(phases, s)
      PROVE  server.phase \in phases /\ s.plugged # server.plugged
  <2>1. [Start EXCEPT !.ub = TRUE].ub
    BY DEF Start
  <2>2. server' = s
    BY <1>3, <2>1 DEF Step
  <2> QED
    BY <1>3, <2>2 DEF Step
<1>4. ~(ReadConfig \/ StartSorting \/ Resort \/ Run)
  <2>1. \A phases, s : Step(phases, s) => "running" \in phases
    BY <1>1 DEF Step
  <2>2. ~ReadConfig /\ ~StartSorting
    BY <2>1 DEF ReadConfig, StartSorting
  <2>3. ~Resort
    BY <2>1, Zenon DEF Resort
  <2>4. ~Run
    BY <2>1 DEF Run
  <2> QED
    BY <2>2, <2>3, <2>4
<1>5. ~ConfigureOutput
  <2>1. ASSUME NEW m \in Monitors, NEW c \in Keywords, NEW fails,
               Command(keybinding_configure_output(Cleared, m, c, fails))
        PROVE  FALSE
    <3> DEFINE t == keybinding_configure_output(Cleared, m, c, fails)
    <3>1. AllSorted(Cleared)
      BY <1>1, <1>2, QuietKeeps
    <3>2. t.plugged = server.plugged
      BY <1>2, <3>1, KeywordsAreConfigs, CommandKeepsOrder
    <3>3. Step({"config", "running"}, t)
      BY <2>1 DEF Command
    <3> HIDE DEF t
    <3> QED
      BY <1>3, <3>2, <3>3
  <2> QED
    BY <2>1 DEF ConfigureOutput
<1>6. ASSUME NEW phases, NEW s, Step(phases, s), Quiet(Cleared, s) \/ Quiet(server, s)
      PROVE  FALSE
  BY <1>2, <1>3, <1>6 DEF Quiet
<1>7. ~(CycleOutputs \/ SwitchOutput)
  BY <1>2, <1>6, QuietCycle DEF CycleOutputs, SwitchOutput, Command
<1>8. ~ShowMessage
  BY <1>1, <1>2, <1>6, QuietMessages DEF ShowMessage, Command
<1>9. ~ConfigureMessage
  <2>1. ASSUME NEW e
        PROVE  /\ Quiet(Cleared, [Cleared EXCEPT !.messages = e])
               /\ Quiet(Cleared, [Cleared EXCEPT !.timed = e])
    BY <1>2 DEF Quiet, IsServer, Fields
  <2> QED
    BY <1>6, <2>1 DEF ConfigureMessage, Command
<1>10. ~SetBackground
  BY <1>2, <1>6, QuietUb DEF SetBackground, keybinding_set_background, Command
<1>11. ~Sigalrm
  <2> DEFINE s == [server EXCEPT
                     !.alarm = FALSE,
                     !.ub = \E o \in Structs : Listed(server.outs, o) /\ server.msgs[o] = "raw",
                     !.msgs = [o \in Structs |->
                                 IF Listed(server.outs, o) THEN "none" ELSE server.msgs[o]]]
  <2>1. Sigalrm => Step({"running"}, s)
    BY DEF Sigalrm
  <2>2. s.plugged = server.plugged
    BY <1>1 DEF IsServer, Fields
  <2> HIDE DEF s
  <2> QED
    BY <1>3, <2>1, <2>2
<1>12. ~NewView
  <2>1. ASSUME NEW v PROVE [server EXCEPT !.home[v] = server.curr].plugged = server.plugged
    BY <1>1 DEF IsServer, Fields
  <2> QED
    BY <1>3, <2>1 DEF NewView
<1> QED
  BY <1>4, <1>5, <1>7, <1>8, <1>9, <1>10, <1>11, <1>12 DEF Next

(* Of the step that PermanentKeepsPlace is about.                          *)
LEMMA PlaceKept ==
  ASSUME "fails" \notin Inputs, SortInv(server), Held(server), Ranked(server), Next,
         Alive, ~server'.ub, NEW o \in Structs, Listed(server.outs, o),
         server.role[o] = "permanent",
         server.config[server.name[o]].status # "disable",
         server.plugged \ {server.name[o]} = server'.plugged \ {server.name[o]},
         server.plugged # server'.plugged
  PROVE  /\ server'.outs = server.outs
         /\ server'.home = server.home
         /\ server'.curr = server.curr
<1>1. /\ Sound(server) /\ server \in ServerType /\ Lists(server) /\ Names(server)
      /\ Refs(server, Use(server)) /\ AllSorted(server) /\ server.phase = "running"
      /\ server.curr # NULL /\ server.name \in [Structs -> Monitors \cup {NULL}]
  BY DEF Alive, Held, UseInv, Begun, Sound, Consistent, SortInv, ServerType
<1>2. /\ ToSet(server.todo) = {} /\ Use(server) = ToSet(server.outs) /\ o \in Use(server)
      /\ server.name[o] # NULL /\ Fits(server, o)
  <2>1. server.todo = <<>>
    BY <1>1 DEF Lists
  <2>2. ToSet(server.todo) = {}
    BY <2>1, EmptySeq, LenProperties DEF ToSet
  <2> QED
    BY <1>1, <2>2 DEF Use, Listed, Lists, Ranked
<1>3. ASSUME NEW x, x \in SUBSET Monitors
      PROVE  LET s == [server EXCEPT !.plugged = x]
             IN  /\ s \in ServerType /\ AllSorted(s)
                 /\ s.outs = server.outs /\ s.name = server.name /\ s.prio = server.prio
                 /\ s.config = server.config /\ s.home = server.home
                 /\ s.curr = server.curr /\ s.role = server.role /\ s.plugged = x
  <2> DEFINE s == [server EXCEPT !.plugged = x]
  <2>1. s \in ServerType
    BY <1>1, <1>3 DEF ServerType
  <2>2. /\ s.outs = server.outs /\ s.todo = server.todo /\ s.disabled = server.disabled
        /\ s.name = server.name /\ s.prio = server.prio /\ s.config = server.config
        /\ s.home = server.home /\ s.curr = server.curr /\ s.role = server.role
        /\ s.plugged = x /\ IsServer(s)
    BY <1>1 DEF AllSorted, Shape, IsServer, Fields
  <2> HIDE DEF s
  <2>3. AllSorted(s)
    BY <1>1, <2>2 DEF AllSorted, Shape
  <2> QED
    BY <2>1, <2>2, <2>3 DEF s
<1>4. ASSUME NEW phases, NEW t, Step(phases, t)
      PROVE  server' = t
  <2>1. [Start EXCEPT !.ub = TRUE].ub
    BY DEF Start
  <2> QED
    BY <1>4, <2>1 DEF Step
<1>5. server.plugged \in SUBSET Monitors
  BY <1>1 DEF ServerType
<1>6. CASE Plug
  <2>1. PICK m \in Monitors \ server.plugged, fails \in BOOLEAN :
          LET s == [server EXCEPT !.plugged = @ \cup {m}]
          IN  /\ MayFail(m, FALSE, fails)
              /\ \/ \E p \in Waiting(server, m) : Step({"running"}, Reinit(s, p, fails))
                 \/ /\ Waiting(server, m) = {}
                    /\ \E p \in Structs :
                         /\ server.name[p] = NULL
                         /\ Step({"backend", "running"}, NewOutput(s, p, m, fails))
    BY <1>6 DEF Plug
  <2> DEFINE x == server.plugged \cup {m}
             s == [server EXCEPT !.plugged = x]
  <2>2. fails = FALSE
    BY <2>1 DEF MayFail
  <2>3. /\ s \in ServerType /\ AllSorted(s)
        /\ s.outs = server.outs /\ s.name = server.name /\ s.prio = server.prio
        /\ s.config = server.config /\ s.home = server.home
        /\ s.curr = server.curr /\ s.plugged = x
    BY <1>3, <1>5
  <2>4. \/ \E p \in Waiting(server, m) : Step({"running"}, Reinit(s, p, FALSE))
        \/ /\ Waiting(server, m) = {}
           /\ \E p \in Structs :
                /\ server.name[p] = NULL
                /\ Step({"backend", "running"}, NewOutput(s, p, m, FALSE))
    BY <2>1, <2>2
  <2> HIDE DEF s
  <2>5. server'.plugged = x
    <3>1. ASSUME NEW p \in Waiting(server, m), Step({"running"}, Reinit(s, p, FALSE))
          PROVE  server'.plugged = x
      <4>1. p \in Structs /\ s.name[p] # NULL
        BY <2>3, OutputsAssumption DEF Waiting
      <4>2. Keeps(s, Reinit(s, p, FALSE), p)
        BY <2>1, <2>3, <4>1, PlugKeepsOrder
      <4> QED
        BY <1>4, <2>3, <3>1, <4>2 DEF Keeps
    <3>2. ASSUME NEW p \in Structs, server.name[p] = NULL,
                 Step({"backend", "running"}, NewOutput(s, p, m, FALSE))
          PROVE  server'.plugged = x
      <4>1. Keeps(s, NewOutput(s, p, m, FALSE), p)
        BY <2>1, <2>3, <3>2, PlugKeepsOrder
      <4> QED
        BY <1>4, <2>3, <3>2, <4>1 DEF Keeps
    <3> QED
      BY <2>4, <3>1, <3>2
  <2>6. server.name[o] = m
    BY <2>1, <2>5
  <2>7. server.destroyed[o]
    BY <1>1, <1>2, <2>1, <2>6 DEF Names
  <2>8. o \in Waiting(server, m) /\ \A p \in Waiting(server, m) : p = o
    <3>1. o \in Waiting(server, m)
      BY <2>6, <2>7 DEF Waiting
    <3>2. \A p \in Waiting(server, m) : p = o
      BY <1>1, <1>2, <2>6 DEF Waiting, Listed, Names
    <3> QED
      BY <3>1, <3>2
  <2>9. Step({"running"}, Reinit(s, o, FALSE))
    BY <2>4, <2>8
  <2>10. Fits(s, o)
    BY <1>2, <2>3 DEF Fits
  <2> DEFINE t == Reinit(s, o, FALSE)
  <2>11. t.outs = s.outs /\ t.home = s.home /\ t.curr = s.curr
    BY <1>2, <2>3, <2>10, ReinitStays
  <2>12. server' = t
    BY <1>4, <2>9
  <2> HIDE DEF t
  <2> QED
    BY <2>3, <2>11, <2>12
<1>7. CASE Unplug
  <2>1. PICK m \in server.plugged, p \in Structs :
          /\ server.name[p] = m /\ ~server.destroyed[p]
          /\ Step({"running"}, output_destroy([server EXCEPT !.plugged = @ \ {m}], p))
    BY <1>7 DEF Unplug
  <2> DEFINE x == server.plugged \ {m}
             s == [server EXCEPT !.plugged = x]
             t == output_destroy(s, p)
  <2>2. x \in SUBSET Monitors
    BY <1>5
  <2>3. /\ s \in ServerType /\ AllSorted(s)
        /\ s.outs = server.outs /\ s.name = server.name
        /\ s.home = server.home /\ s.role = server.role
        /\ s.curr = server.curr /\ s.plugged = x
    BY <1>3, <2>2
  <2>4. server' = t
    BY <1>4, <2>1
  <2> HIDE DEF s
  <2>5. Keeps(s, t, p)
    BY <2>3, DestroyKeepsOrder
  <2> HIDE DEF t
  <2>6. server.name[o] = m
    <3>1. server'.plugged = x
      BY <2>3, <2>4, <2>5 DEF Keeps
    <3> QED
      BY <2>1, <3>1
  <2>7. CASE p = o
    <3>1. t.outs = s.outs /\ t.home = s.home /\ t.curr = s.curr
      BY <2>3, <2>7, DestroyWhole DEF t
    <3> QED
      BY <2>3, <2>4, <3>1
  <2>8. CASE p # o
    <3>1. p \notin Use(server)
      BY <1>1, <1>2, <2>1, <2>6, <2>8 DEF Names
    <3>2. p # NULL
      BY OutputsAssumption
    <3>3. ~Listed(s.outs, p) /\ s.curr # p /\ \A v \in Views : s.home[v] # p
      BY <1>1, <1>2, <2>3, <3>1, <3>2 DEF Refs, Listed
    <3>4. t.outs = s.outs /\ t.home = s.home /\ t.curr = s.curr
      BY <2>3, <3>3, DestroyElsewhere DEF t
    <3> QED
      BY <2>3, <2>4, <3>4
  <2> QED
    BY <2>7, <2>8
<1> QED
  BY <1>6, <1>7, OnlyPlugs

(* A permanent output keeps its place, its views and its turn when its     *)
(* monitor goes and comes back, although output_configure runs again for   *)
(* it (output.c:167, output.c:470, output.c:698), provided that no mode is *)
(* ever refused.                                                           *)
THEOREM PermanentStays ==
  ASSUME "fails" \notin Inputs, "last_fails" \notin Inputs
  PROVE  Spec => PermanentKeepsPlace
<1> DEFINE Inv == SortInv(server) /\ Held(server) /\ Ranked(server)
<1>1. Init => Inv
  BY SortedAtStart, HeldAtStart, RankedAtStart DEF Init
<1>2. Inv /\ [Next]_server => Inv'
  BY SortedInductive, HeldInductive, RankedInductive
<1>3. Inv /\ [Next]_server
        => [\A o \in Structs :
              (/\ Alive /\ ~server'.ub
               /\ Listed(server.outs, o)
               /\ server.role[o] = "permanent"
               /\ server.config[server.name[o]].status # "disable"
               /\ server.plugged \ {server.name[o]} = server'.plugged \ {server.name[o]}
               /\ server.plugged # server'.plugged)
              => /\ server'.outs = server.outs
                 /\ server'.home = server.home
                 /\ server'.curr = server.curr]_server
  BY PlaceKept
<1> HIDE DEF Inv
<1> QED
  BY <1>1, <1>2, <1>3, PTL DEF Spec, PermanentKeepsPlace


-----------------------------------------------------------------------------
(* Memory is only misused around disabled outputs.                         *)

(* The fields that say whether memory is misused.                          *)
Cells(s) ==
  /\ IsServer(s)
  /\ s.name \in [Structs -> Monitors \cup {NULL}]
  /\ s.scene \in [Structs -> {"live", "null", "dangling"}]
  /\ s.bg \in [Structs -> BOOLEAN] /\ s.ws \in [Structs -> BOOLEAN]
  /\ s.msgs \in [Structs -> {"none", "shown", "raw"}]
  /\ s.ub \in BOOLEAN

(* A struct with a name has its workspaces, and a background and proper    *)
(* messages as long as it has a scene output.                              *)
Drawn(s, p) ==
  s.scene[p] = "dangling" \/ (s.scene[p] = "live" /\ s.bg[p] /\ s.msgs[p] # "raw")

Fine(s, p) == s.ws[p] /\ Drawn(s, p)

(* So it is for every struct but o, as long as no memory was misused.  In  *)
(* a clean state no scene output is gone, and no memory was misused.       *)
Intact(s, o, clean) ==
  /\ Cells(s)
  /\ clean => ~s.ub
  /\ ~s.ub => \A p \in Structs \ {o} :
                s.name[p] # NULL => Fine(s, p) /\ (clean => s.scene[p] = "live")

(* From s to t none of these fields changed.                               *)
Untouched(s, t) ==
  /\ IsServer(t)
  /\ t.name = s.name /\ t.scene = s.scene /\ t.bg = s.bg /\ t.ws = s.ws
  /\ t.msgs = s.msgs /\ t.ub = s.ub

(* From s to t only messages changed, and none of o.                       *)
Spared(s, t, o) ==
  /\ t.name = s.name /\ t.scene = s.scene /\ t.bg = s.bg /\ t.ws = s.ws
  /\ o \in Structs => t.msgs[o] = s.msgs[o]
  /\ s.ub => t.ub

LEMMA UntouchedIntact ==
  ASSUME NEW s, NEW t, NEW o, NEW clean, Intact(s, o, clean), Untouched(s, t)
  PROVE  Intact(t, o, clean)
BY DEF Intact, Cells, Untouched, Fine, Drawn

LEMMA UntouchedTwice ==
  ASSUME NEW s, NEW t, NEW u, Untouched(s, t), Untouched(t, u)
  PROVE  Untouched(s, u)
BY DEF Untouched

(* Lists, roles, priorities and power are other fields.                    *)
LEMMA OtherFields ==
  ASSUME NEW s, IsServer(s), NEW o, NEW c, NEW changed
  PROVE  /\ Untouched(s, SetRole(s, o, c)) /\ Untouched(s, SetPrio(s, o, c))
         /\ Untouched(s, Unlink(s, o)) /\ Untouched(s, output_insert(s, o))
         /\ Untouched(s, Enable(s, o, changed))
         /\ Untouched(s, StopWithoutOutputs(s))
<1>1. Untouched(s, SetRole(s, o, c))
  BY DEF SetRole, Untouched, IsServer, Fields
<1>2. Untouched(s, SetPrio(s, o, c))
  BY DEF SetPrio, Untouched, IsServer, Fields
<1>3. Untouched(s, Unlink(s, o))
  BY DEF Unlink, Untouched, IsServer, Fields
<1>4. ASSUME NEW a, IsServer(a) PROVE Untouched(a, output_insert(a, o))
  BY <1>4 DEF output_insert, Untouched, IsServer, Fields
<1>5. Untouched(s, StopWithoutOutputs(s))
  BY DEF StopWithoutOutputs, Untouched, IsServer, Fields
<1>6. Untouched(s, Enable(s, o, changed))
  <2> DEFINE u == Unlink(s, o)
             i == output_insert(u, o)
             p == IF changed THEN i ELSE s
             t == [p EXCEPT !.on[o] = TRUE]
  <2>1. Enable(s, o, changed) = t
    BY DEF Enable
  <2>2. Untouched(u, i)
    BY <1>3, <1>4 DEF Untouched
  <2>3. Untouched(s, i) /\ Untouched(s, s)
    BY <1>3, <2>2 DEF Untouched
  <2> HIDE DEF u, i
  <2>4. Untouched(s, p)
    BY <2>3
  <2> HIDE DEF p
  <2>5. Untouched(p, t)
    BY <2>4 DEF Untouched, IsServer, Fields
  <2> QED
    BY <2>1, <2>4, <2>5, UntouchedTwice
<1> QED
  BY <1>1, <1>2, <1>3, <1>4, <1>5, <1>6

(* A message on a struct with a name is only raw without scene output, and *)
(* is hidden without harm otherwise.                                       *)
LEMMA TalkIntact ==
  ASSUME NEW s, NEW o, NEW clean \in BOOLEAN, Intact(s, o, clean),
         NEW q \in Structs \ {o}, s.name[q] # NULL
  PROVE  /\ Intact(message_clear(s, q), o, clean)
         /\ Intact(message_printf(s, q), o, clean)
         /\ Intact(set_output(s, q), o, clean) /\ Spared(s, set_output(s, q), o)
<1>1. Intact(message_clear(s, q), o, clean)
  <2> DEFINE t == message_clear(s, q)
  <2>1. /\ IsServer(t) /\ t.name = s.name /\ t.scene = s.scene /\ t.bg = s.bg
        /\ t.ws = s.ws /\ t.msgs = [s.msgs EXCEPT ![q] = "none"]
        /\ t.ub = (s.ub \/ s.msgs[q] = "raw")
    BY DEF message_clear, Intact, Cells, IsServer, Fields
  <2> HIDE DEF t
  <2>2. Cells(t)
    BY <2>1 DEF Intact, Cells
  <2>3. clean => ~t.ub
    BY <2>1 DEF Intact, Fine, Drawn
  <2>4. \A p \in Structs : t.msgs[p] = s.msgs[p] \/ t.msgs[p] = "none"
    BY <2>1 DEF Intact, Cells
  <2> QED
    BY <2>1, <2>2, <2>3, <2>4 DEF Intact, Fine, Drawn, t
<1>2. ASSUME NEW a, Intact(a, o, clean), a.name[q] # NULL
      PROVE  Intact(message_printf(a, q), o, clean) /\ Spared(a, message_printf(a, q), o)
  <2> DEFINE m == message_set_output(a, q)
             t == [m EXCEPT !.alarm = a.timed]
             x == IF a.msgs[q] = "raw" \/ a.scene[q] # "live" THEN "raw" ELSE "shown"
  <2>1. /\ IsServer(m) /\ m.name = a.name /\ m.scene = a.scene /\ m.bg = a.bg
        /\ m.ws = a.ws /\ m.msgs = [a.msgs EXCEPT ![q] = x] /\ m.ub = a.ub
    BY <1>2 DEF message_set_output, Intact, Cells, IsServer, Fields
  <2> HIDE DEF m
  <2>2. Untouched(m, t)
    BY <2>1 DEF Untouched, IsServer, Fields
  <2> HIDE DEF t
  <2>3. Cells(m)
    BY <1>2, <2>1 DEF Intact, Cells
  <2>4. \A p \in Structs : p # q => m.msgs[p] = a.msgs[p]
    BY <1>2, <2>1 DEF Intact, Cells
  <2>5. m.msgs[q] = x
    BY <1>2, <2>1 DEF Intact, Cells
  <2>6. Intact(m, o, clean)
    BY <1>2, <2>1, <2>3, <2>4, <2>5 DEF Intact, Fine, Drawn
  <2>7. Intact(t, o, clean)
    BY <2>2, <2>6, UntouchedIntact
  <2>8. Spared(a, t, o) /\ Spared(a, a, o)
    BY <2>1, <2>2, <2>4 DEF Untouched, Spared
  <2> QED
    BY <1>2, <2>7, <2>8 DEF message_printf, t, m
<1>3. Intact(set_output(s, q), o, clean) /\ Spared(s, set_output(s, q), o)
  <2> DEFINE c == [s EXCEPT !.curr = q]
             u == Ub(c, ~s.ws[q])
             t == message_printf(u, q)
  <2>1. Untouched(s, c)
    BY DEF Untouched, Intact, Cells, IsServer, Fields
  <2> HIDE DEF c
  <2>2. /\ IsServer(u) /\ u.name = s.name /\ u.scene = s.scene /\ u.bg = s.bg
        /\ u.ws = s.ws /\ u.msgs = s.msgs /\ u.ub = (s.ub \/ ~s.ws[q])
    BY <2>1 DEF Ub, Untouched, IsServer, Fields
  <2>3. set_output(s, q) = t
    BY DEF set_output, c, u
  <2> HIDE DEF u
  <2>4. Intact(u, o, clean)
    BY <2>2 DEF Intact, Cells, Fine, Drawn
  <2>5. Intact(t, o, clean) /\ Spared(u, t, o)
    BY <1>2, <2>2, <2>4
  <2> HIDE DEF t
  <2>6. Spared(s, t, o)
    BY <2>2, <2>5 DEF Spared
  <2> QED
    BY <2>3, <2>5, <2>6
<1>4. Intact(message_printf(s, q), o, clean)
  BY <1>2
<1> QED
  BY <1>1, <1>3, <1>4

(* Cycling from a listed output.                                           *)
LEMMA CycleIntact ==
  ASSUME NEW s, NEW o, NEW clean \in BOOLEAN, NEW reverse \in BOOLEAN,
         Intact(s, o, clean), Shape(s),
         clean => Listed(s.outs, s.curr),
         o \in {NULL, s.curr} /\ (o = s.curr => Len(s.outs) > 1)
  PROVE  LET t == keybinding_cycle_outputs(s, reverse)
         IN  Intact(t, o, clean) /\ Spared(s, t, o)
<1> DEFINE n == Len(s.outs)
           i == IndexIn(s.outs, s.curr)
           k == IF reverse THEN (IF i = 1 THEN n ELSE i - 1)
                ELSE (IF i = n THEN 1 ELSE i + 1)
           q == s.outs[k]
           t == keybinding_cycle_outputs(s, reverse)
<1>1. CASE Listed(s.outs, s.curr)
  <2>1. t = set_output(s, q)
    BY <1>1 DEF keybinding_cycle_outputs
  <2>2. /\ s.outs \in Seq(Structs) /\ Distinct(s.outs) /\ NULL \notin Structs
        /\ \A p : Listed(s.outs, p) => s.name[p] # NULL
    BY OutputsAssumption DEF Shape
  <2>3. i \in 1 .. n /\ s.outs[i] = s.curr
    BY <1>1, <2>2, IndexInProperties DEF Listed
  <2>4. n \in Nat /\ DOMAIN s.outs = 1 .. n
    BY <2>2, LenProperties
  <2>0. o = s.curr => n > 1
    OBVIOUS
  <2> HIDE DEF i, n
  <2>5. k \in 1 .. n /\ (n > 1 => k # i)
    BY <2>3, <2>4
  <2> HIDE DEF k
  <2>6. q \in Structs /\ Listed(s.outs, q)
    BY <2>2, <2>4, <2>5, ElementOfSeq DEF Listed, ToSet, n
  <2>7. n > 1 => q # s.curr
    BY <2>2, <2>3, <2>4, <2>5 DEF Distinct
  <2>8. q # o /\ s.name[q] # NULL
    BY <2>0, <2>2, <2>6, <2>7
  <2> HIDE DEF q, t
  <2> QED
    BY <2>1, <2>6, <2>8, TalkIntact DEF t
<1>2. CASE ~Listed(s.outs, s.curr)
  <2>1. t = Ub(s, TRUE)
    BY <1>2 DEF keybinding_cycle_outputs
  <2> HIDE DEF t
  <2>2. /\ IsServer(t) /\ t.name = s.name /\ t.scene = s.scene /\ t.bg = s.bg
        /\ t.ws = s.ws /\ t.msgs = s.msgs /\ t.ub
    BY <2>1 DEF Ub, Intact, Cells, IsServer, Fields
  <2> QED
    BY <1>2, <2>2 DEF Intact, Cells, Spared, t
<1> QED
  BY <1>1, <1>2

(* Taking o out of use: its scene output goes, the current output moves on *)
(* to another one, o's messages are freed and its workspaces read.         *)
LEMMA ClearIntact ==
  ASSUME NEW s, NEW o \in Structs, NEW clean \in BOOLEAN, Intact(s, o, clean), Shape(s),
         clean => /\ s.scene[o] # "dangling" /\ s.msgs[o] # "raw" /\ s.ws[o]
                  /\ s.curr = o => Listed(s.outs, o)
  PROVE  LET t == output_clear(s, o)
         IN  /\ Intact(t, o, clean) /\ t.name = s.name
             /\ ~t.ub => /\ ~s.ub /\ t.ws[o]
                         /\ s.scene[o] # "null" => t.scene[o] = "dangling"
<1> DEFINE a == DestroyScene(s, o)
           b == LeaveCurrent(a, o)
           c == Unlink(b, o)
           d == message_clear(c, o)
           e == Evacuate(d, o)
           x == IF s.scene[o] = "null" THEN "null" ELSE "dangling"
<1>0. output_clear(s, o) = e
  BY DEF output_clear
<1>1. /\ IsServer(a) /\ a.name = s.name /\ a.scene = [s.scene EXCEPT ![o] = x]
      /\ a.bg = s.bg /\ a.ws = s.ws /\ a.msgs = s.msgs
      /\ a.ub = (s.ub \/ s.scene[o] = "dangling")
      /\ a.outs = s.outs /\ a.curr = s.curr /\ Quiet(s, a)
  <2>1. Quiet(s, a)
    BY QuietScene DEF Intact, Cells
  <2> QED
    BY <2>1 DEF DestroyScene, Intact, Cells, IsServer, Fields
<1> HIDE DEF a
<1>2. a.scene[o] = x /\ \A p \in Structs \ {o} : a.scene[p] = s.scene[p]
  BY <1>1 DEF Intact, Cells
<1>3. Intact(a, o, clean) /\ Shape(a)
  <2>1. Cells(a)
    BY <1>1 DEF Intact, Cells
  <2> QED
    BY <1>1, <1>2, <2>1, QuietKeeps DEF Intact, Fine, Drawn
<1>4. Intact(b, o, clean) /\ Spared(a, b, o)
  <2>1. CASE a.curr = o /\ Len(a.outs) > 1
    <3>1. clean => Listed(a.outs, a.curr)
      BY <1>1, <2>1
    <3> QED
      BY <1>3, <2>1, <3>1, CycleIntact DEF LeaveCurrent
  <2>2. CASE ~(a.curr = o /\ Len(a.outs) > 1)
    BY <1>3, <2>2 DEF LeaveCurrent, Spared
  <2> QED
    BY <2>1, <2>2
<1> HIDE DEF b
<1>5. Untouched(b, c) /\ Intact(c, o, clean)
  <2>1. Untouched(b, c)
    BY <1>4, OtherFields DEF Intact, Cells
  <2> QED
    BY <1>4, <2>1, UntouchedIntact
<1> HIDE DEF c
<1>6. /\ IsServer(d) /\ d.name = c.name /\ d.scene = c.scene /\ d.bg = c.bg
      /\ d.ws = c.ws /\ d.msgs = [c.msgs EXCEPT ![o] = "none"]
      /\ d.ub = (c.ub \/ c.msgs[o] = "raw")
  BY <1>5 DEF message_clear, Intact, Cells, IsServer, Fields
<1> HIDE DEF d
<1>7. /\ IsServer(e) /\ e.name = d.name /\ e.scene = d.scene /\ e.bg = d.bg
      /\ e.ws = d.ws /\ e.msgs = d.msgs
      /\ e.ub = (d.ub \/ ~d.ws[o])
  BY <1>6 DEF Evacuate, IsServer, Fields
<1> HIDE DEF e
<1>8. \A p \in Structs \ {o} : e.msgs[p] = c.msgs[p]
  BY <1>5, <1>6, <1>7 DEF Intact, Cells
<1>9. Cells(e)
  BY <1>5, <1>6, <1>7 DEF Intact, Cells
<1>10. c.msgs[o] = s.msgs[o] /\ c.ws = s.ws /\ c.scene = a.scene /\ (a.ub => c.ub)
  BY <1>1, <1>4, <1>5 DEF Spared, Untouched
<1>11. clean => ~e.ub
  BY <1>5, <1>6, <1>7, <1>10 DEF Intact
<1>12. ASSUME ~e.ub, NEW p \in Structs \ {o}, e.name[p] # NULL
       PROVE  Fine(e, p) /\ (clean => e.scene[p] = "live")
  <2>1. Fine(c, p) /\ (clean => c.scene[p] = "live")
    BY <1>5, <1>6, <1>7, <1>12 DEF Intact
  <2>2. e.scene = c.scene /\ e.bg = c.bg /\ e.ws = c.ws /\ e.msgs[p] = c.msgs[p]
    BY <1>6, <1>7, <1>8
  <2> QED
    BY <2>1, <2>2 DEF Fine, Drawn
<1>13. e.name = s.name
  BY <1>1, <1>4, <1>5, <1>6, <1>7 DEF Spared, Untouched
<1>14. ~e.ub => ~s.ub /\ e.ws[o] /\ e.scene[o] = x
  BY <1>1, <1>2, <1>6, <1>7, <1>10
<1> QED
  BY <1>0, <1>9, <1>11, <1>12, <1>13, <1>14 DEF Intact

LEMMA DisableIntact ==
  ASSUME NEW s, NEW o \in Structs, NEW clean \in BOOLEAN, Intact(s, o, clean), Shape(s),
         clean => /\ s.scene[o] # "dangling" /\ s.msgs[o] # "raw" /\ s.ws[o]
                  /\ s.curr = o => Listed(s.outs, o)
  PROVE  LET t == Disable(s, o)
         IN  /\ Intact(t, o, clean) /\ t.name = s.name
             /\ ~t.ub => /\ ~s.ub /\ t.ws[o]
                         /\ s.scene[o] # "null" => t.scene[o] = "dangling"
<1> DEFINE c == output_clear(s, o)
           t == [c EXCEPT !.disabled = <<o>> \o @, !.on[o] = FALSE]
<1>1. /\ Intact(c, o, clean) /\ c.name = s.name
      /\ ~c.ub => /\ ~s.ub /\ c.ws[o]
                  /\ s.scene[o] # "null" => c.scene[o] = "dangling"
  BY ClearIntact
<1>2. Disable(s, o) = t
  BY DEF Disable
<1> HIDE DEF c
<1>3. Untouched(c, t)
  BY <1>1 DEF Untouched, Intact, Cells, IsServer, Fields
<1> HIDE DEF t
<1>4. Intact(t, o, clean)
  BY <1>1, <1>3, UntouchedIntact
<1> QED
  BY <1>1, <1>2, <1>3, <1>4 DEF Untouched

(* output_destroy, for an output that lost its monitor or is to lose it.   *)
LEMMA DestroyIntact ==
  ASSUME NEW s, NEW o \in Structs, NEW clean \in BOOLEAN, Intact(s, o, clean),
         AllSorted(s), s.role[o] = "permanent" => ~s.destroyed[o] /\ (~s.ub => Fine(s, o)),
         s.name[o] # NULL,
         clean => Fine(s, o) /\ s.scene[o] = "live" /\ (s.curr = o => Listed(s.outs, o))
  PROVE  LET t == output_destroy(s, o)
         IN  /\ Intact(t, o, clean)
             /\ ~t.ub => t.name[o] = NULL \/ Fine(t, o)
             /\ s.role[o] # "permanent" => t.name[o] = NULL
<1> DEFINE d == DestroyScene(s, o)
           l == LoseMonitor(s, o)
           k == [l EXCEPT !.scene[o] = "live"]
           c == output_clear(l, o)
           f == Free(c, o)
           e == IF l.role[o] = "permanent" THEN k ELSE f
           t == StopWithoutOutputs(e)
<1>1. output_destroy(s, o) = t
  BY DEF output_destroy
<1>2. /\ IsServer(l) /\ l.name = s.name /\ l.bg = s.bg /\ l.ws = s.ws
      /\ l.msgs = s.msgs /\ l.outs = s.outs /\ l.curr = s.curr /\ l.role = s.role
      /\ l.scene \in [Structs -> {"live", "null", "dangling"}]
      /\ \A p \in Structs \ {o} : l.scene[p] = s.scene[p]
      /\ l.ub \in BOOLEAN /\ (s.ub => l.ub) /\ Shape(l)
      /\ ~s.destroyed[o] => l.scene[o] = "null"
      /\ s.destroyed[o] => l.scene[o] = s.scene[o]
      /\ ~s.destroyed[o] /\ ~l.ub => s.scene[o] # "dangling"
      /\ s.scene[o] # "dangling" /\ ~s.ub => ~l.ub
  <2>0. Shape(l)
    BY QuietScene, QuietKeeps DEF Intact, Cells, AllSorted
  <2>1. CASE s.destroyed[o]
    BY <2>0, <2>1 DEF LoseMonitor, Intact, Cells
  <2>2. CASE ~s.destroyed[o]
    <3> DEFINE y == IF s.scene[o] = "null" THEN "null" ELSE "dangling"
    <3>1. /\ IsServer(d) /\ d.name = s.name /\ d.scene = [s.scene EXCEPT ![o] = y]
          /\ d.bg = s.bg /\ d.ws = s.ws /\ d.msgs = s.msgs /\ d.outs = s.outs
          /\ d.curr = s.curr /\ d.role = s.role
          /\ d.ub = (s.ub \/ s.scene[o] = "dangling")
      BY DEF DestroyScene, Intact, Cells, IsServer, Fields
    <3>2. l = [d EXCEPT !.scene[o] = "null", !.destroyed[o] = TRUE, !.on[o] = FALSE]
      BY <2>2 DEF LoseMonitor
    <3> HIDE DEF d, l, y
    <3>3. /\ IsServer(l) /\ l.name = d.name /\ l.scene = [d.scene EXCEPT ![o] = "null"]
          /\ l.bg = d.bg /\ l.ws = d.ws /\ l.msgs = d.msgs /\ l.outs = d.outs
          /\ l.curr = d.curr /\ l.role = d.role /\ l.ub = d.ub
      BY <3>1, <3>2 DEF IsServer, Fields
    <3>4. l.scene = [s.scene EXCEPT ![o] = "null"]
      BY <3>1, <3>3 DEF Intact, Cells
    <3> QED
      BY <2>0, <2>2, <3>1, <3>3, <3>4 DEF Intact, Cells
  <2> QED
    BY <2>1, <2>2
<1> HIDE DEF d, l
<1>3. Intact(l, o, clean)
  <2>1. Cells(l)
    BY <1>2 DEF Intact, Cells
  <2>2. clean => ~l.ub
    BY <1>2 DEF Intact
  <2> QED
    BY <1>2, <2>1, <2>2 DEF Intact, Fine, Drawn
<1>4. CASE s.role[o] = "permanent"
  <2>1. /\ IsServer(k) /\ k.name = l.name /\ k.bg = l.bg /\ k.ws = l.ws
        /\ k.msgs = l.msgs /\ k.scene = [l.scene EXCEPT ![o] = "live"] /\ k.ub = l.ub
    BY <1>2 DEF IsServer, Fields
  <2> HIDE DEF k
  <2>2. k.scene[o] = "live" /\ \A p \in Structs \ {o} : k.scene[p] = l.scene[p]
    BY <1>2, <2>1
  <2>3. Cells(k)
    BY <1>3, <2>1 DEF Intact, Cells
  <2>4. Intact(k, o, clean)
    BY <1>3, <2>1, <2>2, <2>3 DEF Intact, Fine, Drawn
  <2>5. ~k.ub => Fine(k, o)
    BY <1>2, <1>4, <2>1, <2>2 DEF Fine, Drawn
  <2>6. t = StopWithoutOutputs(k)
    BY <1>2, <1>4
  <2> HIDE DEF t
  <2>7. Untouched(k, t)
    BY <2>1, <2>6, OtherFields
  <2>8. Intact(t, o, clean) /\ (~t.ub => Fine(t, o))
    BY <2>4, <2>5, <2>7, UntouchedIntact DEF Untouched, Fine, Drawn
  <2> QED
    BY <1>1, <1>4, <2>8
<1>5. CASE s.role[o] # "permanent"
  <2>1. clean => /\ l.scene[o] # "dangling" /\ l.msgs[o] # "raw" /\ l.ws[o]
                 /\ l.curr = o => Listed(l.outs, o)
    BY <1>2 DEF Fine, Drawn
  <2>2. Intact(c, o, clean) /\ c.name = s.name
    BY <1>2, <1>3, <2>1, ClearIntact
  <2> HIDE DEF c
  <2>3. /\ IsServer(f) /\ f.name = [c.name EXCEPT ![o] = NULL]
        /\ f.scene = [c.scene EXCEPT ![o] = "null"]
        /\ f.bg = [c.bg EXCEPT ![o] = FALSE] /\ f.ws = [c.ws EXCEPT ![o] = FALSE]
        /\ f.msgs = c.msgs /\ f.ub = c.ub
    BY <2>2 DEF Free, Intact, Cells, IsServer, Fields
  <2> HIDE DEF f
  <2>4. /\ f.name[o] = NULL
        /\ \A p \in Structs \ {o} : /\ f.name[p] = c.name[p] /\ f.scene[p] = c.scene[p]
                                     /\ f.bg[p] = c.bg[p] /\ f.ws[p] = c.ws[p]
    BY <2>2, <2>3 DEF Intact, Cells
  <2>5. Cells(f)
    BY <2>2, <2>3 DEF Intact, Cells
  <2>6. Intact(f, o, clean)
    BY <2>2, <2>3, <2>4, <2>5 DEF Intact, Fine, Drawn
  <2>7. t = StopWithoutOutputs(f)
    BY <1>2, <1>5
  <2> HIDE DEF t
  <2>8. Untouched(f, t)
    BY <2>3, <2>7, OtherFields
  <2>9. Intact(t, o, clean) /\ t.name[o] = NULL
    BY <2>4, <2>6, <2>8, UntouchedIntact DEF Untouched
  <2> QED
    BY <1>1, <1>5, <2>9
<1> QED
  BY <1>4, <1>5

(* What an output has before its background is made.                       *)
Lit(s, o) == s.scene[o] = "dangling" \/ (s.scene[o] = "live" /\ s.msgs[o] # "raw")

LEMMA BackgroundIntact ==
  ASSUME NEW s, NEW o \in Structs, NEW clean \in BOOLEAN, Intact(s, o, clean)
  PROVE  LET t == Background(s, o)
         IN  /\ Intact(t, o, clean) /\ t.ub = s.ub /\ t.ws = s.ws
             /\ Lit(s, o) => Drawn(t, o)
<1> DEFINE t == Background(s, o)
           x == s.scene[o] = "live"
<1>1. /\ IsServer(t) /\ t.name = s.name /\ t.scene = s.scene /\ t.ws = s.ws
      /\ t.msgs = s.msgs /\ t.ub = s.ub /\ t.bg = [s.bg EXCEPT ![o] = x]
  BY DEF Background, Intact, Cells, IsServer, Fields
<1>2. x \in BOOLEAN
  OBVIOUS
<1> HIDE DEF t
<1>3. t.bg \in [Structs -> BOOLEAN]
  <2> HIDE DEF x
  <2> QED
    BY <1>1, <1>2 DEF Intact, Cells
<1>4. t.bg[o] = x /\ \A p \in Structs \ {o} : t.bg[p] = s.bg[p]
  BY <1>1 DEF Intact, Cells
<1>5. Cells(t)
  BY <1>1, <1>3 DEF Intact, Cells
<1>6. Intact(t, o, clean)
  BY <1>1, <1>4, <1>5 DEF Intact, Fine, Drawn
<1>7. Lit(s, o) => Drawn(t, o)
  BY <1>1, <1>4 DEF Lit, Drawn
<1> QED
  BY <1>1, <1>6, <1>7 DEF t

(* output_apply_config.  In a clean state a struct without workspaces, one *)
(* that output_init is about to finish, is only enabled.                   *)
LEMMA ApplyIntact ==
  ASSUME NEW s, NEW o \in Structs, NEW clean \in BOOLEAN, NEW c \in Config, NEW fails,
         Intact(s, o, clean), AllSorted(s), s.name[o] # NULL, DOMAIN s.role = Structs,
         ~s.ub => Lit(s, o),
         clean => /\ s.scene[o] = "live" /\ (s.curr = o => Listed(s.outs, o))
                  /\ \/ Fine(s, o)
                     \/ c.status # "disable" /\ ~c.pos /\ ~s.destroyed[o]
  PROVE  LET t == output_apply_config(s, o, c, fails)
         IN  /\ Intact(t, o, clean)
             /\ ~t.ub => \/ t.name[o] = NULL
                         \/ ~s.ub /\ Drawn(t, o) /\ (s.ws[o] => t.ws[o])
<1> DEFINE r == SetRole(s, o, c)
           p == SetPrio(r, o, c)
           q == Ub(p, c.pos /\ p.scene[o] = "dangling")
           changed == p.prio[o] # s.prio[o]
           off == c.status = "disable" /\ Len(p.outs) > 1
           n == Enable(q, o, changed)
           e == IF off THEN Disable(q, o) ELSE n
           b == Background(e, o)
           t == IF c.role = "peripheral" /\ s.destroyed[o] THEN output_destroy(r, o)
                ELSE IF ModeFails(p, o, c, fails) THEN Disable(p, o) ELSE b
<1>1. output_apply_config(s, o, c, fails) = t
  BY DEF output_apply_config
<1>2. /\ Untouched(s, r) /\ r.outs = s.outs /\ r.curr = s.curr
      /\ r.destroyed = s.destroyed /\ AllSorted(r)
      /\ c.role = "peripheral" => r.role[o] # "permanent"
  <2>1. Quiet(s, r) /\ AllSorted(r)
    BY QuietRole, QuietKeeps DEF AllSorted, Shape
  <2>2. Untouched(s, r)
    BY OtherFields DEF Intact, Cells
  <2>3. r.curr = s.curr /\ r.destroyed = s.destroyed
    BY DEF SetRole, Intact, Cells, IsServer, Fields
  <2>4. c.role = "peripheral" => r = [s EXCEPT !.role[o] = "peripheral"]
    BY DEF SetRole
  <2>5. c.role = "peripheral" => r.role = [s.role EXCEPT ![o] = "peripheral"]
    BY <2>4 DEF Intact, Cells, IsServer, Fields
  <2> HIDE DEF r
  <2>6. c.role = "peripheral" => r.role[o] # "permanent"
    BY <2>5
  <2> QED
    BY <2>1, <2>2, <2>3, <2>6 DEF Quiet
<1> HIDE DEF r
<1>3. c.prio \in Int
  BY ConfigurePrio
<1>4. /\ Untouched(r, p) /\ p.outs = s.outs /\ p.curr = s.curr
      /\ SortedBut(p, o)
  <2>1. SortedBut(p, o)
    BY <1>2, <1>3, PrioMoves
  <2>2. Untouched(r, p)
    BY <1>2, OtherFields DEF Untouched
  <2>3. p.outs = r.outs /\ p.curr = r.curr
    BY <1>2 DEF SetPrio, Untouched, IsServer, Fields
  <2> QED
    BY <1>2, <2>1, <2>2, <2>3
<1> HIDE DEF p
<1>5. Untouched(s, p) /\ Intact(p, o, clean) /\ Intact(r, o, clean)
  BY <1>2, <1>4, UntouchedTwice, UntouchedIntact
<1>6. /\ IsServer(q) /\ q.name = p.name /\ q.scene = p.scene /\ q.bg = p.bg
      /\ q.ws = p.ws /\ q.msgs = p.msgs
      /\ q.ub = (p.ub \/ (c.pos /\ p.scene[o] = "dangling"))
      /\ q.curr = p.curr /\ q.outs = p.outs /\ Shape(q)
  <2>1. Quiet(p, q)
    BY <1>5, QuietUb DEF Intact, Cells
  <2>2. Shape(q)
    BY <1>4, <2>1, QuietKeeps DEF SortedBut
  <2> QED
    BY <1>5, <2>1, <2>2 DEF Ub, Quiet, Intact, Cells, IsServer, Fields
<1> HIDE DEF q
<1>7. c.pos \in BOOLEAN
  BY DEF Config
<1>8. Intact(q, o, clean)
  <2>1. Cells(q)
    BY <1>5, <1>6, <1>7 DEF Intact, Cells
  <2>2. clean => ~q.ub
    BY <1>5, <1>6 DEF Intact, Untouched
  <2> QED
    BY <1>5, <1>6, <2>1, <2>2 DEF Intact, Fine, Drawn
<1>9. ASSUME NEW a, Intact(a, o, clean), Shape(a), a.scene = s.scene, a.ws = s.ws,
             a.msgs = s.msgs, a.curr = s.curr, a.outs = s.outs, s.ub => a.ub,
             clean => Fine(s, o)
      PROVE  LET d == Disable(a, o)
             IN  /\ Intact(d, o, clean)
                 /\ ~d.ub => ~s.ub /\ d.ws[o] /\ d.scene[o] = "dangling"
  <2> DEFINE d == Disable(a, o)
  <2>1. clean => /\ a.scene[o] # "dangling" /\ a.msgs[o] # "raw" /\ a.ws[o]
                 /\ a.curr = o => Listed(a.outs, o)
    BY <1>9 DEF Fine, Drawn
  <2>2. /\ Intact(d, o, clean)
        /\ ~d.ub => /\ ~a.ub /\ d.ws[o]
                    /\ a.scene[o] # "null" => d.scene[o] = "dangling"
    BY <1>9, <2>1, DisableIntact
  <2> HIDE DEF d
  <2>3. ~d.ub => a.scene[o] # "null"
    BY <1>9, <2>2 DEF Lit
  <2> QED
    BY <1>9, <2>2, <2>3 DEF d
<1>10. CASE c.role = "peripheral" /\ s.destroyed[o]
  <2> DEFINE d == output_destroy(r, o)
  <2>1. clean => Fine(r, o) /\ r.scene[o] = "live" /\ (r.curr = o => Listed(r.outs, o))
    BY <1>2, <1>10 DEF Untouched, Fine, Drawn
  <2>2. r.name[o] # NULL /\ r.role[o] # "permanent"
    BY <1>2, <1>10 DEF Untouched
  <2>3. Intact(d, o, clean) /\ d.name[o] = NULL
    BY <1>2, <1>5, <2>1, <2>2, DestroyIntact
  <2> QED
    BY <1>1, <1>10, <2>3
<1>11. CASE ~(c.role = "peripheral" /\ s.destroyed[o]) /\ ModeFails(p, o, c, fails)
  <2> DEFINE d == Disable(p, o)
  <2>1. clean => Fine(s, o)
    BY <1>11 DEF ModeFails
  <2>2. Intact(d, o, clean) /\ (~d.ub => ~s.ub /\ d.ws[o] /\ d.scene[o] = "dangling")
    BY <1>2, <1>4, <1>5, <1>9, <2>1 DEF Untouched, SortedBut
  <2>3. t = d
    BY <1>11
  <2> HIDE DEF d, t
  <2> QED
    BY <1>1, <2>2, <2>3 DEF Drawn
<1>12. CASE ~(c.role = "peripheral" /\ s.destroyed[o]) /\ ~ModeFails(p, o, c, fails)
  <2>1. Intact(e, o, clean) /\ (~e.ub => ~s.ub /\ Lit(e, o) /\ (s.ws[o] => e.ws[o]))
    <3>1. CASE off
      <4>1. clean => Fine(s, o)
        BY <3>1
      <4>2. e = Disable(q, o)
        BY <3>1
      <4> HIDE DEF e
      <4> QED
        BY <1>2, <1>4, <1>5, <1>6, <1>8, <1>9, <4>1, <4>2 DEF Untouched, Lit
    <3>2. CASE ~off
      <4>1. e = n
        BY <3>2
      <4>2. Untouched(q, n)
        BY <1>6, OtherFields
      <4>3. Intact(n, o, clean)
        BY <1>8, <4>2, UntouchedIntact
      <4>4. ~n.ub => Lit(n, o)
        BY <1>5, <1>6, <4>2 DEF Untouched, Lit
      <4> QED
        BY <1>5, <1>6, <4>1, <4>2, <4>3, <4>4 DEF Untouched
    <3> QED
      BY <3>1, <3>2
  <2> HIDE DEF e
  <2>2. Intact(b, o, clean) /\ b.ub = e.ub /\ b.ws = e.ws /\ (Lit(e, o) => Drawn(b, o))
    BY <2>1, BackgroundIntact
  <2>3. t = b
    BY <1>12
  <2> HIDE DEF b, t
  <2> QED
    BY <1>1, <2>1, <2>2, <2>3
<1> QED
  BY <1>10, <1>11, <1>12

(* What a handler promises: the invariant, and no misuse in a clean state. *)
Ends(t, clean) == Intact(t, NULL, FALSE) /\ (clean => ~t.ub)

LEMMA IntactEnds ==
  ASSUME NEW s, NEW clean \in BOOLEAN
  PROVE  /\ Intact(s, NULL, clean) => Ends(s, clean)
         /\ \A o : Intact(s, NULL, clean) => Intact(s, o, clean)
         /\ \A o \in Structs :
              Intact(s, o, clean) /\ (~s.ub => s.name[o] = NULL \/ Fine(s, o))
                => Ends(s, clean)
<1>1. NULL \notin Structs
  BY OutputsAssumption
<1> QED
  BY <1>1 DEF Intact, Ends

LEMMA ConfigureIntact ==
  ASSUME NEW s, NEW o \in Structs, NEW clean \in BOOLEAN, NEW fails,
         Intact(s, NULL, clean), AllSorted(s), s.name[o] # NULL, DOMAIN s.role = Structs,
         clean => (s.curr = o => Listed(s.outs, o))
  PROVE  Ends(output_configure(s, o, fails), clean)
<1> DEFINE c == s.config[s.name[o]]
           t == output_configure(s, o, fails)
<1>1. c \in Config
  BY DEF AllSorted, Shape
<1>2. t = output_apply_config(s, o, c, fails)
  BY DEF output_configure
<1> HIDE DEF c, t
<1>3. o # NULL /\ Intact(s, o, clean)
  BY IntactEnds, OutputsAssumption
<1>4. ~s.ub => Fine(s, o) /\ Lit(s, o) /\ (clean => s.scene[o] = "live")
  BY <1>3 DEF Intact, Fine, Drawn, Lit
<1>5. /\ clean => /\ s.scene[o] = "live" /\ (s.curr = o => Listed(s.outs, o))
                  /\ \/ Fine(s, o)
                     \/ c.status # "disable" /\ ~c.pos /\ ~s.destroyed[o]
      /\ ~s.ub => Lit(s, o)
  BY <1>4 DEF Intact
<1>6. /\ Intact(t, o, clean)
      /\ ~t.ub => \/ t.name[o] = NULL
                  \/ ~s.ub /\ Drawn(t, o) /\ (s.ws[o] => t.ws[o])
  BY <1>1, <1>2, <1>3, <1>5, ApplyIntact, Zenon
<1>7. ~t.ub => t.name[o] = NULL \/ Fine(t, o)
  BY <1>4, <1>6 DEF Fine
<1>8. Ends(t, clean)
  BY <1>6, <1>7, IntactEnds
<1> QED
  BY <1>8 DEF t

LEMMA ReinitIntact ==
  ASSUME NEW s, NEW o \in Structs, NEW clean \in BOOLEAN, NEW fails,
         Intact(s, NULL, clean), AllSorted(s), s.name[o] # NULL, DOMAIN s.role = Structs,
         Listed(s.outs, o)
  PROVE  Ends(Reinit(s, o, fails), clean)
<1> DEFINE d == DestroyScene(s, o)
           r == [d EXCEPT !.scene[o] = "live", !.destroyed[o] = FALSE, !.on[o] = TRUE]
           x == IF s.scene[o] = "null" THEN "null" ELSE "dangling"
<1>1. Reinit(s, o, fails) = output_configure(r, o, fails)
  BY DEF Reinit
<1>2. /\ IsServer(d) /\ d.name = s.name /\ d.scene = [s.scene EXCEPT ![o] = x]
      /\ d.bg = s.bg /\ d.ws = s.ws /\ d.msgs = s.msgs /\ d.role = s.role
      /\ d.ub = (s.ub \/ s.scene[o] = "dangling") /\ Quiet(s, d)
  <2>1. Quiet(s, d)
    BY QuietScene DEF Intact, Cells
  <2> QED
    BY <2>1 DEF DestroyScene, Intact, Cells, IsServer, Fields
<1> HIDE DEF d
<1>3. /\ IsServer(r) /\ r.name = d.name /\ r.scene = [d.scene EXCEPT ![o] = "live"]
      /\ r.bg = d.bg /\ r.ws = d.ws /\ r.msgs = d.msgs /\ r.role = d.role
      /\ r.ub = d.ub /\ Quiet(d, r)
  BY <1>2 DEF Quiet, IsServer, Fields
<1> HIDE DEF r
<1>4. r.scene[o] = "live" /\ \A p \in Structs : p # o => r.scene[p] = s.scene[p]
  BY <1>2, <1>3 DEF Intact, Cells
<1>5. Cells(r)
  BY <1>2, <1>3 DEF Intact, Cells
<1>6. o # NULL /\ (~s.ub => Fine(s, o)) /\ (clean => ~s.ub /\ s.scene[o] = "live")
  BY OutputsAssumption DEF Intact
<1>7. ASSUME ~r.ub, NEW p \in Structs, r.name[p] # NULL
      PROVE  Fine(r, p) /\ (clean => r.scene[p] = "live")
  <2>1. ~s.ub /\ s.scene[o] # "dangling" /\ p # NULL
    BY <1>2, <1>3, <1>7, OutputsAssumption
  <2>2. Fine(s, p) /\ (clean => s.scene[p] = "live")
    BY <1>2, <1>3, <1>7, <2>1 DEF Intact
  <2> QED
    BY <1>2, <1>3, <1>4, <2>1, <2>2 DEF Fine, Drawn
<1>8. Intact(r, NULL, clean)
  <2>1. clean => ~r.ub
    BY <1>2, <1>3, <1>6
  <2> QED
    BY <1>5, <1>7, <2>1 DEF Intact
<1>9. AllSorted(r) /\ r.outs = s.outs /\ r.name = s.name
  BY <1>2, <1>3, QuietKeeps DEF Quiet
<1>10. Ends(output_configure(r, o, fails), clean)
  BY <1>2, <1>3, <1>8, <1>9, ConfigureIntact
<1> QED
  BY <1>1, <1>10

(* output_insert lists its output.                                         *)
LEMMA InsertLists ==
  ASSUME NEW s, NEW o \in Structs, AllSorted(s), ~Listed(s.outs, o)
  PROVE  Listed(output_insert(s, o).outs, o)
<1> DEFINE i == CHOOSE i \in 1 .. Len(s.outs) + 1 : IsPlace(s, o, i)
           r == InsertAt(s.outs, i, o)
<1>1. s.outs \in Seq(Structs) /\ s.prio \in [Structs -> Int] /\ Distinct(s.outs)
  BY DEF AllSorted, Shape
<1>2. \A k : IsPlace(s, o, k) <=> IsPlaceIn(s.outs, s.prio, o, k)
  BY DEF IsPlace, IsPlaceIn
<1>3. \E k \in 1 .. Len(s.outs) + 1 : IsPlace(s, o, k)
  BY <1>1, <1>2, PlaceExists
<1>4. i \in 1 .. Len(s.outs) + 1
  BY <1>3
<1>5. output_insert(s, o).outs = r
  BY DEF output_insert, AllSorted, Shape, IsServer, Fields
<1> HIDE DEF i
<1>6. ToSet(r) = ToSet(s.outs) \cup {o}
  BY <1>1, <1>4, Spliced DEF Listed
<1> QED
  BY <1>5, <1>6 DEF Listed

(* A new output has no workspaces before output_configure is through: only *)
(* a stored `disable` or a refused mode would look for them.               *)
LEMMA NewOutputIntact ==
  ASSUME NEW s, NEW o \in Structs, NEW m \in Monitors, NEW clean \in BOOLEAN, NEW fails,
         Intact(s, NULL, clean), AllSorted(s), s.name[o] = NULL, DOMAIN s.role = Structs,
         clean => s.config[m].status # "disable" /\ ~s.config[m].pos,
         DOMAIN s.destroyed = Structs
  PROVE  Ends(NewOutput(s, o, m, fails), clean)
<1> DEFINE n == Fresh(s, o, m)
           i == output_insert(n, o)
           d == output_configure(i, o, fails)
           c == i.config[i.name[o]]
           t == [d EXCEPT !.ws[o] = TRUE, !.curr = IF @ = NULL THEN o ELSE @]
<1>1. NewOutput(s, o, m, fails) = t
  BY DEF NewOutput, Fresh
<1>2. /\ IsServer(n) /\ n.name = [s.name EXCEPT ![o] = m]
      /\ n.scene = [s.scene EXCEPT ![o] = "live"] /\ n.bg = [s.bg EXCEPT ![o] = FALSE]
      /\ n.ws = [s.ws EXCEPT ![o] = FALSE] /\ n.msgs = [s.msgs EXCEPT ![o] = "none"]
      /\ n.ub = s.ub /\ n.role = [s.role EXCEPT ![o] = "peripheral"]
      /\ n.destroyed = [s.destroyed EXCEPT ![o] = FALSE]
      /\ n.outs = s.outs /\ n.config = s.config
  BY DEF Fresh, Intact, Cells, IsServer, Fields
<1>3. AllSorted(i) /\ i.name[o] = m
  BY FreshListed
<1>4. Untouched(n, i)
  BY <1>2, OtherFields
<1>5. i.role = n.role /\ i.destroyed = n.destroyed /\ i.config = n.config
  BY <1>2 DEF output_insert, IsServer, Fields
<1>13. Listed(i.outs, o)
  <2>1. ~Listed(n.outs, o)
    BY <1>2 DEF AllSorted, Shape
  <2>2. AllSorted(n)
    BY FreshListed
  <2> QED
    BY <2>1, <2>2, InsertLists
<1> HIDE DEF n, i, d, t
<1>6. /\ n.name[o] = m /\ n.scene[o] = "live" /\ n.msgs[o] = "none"
      /\ \A p \in Structs \ {o} :
           /\ n.name[p] = s.name[p] /\ n.scene[p] = s.scene[p] /\ n.bg[p] = s.bg[p]
           /\ n.ws[p] = s.ws[p] /\ n.msgs[p] = s.msgs[p]
  BY <1>2 DEF Intact, Cells
<1>7. Intact(n, o, clean)
  <2>1. Cells(n)
    BY <1>2 DEF Intact, Cells
  <2>2. NULL \notin Structs
    BY OutputsAssumption
  <2> QED
    BY <1>2, <1>6, <2>1, <2>2 DEF Intact, Fine, Drawn
<1>8. Intact(i, o, clean) /\ Lit(i, o) /\ i.scene[o] = "live"
  BY <1>4, <1>6, <1>7, UntouchedIntact DEF Untouched, Lit
<1>9. m # NULL
  BY OutputsAssumption
<1>10. c \in Config /\ c = s.config[m]
  BY <1>2, <1>3, <1>5 DEF AllSorted, Shape
<1>11. ~i.destroyed[o] /\ DOMAIN i.role = Structs
  BY <1>2, <1>5
<1> HIDE DEF c
<1>12. d = output_apply_config(i, o, c, fails)
  BY DEF d, c, output_configure
<1>14. /\ Intact(d, o, clean)
       /\ ~d.ub => d.name[o] = NULL \/ Drawn(d, o)
  BY <1>3, <1>8, <1>9, <1>10, <1>11, <1>12, <1>13, ApplyIntact
<1>15. /\ IsServer(t) /\ t.name = d.name /\ t.scene = d.scene /\ t.bg = d.bg
       /\ t.ws = [d.ws EXCEPT ![o] = TRUE] /\ t.msgs = d.msgs /\ t.ub = d.ub
  BY <1>14 DEF t, Intact, Cells, IsServer, Fields
<1>16. t.ws[o] /\ \A p \in Structs \ {o} : t.ws[p] = d.ws[p]
  BY <1>14, <1>15 DEF Intact, Cells
<1>17. Cells(t)
  BY <1>14, <1>15 DEF Intact, Cells
<1>18. Intact(t, o, clean)
  BY <1>14, <1>15, <1>16, <1>17 DEF Intact, Fine, Drawn
<1>19. ~t.ub => t.name[o] = NULL \/ Fine(t, o)
  BY <1>14, <1>15, <1>16 DEF Fine, Drawn
<1>20. Ends(t, clean)
  BY <1>18, <1>19, IntactEnds
<1> QED
  BY <1>1, <1>20

(* Where a step starts: the two older invariants, and that of memory.      *)
Ready(clean) ==
  /\ SortInv(server) /\ Held(server) /\ Intact(server, NULL, clean)

(* Whatever a handler leaves.                                              *)
Outcome(clean) == Intact(server, NULL, FALSE)' /\ (clean => ~server'.ub)

LEMMA StepOutcome ==
  ASSUME NEW clean \in BOOLEAN, NEW phases, NEW t, Step(phases, t), Ends(t, clean)
  PROVE  Outcome(clean)
<1> DEFINE u == [Start EXCEPT !.ub = TRUE]
<1>1. Cells(u) /\ u.ub
  BY DEF Start, Cells, IsServer, Fields
<1> HIDE DEF u
<1>2. Intact(u, NULL, FALSE)
  BY <1>1 DEF Intact
<1>3. server' = IF t.ub THEN u ELSE t
  BY DEF Step, u
<1>4. CASE t.ub
  BY <1>2, <1>3, <1>4 DEF Ends, Outcome
<1>5. CASE ~t.ub
  BY <1>3, <1>5 DEF Ends, Outcome
<1> QED
  BY <1>4, <1>5

LEMMA UntouchedOutcome ==
  ASSUME NEW clean \in BOOLEAN, Ready(clean), NEW phases, NEW t, Step(phases, t),
         NEW s, Intact(s, NULL, clean), Untouched(s, t)
  PROVE  Outcome(clean)
BY UntouchedIntact, IntactEnds, StepOutcome

(* The current output of a program that runs or reads its configuration.   *)
LEMMA ClearedIntact ==
  ASSUME NEW clean \in BOOLEAN, Ready(clean), NEW phases, NEW t, Step(phases, t),
         phases \in {{"config", "running"}, {"running"}}
  PROVE  /\ Intact(Cleared, NULL, clean) /\ AllSorted(Cleared) /\ Quiet(server, Cleared)
         /\ Cleared.curr = server.curr /\ Cleared.role = server.role
         /\ server.curr \in Structs /\ server.name[server.curr] # NULL
         /\ Listed(server.outs, server.curr)
         /\ Sound(server) /\ ToSet(server.todo) = {}
<1>1. /\ Sound(server) /\ ToSet(server.todo) = {} /\ Use(server) = ToSet(server.outs)
      /\ server.curr # NULL
  BY HeldBefore DEF Ready
<1>2. server.curr \in ToSet(server.outs) /\ server.curr \in Structs
  BY <1>1 DEF Sound, Refs, Consistent, ServerType
<1>3. server.name[server.curr] # NULL
  BY <1>1, <1>2 DEF Sound, Consistent, Lists
<1>4. IsServer(server) /\ AllSorted(server)
  BY DEF Ready, SortInv, Intact, Cells
<1>5. Quiet(server, Cleared)
  BY <1>4, QuietMessages DEF Cleared, Quiet
<1>6. AllSorted(Cleared)
  BY <1>4, <1>5, QuietKeeps
<1>7. Intact(message_clear(server, server.curr), NULL, clean)
  BY <1>2, <1>3, TalkIntact, OutputsAssumption DEF Ready
<1>8. Intact(Cleared, NULL, clean)
  BY <1>7 DEF Cleared, Ready
<1>9. Cleared.curr = server.curr /\ Cleared.role = server.role
  BY <1>4 DEF Cleared, message_clear, IsServer, Fields
<1> QED
  BY <1>1, <1>2, <1>3, <1>5, <1>6, <1>8, <1>9 DEF Listed

(* Messages and the current output.                                        *)
LEMMA TalkOutcome ==
  ASSUME NEW clean \in BOOLEAN, Ready(clean), CycleOutputs \/ SwitchOutput \/ ShowMessage
  PROVE  Outcome(clean)
<1>1. ASSUME NEW t, Command(t)
      PROVE  /\ Intact(Cleared, NULL, clean) /\ AllSorted(Cleared)
             /\ Quiet(server, Cleared) /\ Cleared.curr = server.curr
             /\ server.curr \in Structs /\ server.name[server.curr] # NULL
             /\ Listed(server.outs, server.curr)
  BY <1>1, ClearedIntact DEF Command
<1>2. NULL \notin Structs
  BY OutputsAssumption
<1>3. CASE CycleOutputs
  <2>1. PICK reverse \in BOOLEAN : Command(keybinding_cycle_outputs(Cleared, reverse))
    BY <1>3 DEF CycleOutputs
  <2> DEFINE t == keybinding_cycle_outputs(Cleared, reverse)
  <2>2. Intact(t, NULL, clean)
    BY <1>1, <1>2, <2>1, CycleIntact DEF Quiet, AllSorted
  <2> HIDE DEF t
  <2>3. Ends(t, clean)
    BY <2>2, IntactEnds
  <2> QED
    BY <2>1, <2>3, StepOutcome DEF Command, t
<1>4. CASE SwitchOutput
  <2>1. PICK i \in DOMAIN server.outs : Command(set_output(Cleared, server.outs[i]))
    BY <1>4 DEF SwitchOutput
  <2> DEFINE o == server.outs[i]
             t == set_output(Cleared, o)
  <2>2. o \in Structs /\ server.name[o] # NULL
    <3>1. server.outs \in Seq(Structs) /\ \A p : Listed(server.outs, p) => server.name[p] # NULL
      BY DEF Ready, SortInv, AllSorted, Shape
    <3> QED
      BY <2>1, <3>1, ElementOfSeq, LenProperties DEF Listed, ToSet
  <2>3. Command(t)
    BY <2>1
  <2> HIDE DEF o
  <2>4. Intact(t, NULL, clean)
    BY <1>1, <1>2, <2>2, <2>3, TalkIntact DEF Quiet
  <2> HIDE DEF t
  <2>5. Ends(t, clean)
    BY <2>4, IntactEnds
  <2> QED
    BY <2>3, <2>5, StepOutcome DEF Command
<1>5. CASE ShowMessage
  <2>1. ASSUME NEW s, Intact(s, NULL, clean), NEW q \in Structs, s.name[q] # NULL,
               NEW phases, Step(phases, message_printf(s, q))
        PROVE  Outcome(clean)
    <3>1. Intact(message_printf(s, q), NULL, clean)
      BY <1>2, <2>1, TalkIntact
    <3>2. Ends(message_printf(s, q), clean)
      BY <3>1, IntactEnds
    <3> QED
      BY <2>1, <3>2, StepOutcome
  <2>2. CASE Command(message_printf(Cleared, server.curr))
    <3>1. /\ Intact(Cleared, NULL, clean) /\ server.curr \in Structs
          /\ Cleared.name[server.curr] # NULL
      BY <1>1, <2>2 DEF Quiet
    <3> QED
      BY <2>1, <2>2, <3>1 DEF Command
  <2>3. CASE Step({"running"}, message_printf(server, server.curr))
    <3>1. server.curr \in Structs /\ server.name[server.curr] # NULL
      BY <2>3, ClearedIntact
    <3>2. Intact(server, NULL, clean)
      BY DEF Ready
    <3> QED
      BY <2>1, <2>3, <3>1, <3>2
  <2> QED
    BY <1>5, <2>2, <2>3 DEF ShowMessage
<1> QED
  BY <1>3, <1>4, <1>5

(* Start-up, settings, backgrounds and views.                              *)
LEMMA SettingsOutcome ==
  ASSUME NEW clean \in BOOLEAN, Ready(clean),
         ReadConfig \/ StartSorting \/ Run \/ ConfigureMessage \/ SetBackground \/ NewView
  PROVE  Outcome(clean)
<1>1. IsServer(server) /\ Intact(server, NULL, clean)
  BY DEF Ready, Intact, Cells
<1>2. CASE ReadConfig
  <2>1. Untouched(server, [server EXCEPT !.phase = "config"])
    BY <1>1 DEF Untouched, IsServer, Fields
  <2> QED
    BY <1>1, <1>2, <2>1, UntouchedOutcome DEF ReadConfig
<1>3. CASE StartSorting
  <2>1. Untouched(server, [server EXCEPT !.phase = "sorting", !.todo = server.outs,
                                         !.outs = <<>>])
    BY <1>1 DEF Untouched, IsServer, Fields
  <2> QED
    BY <1>1, <1>3, <2>1, UntouchedOutcome DEF StartSorting
<1>4. CASE Run
  <2> DEFINE s == [server EXCEPT !.curr = Head(server.outs), !.phase = "running"]
             u == Ub(server, TRUE)
  <2>1. server.todo = <<>> /\ Step({"sorting"}, IF server.outs = <<>> THEN u ELSE s)
    BY <1>4 DEF Run
  <2>2. server.outs # <<>>
    <3> DEFINE x == IF server.outs = <<>> THEN u ELSE s
    <3>0. Step({"sorting"}, x) /\ Held(server)
      BY <2>1 DEF Ready
    <3> HIDE DEF x
    <3>1. Sound(server) /\ server.curr # NULL
      <4>1. "stopped" \notin {"sorting"} /\ "backend" \notin {"sorting"}
        OBVIOUS
      <4> QED
        BY <3>0, <4>1, HeldBefore
    <3>2. ToSet(<<>>) = {}
      BY EmptySeq, LenProperties DEF ToSet
    <3>3. server.curr \in ToSet(server.outs) \cup ToSet(server.todo)
      BY <3>1 DEF Sound, Refs, Use
    <3> QED
      BY <2>1, <3>2, <3>3
  <2>3. Untouched(server, s)
    BY <1>1 DEF Untouched, IsServer, Fields
  <2>4. Step({"sorting"}, s)
    BY <2>1, <2>2
  <2> HIDE DEF s
  <2> QED
    BY <1>1, <2>3, <2>4, UntouchedOutcome
<1>5. CASE ConfigureMessage
  <2>1. ASSUME NEW t, Command(t), Untouched(Cleared, t)
        PROVE  Outcome(clean)
    <3>1. Intact(Cleared, NULL, clean) /\ Step({"config", "running"}, t)
      BY <2>1, ClearedIntact DEF Command
    <3> QED
      BY <2>1, <3>1, UntouchedOutcome
  <2>2. IsServer(Cleared)
    BY <1>1, QuietMessages DEF Cleared, Quiet
  <2>3. ASSUME NEW e
        PROVE  /\ Untouched(Cleared, [Cleared EXCEPT !.messages = e])
               /\ Untouched(Cleared, [Cleared EXCEPT !.timed = e])
    BY <2>2 DEF Untouched, IsServer, Fields
  <2> QED
    BY <1>5, <2>1, <2>3 DEF ConfigureMessage
<1>6. CASE SetBackground
  <2> DEFINE broken == \E o \in Structs :
               (Listed(Cleared.outs, o) \/ Listed(Cleared.disabled, o)) /\ ~Cleared.bg[o]
             t == Ub(Cleared, broken)
  <2>1. Command(t)
    BY <1>6 DEF SetBackground, keybinding_set_background
  <2>2. /\ Intact(Cleared, NULL, clean) /\ Quiet(server, Cleared) /\ Sound(server)
    BY <2>1, ClearedIntact DEF Command
  <2>3. clean => ~broken
    <3>1. ASSUME clean, NEW o \in Structs,
                 Listed(Cleared.outs, o) \/ Listed(Cleared.disabled, o)
          PROVE  Cleared.bg[o]
      <4>1. Cleared.name[o] # NULL
        BY <2>2, <3>1 DEF Quiet, Sound, Consistent, Lists, Use, Listed
      <4>2. o # NULL
        BY OutputsAssumption
      <4> QED
        BY <2>2, <3>1, <4>1, <4>2 DEF Intact, Fine, Drawn
    <3> QED
      BY <3>1
  <2>4. broken \in BOOLEAN
    OBVIOUS
  <2> HIDE DEF broken
  <2>5. /\ IsServer(t) /\ t.name = Cleared.name /\ t.scene = Cleared.scene
        /\ t.bg = Cleared.bg /\ t.ws = Cleared.ws /\ t.msgs = Cleared.msgs
        /\ t.ub = (Cleared.ub \/ broken)
    BY <2>2 DEF Ub, Intact, Cells, IsServer, Fields
  <2> HIDE DEF t
  <2>6. Cells(t)
    BY <2>2, <2>4, <2>5 DEF Intact, Cells
  <2>7. Intact(t, NULL, clean)
    BY <2>2, <2>3, <2>5, <2>6 DEF Intact, Fine, Drawn
  <2>8. Ends(t, clean)
    BY <2>7, IntactEnds
  <2> QED
    BY <2>1, <2>8, StepOutcome DEF Command
<1>7. CASE NewView
  <2>1. PICK v \in Views : Step({"running"}, [server EXCEPT !.home[v] = server.curr])
    BY <1>7 DEF NewView
  <2>2. Untouched(server, [server EXCEPT !.home[v] = server.curr])
    BY <1>1 DEF Untouched, IsServer, Fields
  <2> QED
    BY <1>1, <2>1, <2>2, UntouchedOutcome
<1> QED
  BY <1>2, <1>3, <1>4, <1>5, <1>6, <1>7

(* The timer destroys the scene nodes of the messages of listed outputs.   *)
LEMMA SigalrmOutcome ==
  ASSUME NEW clean \in BOOLEAN, Ready(clean), Sigalrm
  PROVE  Outcome(clean)
<1> DEFINE broken == \E o \in Structs : Listed(server.outs, o) /\ server.msgs[o] = "raw"
           msgs == [o \in Structs |->
                      IF Listed(server.outs, o) THEN "none" ELSE server.msgs[o]]
           t == [server EXCEPT !.alarm = FALSE, !.ub = broken, !.msgs = msgs]
<1>1. Step({"running"}, t) /\ ~server.ub
  BY DEF Sigalrm, Step
<1>2. Intact(server, NULL, clean) /\ \A p : Listed(server.outs, p) => server.name[p] # NULL
  BY DEF Ready, SortInv, AllSorted, Shape
<1>3. clean => ~broken
  <2>1. NULL \notin Structs
    BY OutputsAssumption
  <2> QED
    BY <1>2, <2>1 DEF Intact, Fine, Drawn
<1>4. broken \in BOOLEAN /\ msgs \in [Structs -> {"none", "shown", "raw"}]
  BY <1>2 DEF Intact, Cells
<1>5. \A p \in Structs : msgs[p] \in {"none", server.msgs[p]}
  OBVIOUS
<1> HIDE DEF broken, msgs
<1>6. /\ IsServer(t) /\ t.name = server.name /\ t.scene = server.scene
      /\ t.bg = server.bg /\ t.ws = server.ws /\ t.msgs = msgs /\ t.ub = broken
  BY <1>2 DEF Intact, Cells, IsServer, Fields
<1> HIDE DEF t
<1>7. Cells(t)
  BY <1>2, <1>4, <1>6 DEF Intact, Cells
<1>8. Intact(t, NULL, clean)
  BY <1>1, <1>2, <1>3, <1>5, <1>6, <1>7 DEF Intact, Fine, Drawn
<1>9. Ends(t, clean)
  BY <1>8, IntactEnds
<1> QED
  BY <1>1, <1>9, StepOutcome

(* The `output` command.                                                   *)
LEMMA ConfigureOutcome ==
  ASSUME NEW clean \in BOOLEAN, Ready(clean), ConfigureOutput
  PROVE  Outcome(clean)
<1>1. PICK m \in Monitors, c \in Keywords, fails \in BOOLEAN :
        Command(keybinding_configure_output(Cleared, m, c, fails))
  BY DEF ConfigureOutput
<1> DEFINE k == merge_config(c, Cleared.config[m])
           s == [Cleared EXCEPT !.config[m] = k]
           o == Named(Cleared, Cleared.outs \o Cleared.disabled, m)
           t == keybinding_configure_output(Cleared, m, c, fails)
<1>2. /\ Intact(Cleared, NULL, clean) /\ AllSorted(Cleared) /\ Quiet(server, Cleared)
      /\ Cleared.curr = server.curr /\ Cleared.role = server.role
      /\ Listed(server.outs, server.curr)
  BY <1>1, ClearedIntact DEF Command
<1>3. t = IF o = NULL THEN s ELSE output_configure(s, o, fails)
  BY DEF keybinding_configure_output
<1>4. k \in Config
  <2>1. c \in Config /\ Cleared.config[m] \in Config
    BY <1>1, <1>2, KeywordsAreConfigs DEF AllSorted, Shape
  <2> QED
    BY <2>1 DEF merge_config, Config
<1>5. o # NULL => o \in Structs /\ Cleared.name[o] = m
  <2>1. Cleared.outs \o Cleared.disabled \in Seq(Structs)
    BY <1>2, ConcatProperties DEF AllSorted, Shape
  <2> QED
    BY <2>1, NamedHasName, Zenon
<1> HIDE DEF k
<1>6. /\ IsServer(s) /\ s.outs = Cleared.outs /\ s.disabled = Cleared.disabled
      /\ s.prio = Cleared.prio /\ s.name = Cleared.name /\ s.curr = Cleared.curr
      /\ s.role = Cleared.role /\ s.config = [Cleared.config EXCEPT ![m] = k]
      /\ Untouched(Cleared, s)
  BY <1>2 DEF Untouched, AllSorted, Shape, IsServer, Fields
<1> HIDE DEF s, o, t
<1>7. AllSorted(s)
  BY <1>2, <1>4, <1>6 DEF AllSorted, Shape
<1>8. Intact(s, NULL, clean)
  BY <1>2, <1>6, UntouchedIntact
<1>9. DOMAIN s.role = Structs /\ m # NULL
  <2>1. server \in ServerType
    BY DEF Ready, Held, UseInv, Consistent
  <2> QED
    BY <1>2, <1>6, <2>1, OutputsAssumption DEF ServerType
<1>10. Listed(s.outs, s.curr)
  BY <1>2, <1>6 DEF Quiet
<1>11. Ends(t, clean)
  <2>1. CASE o = NULL
    BY <1>3, <1>8, <2>1, IntactEnds
  <2>2. CASE o # NULL
    BY <1>3, <1>5, <1>6, <1>7, <1>8, <1>9, <1>10, <2>2, ConfigureIntact
  <2> QED
    BY <2>1, <2>2
<1> QED
  BY <1>1, <1>11, StepOutcome DEF Command, t

(* Listing the outputs again after the configuration file.                 *)
LEMMA ResortOutcome ==
  ASSUME NEW clean \in BOOLEAN, Ready(clean), Resort
  PROVE  Outcome(clean)
<1> DEFINE o == Head(server.todo)
           s == [server EXCEPT !.todo = Tail(@)]
           i == output_insert(s, o)
<1>1. PICK fails \in BOOLEAN :
        /\ server.todo # <<>>
        /\ Step({"sorting"}, output_configure(i, o, fails))
  BY DEF Resort
<1>2. /\ o \in Structs /\ server.name[o] # NULL /\ ~Listed(server.outs, o)
      /\ AllSorted(server)
  BY <1>1, Taken DEF Ready, SortInv, Listed
<1>3. Intact(server, NULL, clean) /\ server \in ServerType
  BY DEF Ready, Held, UseInv, Consistent
<1> HIDE DEF o, s, i
<1>4. /\ Untouched(server, s) /\ s.outs = server.outs /\ s.disabled = server.disabled
      /\ s.prio = server.prio /\ s.config = server.config /\ s.role = server.role
  BY <1>2 DEF s, Untouched, AllSorted, Shape, IsServer, Fields
<1>5. AllSorted(s)
  BY <1>2, <1>4 DEF Untouched, AllSorted, Shape
<1>6. AllSorted(i) /\ Listed(i.outs, o)
  BY <1>2, <1>4, <1>5, InsertSorts, InsertLists DEF i, Untouched
<1>7. Untouched(s, i) /\ i.role = s.role
  BY <1>4, OtherFields DEF i, output_insert, Untouched, IsServer, Fields
<1>8. Intact(i, NULL, clean)
  BY <1>3, <1>4, <1>7, UntouchedTwice, UntouchedIntact
<1>9. i.name[o] # NULL /\ DOMAIN i.role = Structs
  BY <1>2, <1>3, <1>4, <1>7 DEF Untouched, ServerType
<1>10. Ends(output_configure(i, o, fails), clean)
  BY <1>2, <1>6, <1>8, <1>9, ConfigureIntact
<1> QED
  BY <1>1, <1>10, StepOutcome

(* A monitor comes.                                                        *)
LEMMA PlugOutcome ==
  ASSUME NEW clean \in BOOLEAN, Ready(clean), Plug,
         clean => \A m \in Monitors :
                    server.config[m].status # "disable" /\ ~server.config[m].pos
  PROVE  Outcome(clean)
<1>1. PICK m \in Monitors \ server.plugged, fails \in BOOLEAN :
        LET s == [server EXCEPT !.plugged = @ \cup {m}]
        IN  \/ \E o \in Waiting(server, m) : Step({"running"}, Reinit(s, o, fails))
            \/ \E o \in Structs :
                 /\ server.name[o] = NULL
                 /\ Step({"backend", "running"}, NewOutput(s, o, m, fails))
  BY DEF Plug
<1> DEFINE s == [server EXCEPT !.plugged = @ \cup {m}]
<1>2. AllSorted(server) /\ Intact(server, NULL, clean) /\ server \in ServerType
  BY DEF Ready, SortInv, Held, UseInv, Consistent
<1>3. /\ Untouched(server, s) /\ s.outs = server.outs /\ s.disabled = server.disabled
      /\ s.prio = server.prio /\ s.config = server.config /\ s.role = server.role
      /\ s.destroyed = server.destroyed
  BY <1>2 DEF Untouched, AllSorted, Shape, IsServer, Fields
<1>4. \/ \E o \in Waiting(server, m) : Step({"running"}, Reinit(s, o, fails))
      \/ \E o \in Structs :
           /\ server.name[o] = NULL
           /\ Step({"backend", "running"}, NewOutput(s, o, m, fails))
  BY <1>1
<1> HIDE DEF s
<1>5. AllSorted(s) /\ Intact(s, NULL, clean)
  BY <1>2, <1>3, UntouchedIntact DEF Untouched, AllSorted, Shape
<1>6. DOMAIN s.role = Structs /\ DOMAIN s.destroyed = Structs
  BY <1>2, <1>3 DEF ServerType
<1>7. m \in Monitors /\ m # NULL
  BY OutputsAssumption
<1>8. ASSUME NEW o \in Waiting(server, m), Step({"running"}, Reinit(s, o, fails))
      PROVE  Outcome(clean)
  <2>1. o \in Structs /\ Listed(s.outs, o) /\ s.name[o] # NULL
    BY <1>3, <1>7, <1>8 DEF Waiting, Untouched
  <2>2. Ends(Reinit(s, o, fails), clean)
    BY <1>5, <1>6, <2>1, ReinitIntact
  <2> QED
    BY <1>8, <2>2, StepOutcome
<1>9. ASSUME NEW o \in Structs, server.name[o] = NULL,
             Step({"backend", "running"}, NewOutput(s, o, m, fails))
      PROVE  Outcome(clean)
  <2>1. s.name[o] = NULL
    BY <1>3, <1>9 DEF Untouched
  <2>2. clean => s.config[m].status # "disable" /\ ~s.config[m].pos
    BY <1>3, <1>7
  <2>3. Ends(NewOutput(s, o, m, fails), clean)
    BY <1>5, <1>6, <1>7, <2>1, <2>2, NewOutputIntact
  <2> QED
    BY <1>9, <2>3, StepOutcome
<1> QED
  BY <1>4, <1>8, <1>9

(* A monitor goes.                                                         *)
LEMMA UnplugOutcome ==
  ASSUME NEW clean \in BOOLEAN, Ready(clean), Unplug
  PROVE  Outcome(clean)
<1>1. PICK m \in server.plugged, o \in Structs :
        /\ server.name[o] = m /\ ~server.destroyed[o]
        /\ Step({"running"}, output_destroy([server EXCEPT !.plugged = @ \ {m}], o))
  BY DEF Unplug
<1> DEFINE s == [server EXCEPT !.plugged = @ \ {m}]
           t == output_destroy(s, o)
<1>2. AllSorted(server) /\ Intact(server, NULL, clean) /\ server \in ServerType
  BY DEF Ready, SortInv, Held, UseInv, Consistent
<1>3. /\ Untouched(server, s) /\ s.outs = server.outs /\ s.disabled = server.disabled
      /\ s.prio = server.prio /\ s.config = server.config /\ s.role = server.role
      /\ s.destroyed = server.destroyed /\ s.curr = server.curr
  BY <1>2 DEF Untouched, AllSorted, Shape, IsServer, Fields
<1>4. Step({"running"}, t)
  BY <1>1
<1> HIDE DEF s
<1>5. AllSorted(s) /\ Intact(s, NULL, clean)
  BY <1>2, <1>3, UntouchedIntact DEF Untouched, AllSorted, Shape
<1>6. ~s.destroyed[o] /\ s.name[o] # NULL /\ o # NULL
  BY <1>1, <1>2, <1>3, OutputsAssumption DEF Untouched, ServerType
<1>7. Intact(s, o, clean)
  BY <1>5, IntactEnds
<1>8. ~s.ub => Fine(s, o) /\ (clean => s.scene[o] = "live")
  BY <1>5, <1>6 DEF Intact
<1>9. clean => ~s.ub
  BY <1>5 DEF Intact
<1>10. Listed(s.outs, s.curr)
  BY <1>3, <1>4, ClearedIntact
<1> HIDE DEF t
<1>11. /\ Intact(t, o, clean)
       /\ ~t.ub => t.name[o] = NULL \/ Fine(t, o)
  <2>1. s.role[o] = "permanent" => ~s.destroyed[o] /\ (~s.ub => Fine(s, o))
    BY <1>6, <1>8
  <2>2. clean => Fine(s, o) /\ s.scene[o] = "live" /\ (s.curr = o => Listed(s.outs, o))
    BY <1>8, <1>9, <1>10
  <2> QED
    BY <1>5, <1>6, <1>7, <2>1, <2>2, DestroyIntact DEF t
<1>12. Ends(t, clean)
  BY <1>11, IntactEnds
<1> QED
  BY <1>4, <1>12, StepOutcome

LEMMA NextOutcome ==
  ASSUME NEW clean \in BOOLEAN, Ready(clean), Next,
         clean => \A m \in Monitors :
                    server.config[m].status # "disable" /\ ~server.config[m].pos
  PROVE  Outcome(clean)
<1>1. CASE \/ ReadConfig \/ StartSorting \/ Run
           \/ ConfigureMessage \/ SetBackground \/ NewView
  BY <1>1, SettingsOutcome
<1>2. CASE CycleOutputs \/ SwitchOutput \/ ShowMessage
  BY <1>2, TalkOutcome
<1>3. CASE Resort
  BY <1>3, ResortOutcome
<1>4. CASE ConfigureOutput
  BY <1>4, ConfigureOutcome
<1>5. CASE Sigalrm
  BY <1>5, SigalrmOutcome
<1>6. CASE Plug
  BY <1>6, PlugOutcome
<1>7. CASE Unplug
  BY <1>7, UnplugOutcome
<1> QED
  BY <1>1, <1>2, <1>3, <1>4, <1>5, <1>6, <1>7 DEF Next

LEMMA IntactAtStart == Intact(Start, NULL, FALSE)
<1>1. /\ Cells(Start) /\ Start.name = [o \in Structs |-> NULL]
  BY DEF Start, Cells, IsServer, Fields
<1> QED
  BY <1>1 DEF Intact

LEMMA IntactInductive ==
  Ready(FALSE) /\ [Next]_server => Intact(server, NULL, FALSE)'
<1>1. ASSUME Ready(FALSE), UNCHANGED server
      PROVE  Intact(server, NULL, FALSE)'
  BY <1>1 DEF Ready
<1>2. ASSUME Ready(FALSE), Next
      PROVE  Intact(server, NULL, FALSE)'
  BY <1>2, NextOutcome DEF Outcome
<1> QED
  BY <1>1, <1>2

(* Plugging, roles, priorities, views, messages and backgrounds never use  *)
(* freed, null or uninitialised memory: where that happens, a `disable` or *)
(* a mode that may be refused is stored, or the scene output of a struct   *)
(* is gone because the output was disabled (output.c, message.c).          *)
THEOREM MemoryAroundDisabled ==
  ASSUME "last_fails" \notin Inputs
  PROVE  Spec => UbNeedsDisabled
<1> DEFINE Inv == SortInv(server) /\ Held(server) /\ Intact(server, NULL, FALSE)
<1>1. Init => Inv
  BY SortedAtStart, HeldAtStart, IntactAtStart DEF Init
<1>2. Inv /\ [Next]_server => Inv'
  BY SortedInductive, HeldInductive, IntactInductive DEF Ready
<1>3. Inv /\ [Next]_server => [server'.ub => AroundDisabled \/ server.ub]_server
  <2> SUFFICES ASSUME Inv, Next, ~AroundDisabled, ~server.ub
               PROVE  ~server'.ub
    OBVIOUS
  <2>1. Ready(TRUE)
    BY DEF Ready, Intact, AroundDisabled, Fine, Drawn
  <2>2. \A m \in Monitors : server.config[m].status # "disable" /\ ~server.config[m].pos
    BY DEF AroundDisabled
  <2>3. Outcome(TRUE)
    BY <2>1, <2>2, NextOutcome
  <2> QED
    BY <2>3 DEF Outcome
<1> HIDE DEF Inv
<1> QED
  BY <1>1, <1>2, <1>3, PTL DEF Spec, UbNeedsDisabled
=============================================================================
