---------------------------- MODULE TilingProofs ----------------------------
(***************************************************************************)
(* Proofs about the ring of tiles of Tiling, for any number of tiles, any  *)
(* size of the output and any arguments of the commands.                   *)
(***************************************************************************)
EXTENDS Tiling, ListProofs, FiniteSetTheorems

Facts == INSTANCE TileLayoutProofs

-----------------------------------------------------------------------------
(* Walking along the links.                                                *)

Stay == [t \in live |-> t]

Link(h) == [t \in live |-> next[h[t]]]

(* The first n steps of the recursion that Along is defined by.            *)
Steps(g, n) == g[0] = Stay /\ \A k \in 1 .. n : g[k] = Link(g[k - 1])

LEMMA StepsExist ==
  ASSUME NEW n \in Nat
  PROVE  \E g : Steps(g, n)
<1> DEFINE T == {k \in Nat : ~ \E g : Steps(g, k)}
<1>1. ASSUME T # {} PROVE FALSE
  <2>1. \E m \in T : \A k \in T : m <= k
    <3>1. T \in SUBSET Nat
      OBVIOUS
    <3> HIDE DEF T
    <3> QED
      BY <1>1, <3>1, LeastNat
  <2>2. PICK m \in T : \A k \in T : m <= k
    BY <2>1
  <2>3. CASE m = 0
    <3> DEFINE g == [k \in {0} |-> Stay]
    <3>1. Steps(g, 0)
      BY DEF Steps
    <3> QED
      BY <2>2, <2>3, <3>1
  <2>4. CASE m # 0
    <3>1. m \in Nat /\ m - 1 \in Nat /\ m - 1 \notin T
      BY <2>2, <2>4
    <3>2. PICK g : Steps(g, m - 1)
      BY <3>1
    <3> DEFINE h == [k \in 0 .. m |-> IF k = m THEN Link(g[m - 1]) ELSE g[k]]
    <3>3. /\ h[0] = g[0] /\ h[m] = Link(g[m - 1]) /\ h[m - 1] = g[m - 1]
          /\ \A k \in 1 .. m - 1 : h[k] = g[k] /\ h[k - 1] = g[k - 1]
      BY <3>1, <2>4
    <3> HIDE DEF h
    <3>4. Steps(h, m)
      BY <3>1, <3>2, <3>3, <2>4 DEF Steps
    <3> QED
      BY <2>2, <3>4
  <2> QED
    BY <2>3, <2>4
<1> QED
  BY <1>1

LEMMA StepsUnique ==
  ASSUME NEW n \in Nat, NEW g, NEW h, Steps(g, n), Steps(h, n), NEW k \in 0 .. n
  PROVE  g[k] = h[k]
<1> DEFINE T == {i \in 0 .. n : g[i] # h[i]}
<1>1. ASSUME T # {} PROVE FALSE
  <2>1. \E m \in T : \A i \in T : m <= i
    <3>1. T \in SUBSET Nat
      OBVIOUS
    <3> HIDE DEF T
    <3> QED
      BY <1>1, <3>1, LeastNat
  <2>2. PICK m \in T : \A i \in T : m <= i
    BY <2>1
  <2>3. m # 0
    BY <2>2 DEF Steps
  <2>4. m \in 1 .. n /\ m - 1 \in 0 .. n /\ m - 1 \notin T
    BY <2>2, <2>3
  <2>5. g[m] = Link(g[m - 1]) /\ h[m] = Link(h[m - 1]) /\ g[m - 1] = h[m - 1]
    BY <2>4 DEF Steps
  <2> QED
    BY <2>2, <2>5
<1> QED
  BY <1>1

(* Along satisfies its recursion.                                          *)
LEMMA AlongRecursion ==
  /\ Along[0] = Stay
  /\ \A n \in Nat : Along[n + 1] = Link(Along[n])
<1> DEFINE W(n) == CHOOSE g : Steps(g, n)
           f == [n \in Nat |-> W(n)[n]]
           Then(h, n) == IF n = 0 THEN Stay ELSE Link(h[n - 1])
<1>1. ASSUME NEW n \in Nat PROVE Steps(W(n), n)
  BY StepsExist
<1> HIDE DEF W
<1>2. ASSUME NEW n \in Nat PROVE W(n)[n] = Then(f, n)
  <2>1. CASE n = 0
    BY <1>1, <2>1 DEF Steps
  <2>2. CASE n # 0
    <3>1. n - 1 \in Nat /\ Steps(W(n), n) /\ Steps(W(n - 1), n - 1)
      BY <1>1, <2>2
    <3>2. Steps(W(n), n - 1) /\ W(n)[n] = Link(W(n)[n - 1])
      BY <3>1, <2>2 DEF Steps
    <3>3. W(n)[n - 1] = W(n - 1)[n - 1]
      BY <3>1, <3>2, StepsUnique
    <3>4. f[n - 1] = W(n - 1)[n - 1]
      BY <3>1
    <3> QED
      BY <2>2, <3>2, <3>3, <3>4
  <2> QED
    BY <2>1, <2>2
<1>3. f = [n \in Nat |-> Then(f, n)]
  <2>1. f = [n \in Nat |-> W(n)[n]]
    OBVIOUS
  <2> HIDE DEF f, Then
  <2> QED
    BY <1>2, <2>1
<1>4. Along = [n \in Nat |-> Then(Along, n)]
  <2> HIDE DEF f
  <2> QED
    BY <1>3, Zenon DEF Along, Stay, Link
<1>5. ASSUME NEW n \in Nat PROVE Along[n] = Then(Along, n)
  BY <1>4
<1>6. Along[0] = Stay
  BY <1>5
<1>7. ASSUME NEW n \in Nat PROVE Along[n + 1] = Link(Along[n])
  <2>1. n + 1 \in Nat /\ n + 1 # 0 /\ n + 1 - 1 = n
    OBVIOUS
  <2>2. Along[n + 1] = Then(Along, n + 1)
    BY <1>5, <2>1
  <2> QED
    BY <2>1, <2>2
<1> QED
  BY <1>6, <1>7

-----------------------------------------------------------------------------
(* The ring as the sequence of its tiles.                                  *)

Follower(s, i) == IF i = Len(s) THEN s[1] ELSE s[i + 1]

(* The links go once around the tiles of L in the order of s.              *)
IsRing(s, L, nx, pv) ==
  /\ s \in Seq(L) /\ Distinct(s) /\ s # <<>> /\ ToSet(s) = L
  /\ \A i \in 1 .. Len(s) : nx[s[i]] = Follower(s, i) /\ pv[Follower(s, i)] = s[i]

LEMMA RingIndices ==
  ASSUME NEW s, NEW L, NEW nx, NEW pv, IsRing(s, L, nx, pv)
  PROVE  /\ Len(s) \in Nat \ {0} /\ DOMAIN s = 1 .. Len(s)
         /\ \A i \in 1 .. Len(s) : s[i] \in L
         /\ \A u \in L : \E i \in 1 .. Len(s) : s[i] = u
         /\ \A i, j \in 1 .. Len(s) : s[i] = s[j] => i = j
BY EmptySeq, LenProperties, ElementOfSeq DEF IsRing, ToSet, Distinct

(* A function on 1 .. n is a sequence of length n.                         *)
LEMMA SeqOfFunction ==
  ASSUME NEW L, NEW n \in Nat, NEW r \in [1 .. n -> L]
  PROVE  r \in Seq(L) /\ Len(r) = n /\ DOMAIN r = 1 .. n
BY IsASeq

(* The ring may be read so that any tile comes last.                       *)
LEMMA Turned ==
  ASSUME NEW s, NEW L, NEW nx, NEW pv, IsRing(s, L, nx, pv), NEW t \in L
  PROVE  \E r : IsRing(r, L, nx, pv) /\ r[Len(r)] = t
<1> DEFINE n == Len(s)
<1>0. n = Len(s)
  OBVIOUS
<1>1. /\ n \in Nat \ {0}
      /\ \A i \in 1 .. n : s[i] \in L
      /\ \A u \in L : \E i \in 1 .. n : s[i] = u
      /\ \A i, j \in 1 .. n : s[i] = s[j] => i = j
  BY RingIndices
<1>2. PICK k \in 1 .. n : s[k] = t
  BY <1>1
<1> DEFINE at(i) == IF i + k <= n THEN i + k ELSE i + k - n
           r == [i \in 1 .. n |-> s[at(i)]]
<1>3. /\ \A i \in 1 .. n : at(i) \in 1 .. n
      /\ \A i, j \in 1 .. n : at(i) = at(j) => i = j
      /\ \A j \in 1 .. n : \E i \in 1 .. n : at(i) = j
      /\ at(n) = k
  <2>1. /\ \A i \in 1 .. n : at(i) \in 1 .. n
        /\ \A i, j \in 1 .. n : at(i) = at(j) => i = j
        /\ at(n) = k
    BY <1>1, <1>2
  <2>2. ASSUME NEW j \in 1 .. n PROVE \E i \in 1 .. n : at(i) = j
    <3>1. CASE j > k
      <4>1. j - k \in 1 .. n /\ at(j - k) = j
        BY <1>1, <1>2, <3>1
      <4> QED
        BY <4>1
    <3>2. CASE j <= k
      <4>1. j - k + n \in 1 .. n /\ at(j - k + n) = j
        BY <1>1, <1>2, <3>2
      <4> QED
        BY <4>1
    <3> QED
      BY <1>1, <1>2, <3>1, <3>2
  <2> HIDE DEF at, n
  <2> QED
    BY <2>1, <2>2
<1>10. ASSUME NEW i \in 1 .. n
       PROVE  at(IF i = n THEN 1 ELSE i + 1) = IF at(i) = n THEN 1 ELSE at(i) + 1
  BY <1>1, <1>2
<1> HIDE DEF at
<1>4. r \in [1 .. n -> L] /\ \A i \in 1 .. n : r[i] = s[at(i)]
  BY <1>1, <1>3
<1>5. r \in Seq(L) /\ Len(r) = n /\ DOMAIN r = 1 .. n
  BY <1>1, <1>4, SeqOfFunction
<1> HIDE DEF r, n
<1>6. Distinct(r)
  <2> SUFFICES ASSUME NEW i \in 1 .. n, NEW j \in 1 .. n, r[i] = r[j] PROVE i = j
    BY <1>5 DEF Distinct
  <2>1. s[at(i)] = s[at(j)] /\ at(i) \in 1 .. n /\ at(j) \in 1 .. n
    BY <1>3, <1>4
  <2>2. at(i) = at(j)
    BY <1>1, <2>1
  <2> QED
    BY <1>3, <2>2
<1>7. ToSet(r) = L
  <2>1. ASSUME NEW u \in L PROVE \E i \in 1 .. n : r[i] = u
    <3>1. PICK j \in 1 .. n : s[j] = u
      BY <1>1
    <3>2. PICK i \in 1 .. n : at(i) = j
      BY <1>3
    <3> QED
      BY <1>4, <3>1, <3>2
  <2> QED
    BY <2>1, <1>4, <1>5 DEF ToSet
<1>8. ASSUME NEW i \in 1 .. n
      PROVE  nx[r[i]] = Follower(r, i) /\ pv[Follower(r, i)] = r[i]
  <2>1. Follower(r, i) = r[IF i = n THEN 1 ELSE i + 1]
    BY <1>5 DEF Follower
  <2>2. (IF i = n THEN 1 ELSE i + 1) \in 1 .. n
    BY <1>1
  <2>3. Follower(r, i) = s[IF at(i) = n THEN 1 ELSE at(i) + 1]
    BY <1>4, <1>10, <2>1, <2>2
  <2>4. Follower(r, i) = Follower(s, at(i))
    BY <1>0, <2>3 DEF Follower
  <2> QED
    <3>1. at(i) \in 1 .. n /\ r[i] = s[at(i)]
      BY <1>3, <1>4
    <3> QED
      BY <1>0, <3>1, <2>4 DEF IsRing
<1>9. r # <<>> /\ r[Len(r)] = t
  <2>1. r[n] = s[k]
    <3>1. n \in 1 .. n
      BY <1>1
    <3>2. r[n] = s[at(n)]
      BY <1>4, <3>1
    <3>3. at(n) = k
      BY <1>3
    <3> QED
      BY <3>2, <3>3, Zenon
  <2>2. Len(<<>>) = 0 /\ n # 0
    BY <1>1
  <2> QED
    BY <1>2, <1>5, <2>1, <2>2
<1> QED
  BY <1>5, <1>6, <1>7, <1>8, <1>9 DEF IsRing

(* Appending a tile to the sequence, as a split does after the last tile.  *)
LEMMA RingGrows ==
  ASSUME NEW r, NEW nx, NEW pv, NEW L, IsRing(r, L, nx, pv), NEW t, r[Len(r)] = t,
         NEW e, e \notin L, e \in DOMAIN nx, e \in DOMAIN pv,
         L \subseteq DOMAIN nx, L \subseteq DOMAIN pv
  PROVE  IsRing(Append(r, e), L \cup {e}, [nx EXCEPT ![e] = nx[t], ![t] = e],
                [pv EXCEPT ![e] = t, ![nx[t]] = e])
<1> DEFINE n == Len(r)
           q == Append(r, e)
           nx2 == [nx EXCEPT ![e] = nx[t], ![t] = e]
           pv2 == [pv EXCEPT ![e] = t, ![nx[t]] = e]
<1>0. n = Len(r)
  OBVIOUS
<1>1. /\ n \in Nat \ {0} /\ t \in L
      /\ \A i \in 1 .. n : r[i] \in L
      /\ \A i, j \in 1 .. n : r[i] = r[j] => i = j
  <2>1. n \in Nat \ {0} /\ n \in 1 .. n
    BY RingIndices
  <2> QED
    BY <2>1, RingIndices
<1>2. nx[t] = r[1] /\ 1 \in 1 .. n /\ n \in 1 .. n
  BY <1>0, <1>1 DEF IsRing, Follower
<1>3. r \in Seq(L \cup {e}) /\ Distinct(r) /\ e \notin ToSet(r) /\ ToSet(r) = L
  <2>1. r \in [1 .. n -> L \cup {e}]
    BY LenProperties DEF IsRing
  <2> QED
    BY <2>1, <1>1, SeqOfFunction DEF IsRing
<1>4. q \in Seq(L \cup {e}) /\ Distinct(q) /\ ToSet(q) = L \cup {e}
  BY <1>3, Appended
<1>5. /\ Len(q) = n + 1 /\ q[n + 1] = e
      /\ \A i \in 1 .. n : q[i] = r[i]
  BY <1>3, AppendProperties
<1> HIDE DEF n, q
<1>6. q # <<>>
  BY <1>1, <1>5, EmptySeq
<1>7. /\ nx2[e] = r[1] /\ nx2[t] = e /\ pv2[e] = t /\ pv2[r[1]] = e
      /\ \A u \in L : (u # t => nx2[u] = nx[u]) /\ (u # r[1] => pv2[u] = pv[u])
  BY <1>1, <1>2
<1>8. \A i \in 1 .. n - 1 : nx[r[i]] = r[i + 1] /\ pv[r[i + 1]] = r[i]
  BY <1>0, <1>1 DEF IsRing, Follower
<1> HIDE DEF nx2, pv2
<1>9. ASSUME NEW i \in 1 .. n + 1
      PROVE  nx2[q[i]] = Follower(q, i) /\ pv2[Follower(q, i)] = q[i]
  <2>1. CASE i = n + 1
    <3>1. q[i] = e /\ Follower(q, i) = r[1]
      BY <1>1, <1>2, <1>5, <2>1 DEF Follower
    <3> QED
      BY <1>7, <3>1
  <2>2. CASE i = n
    <3>1. q[i] = t /\ Follower(q, i) = e
      BY <1>0, <1>1, <1>2, <1>5, <2>2 DEF Follower
    <3> QED
      BY <1>7, <3>1
  <2>3. CASE i \in 1 .. n - 1
    <3>1. i \in 1 .. n /\ i + 1 \in 1 .. n /\ i # n /\ i + 1 # 1 /\ i # n + 1
      BY <1>1, <2>3
    <3>2. q[i] = r[i] /\ Follower(q, i) = r[i + 1]
      BY <1>5, <3>1 DEF Follower
    <3>3. r[i] # t /\ r[i + 1] # r[1] /\ r[i] \in L /\ r[i + 1] \in L
      BY <1>0, <1>1, <1>2, <3>1
    <3>4. nx[r[i]] = r[i + 1] /\ pv[r[i + 1]] = r[i]
      BY <1>8, <2>3
    <3> QED
      BY <1>7, <3>2, <3>3, <3>4
  <2> QED
    BY <1>1, <2>1, <2>2, <2>3
<1> QED
  BY <1>4, <1>5, <1>6, <1>9 DEF IsRing, q, nx2, pv2

(* Leaving out the last tile of the sequence, as a merge does.             *)
LEMMA RingShrinks ==
  ASSUME NEW r, NEW nx, NEW pv, NEW L, IsRing(r, L, nx, pv), NEW m, r[Len(r)] = m,
         NEW t \in L, t # m, NEW none,
         L \subseteq DOMAIN nx, L \subseteq DOMAIN pv
  PROVE  IsRing(SubSeq(r, 1, Len(r) - 1), L \ {m},
                [nx EXCEPT ![pv[m]] = nx[m], ![m] = none],
                [pv EXCEPT ![nx[m]] = pv[m], ![m] = none])
<1> DEFINE n == Len(r)
           q == SubSeq(r, 1, n - 1)
           nx2 == [nx EXCEPT ![pv[m]] = nx[m], ![m] = none]
           pv2 == [pv EXCEPT ![nx[m]] = pv[m], ![m] = none]
<1>0. n = Len(r)
  OBVIOUS
<1>1. /\ n \in Nat \ {0}
      /\ \A i \in 1 .. n : r[i] \in L
      /\ \A u \in L : \E i \in 1 .. n : r[i] = u
      /\ \A i, j \in 1 .. n : r[i] = r[j] => i = j
  BY RingIndices
<1>2. n # 1 /\ n - 1 \in Nat \ {0} /\ 1 \in 1 .. n - 1 /\ n - 1 \in 1 .. n - 1
  BY <1>0, <1>1
<1>3. nx[m] = r[1] /\ pv[m] = r[n - 1]
  <2>1. n \in 1 .. n /\ n - 1 \in 1 .. n /\ n - 1 # n
    BY <1>1, <1>2
  <2>2. Follower(r, n) = r[1] /\ Follower(r, n - 1) = r[n]
    BY <1>0, <1>1, <2>1 DEF Follower
  <2> QED
    BY <1>0, <2>1, <2>2 DEF IsRing
<1>4. /\ Len(q) = n - 1 /\ \A i \in 1 .. n - 1 : q[i] = r[i]
  BY <1>0, <1>2, CutProperties DEF IsRing
<1>5. \A i \in 1 .. n - 1 : i \in 1 .. n /\ r[i] # m /\ r[i] \in L
  <2> SUFFICES ASSUME NEW i \in 1 .. n - 1 PROVE i \in 1 .. n /\ r[i] # m /\ r[i] \in L
    OBVIOUS
  <2>1. i \in 1 .. n /\ n \in 1 .. n /\ i # n
    BY <1>1
  <2> QED
    BY <1>0, <1>1, <2>1
<1>6. q \in Seq(L \ {m}) /\ DOMAIN q = 1 .. n - 1
  <2>1. q \in Seq(L) /\ DOMAIN q = 1 .. n - 1
    BY <1>0, <1>2, <1>4, CutProperties, LenProperties DEF IsRing
  <2>2. q \in [1 .. n - 1 -> L \ {m}]
    BY <1>4, <1>5, <2>1, LenProperties
  <2> QED
    BY <1>2, <2>2, SeqOfFunction
<1> HIDE DEF n, q
<1>7. Distinct(q)
  BY <1>1, <1>4, <1>5, <1>6 DEF Distinct
<1>8. ToSet(q) = L \ {m}
  <2>1. ASSUME NEW u \in L \ {m} PROVE \E i \in 1 .. n - 1 : q[i] = u
    <3>1. PICK i \in 1 .. n : r[i] = u
      BY <1>1
    <3>2. i # n
      BY <1>0, <3>1
    <3>3. i \in 1 .. n - 1
      BY <1>1, <3>1, <3>2
    <3> QED
      BY <1>4, <3>1, <3>3
  <2> QED
    BY <1>4, <1>5, <1>6, <2>1 DEF ToSet
<1>9. q # <<>>
  BY <1>2, <1>4, EmptySeq
<1>10. /\ nx2[r[n - 1]] = r[1] /\ pv2[r[1]] = r[n - 1]
       /\ \A u \in L \ {m} : /\ u # r[n - 1] => nx2[u] = nx[u]
                             /\ u # r[1] => pv2[u] = pv[u]
  BY <1>2, <1>3, <1>5
<1>11. \A i \in 1 .. n - 1 : nx[r[i]] = r[i + 1] /\ pv[r[i + 1]] = r[i]
  BY <1>0, <1>1, <1>5 DEF IsRing, Follower
<1> HIDE DEF nx2, pv2
<1>12. ASSUME NEW i \in 1 .. n - 1
       PROVE  nx2[q[i]] = Follower(q, i) /\ pv2[Follower(q, i)] = q[i]
  <2>1. CASE i = n - 1
    <3>1. q[i] = r[n - 1] /\ Follower(q, i) = r[1]
      BY <1>2, <1>4, <2>1 DEF Follower
    <3> QED
      BY <1>10, <3>1
  <2>2. CASE i # n - 1
    <3>1. i + 1 \in 1 .. n - 1 /\ i + 1 # 1
      BY <1>1, <2>2
    <3>2. q[i] = r[i] /\ Follower(q, i) = r[i + 1]
      BY <1>4, <2>2, <3>1 DEF Follower
    <3>3. r[i] # r[n - 1] /\ r[i + 1] # r[1]
      BY <1>1, <1>2, <1>5, <2>2, <3>1
    <3>4. nx[r[i]] = r[i + 1] /\ pv[r[i + 1]] = r[i]
      BY <1>11
    <3> QED
      BY <1>5, <1>10, <3>1, <3>2, <3>3, <3>4
  <2> QED
    BY <2>1, <2>2
<1> QED
  BY <1>4, <1>6, <1>7, <1>8, <1>9, <1>12 DEF IsRing, q, nx2, pv2, n

-----------------------------------------------------------------------------
(* What the loops over the ring visit.                                     *)

(* The links of the workspace's tiles form a ring.                         *)
Links ==
  /\ live \subseteq Tiles
  /\ next \in [Tiles -> Tiles \cup {NULL}]
  /\ prev \in [Tiles -> Tiles \cup {NULL}]
  /\ \E s : IsRing(s, live, next, prev)

(* From the last tile of the sequence i links lead to the i-th.            *)
LEMMA AlongRing ==
  ASSUME NEW r, IsRing(r, live, next, prev), NEW i \in 1 .. Len(r)
  PROVE  Along[i][r[Len(r)]] = r[i]
<1> DEFINE t == r[Len(r)]
           T == {k \in 1 .. Len(r) : Along[k][t] # r[k]}
<1>1. /\ Len(r) \in Nat \ {0} /\ Len(r) \in 1 .. Len(r)
      /\ \A k \in 1 .. Len(r) : r[k] \in live
  BY RingIndices
<1>2. t \in live /\ Along[0][t] = t
  BY <1>1, AlongRecursion DEF Stay
<1>3. ASSUME NEW k \in Nat PROVE Along[k + 1][t] = next[Along[k][t]]
  BY <1>2, AlongRecursion DEF Link
<1>4. ASSUME T # {} PROVE FALSE
  <2>1. \E m \in T : \A k \in T : m <= k
    <3>1. T \in SUBSET Nat
      OBVIOUS
    <3> HIDE DEF T
    <3> QED
      BY <1>4, <3>1, LeastNat
  <2>2. PICK m \in T : \A k \in T : m <= k
    BY <2>1
  <2>3. m \in 1 .. Len(r) /\ m - 1 \in Nat /\ m - 1 \notin T
    BY <2>2
  <2>4. Along[m][t] = next[Along[m - 1][t]]
    <3>1. m = (m - 1) + 1
      BY <2>3
    <3> QED
      BY <1>3, <2>3, <3>1
  <2>5. CASE m = 1
    <3>1. next[r[Len(r)]] = r[1]
      BY <1>1 DEF IsRing, Follower
    <3>2. Along[m][t] = r[1]
      BY <1>2, <2>4, <2>5, <3>1
    <3> QED
      BY <2>2, <2>5, <3>2
  <2>6. CASE m # 1
    <3>1. m - 1 \in 1 .. Len(r) /\ m - 1 # Len(r)
      BY <1>1, <2>3, <2>6
    <3>2. Along[m - 1][t] = r[m - 1]
      BY <2>3, <3>1
    <3>3. next[r[m - 1]] = r[m]
      BY <3>1, <2>3 DEF IsRing, Follower
    <3> QED
      BY <2>2, <2>4, <3>2, <3>3
  <2> QED
    BY <2>5, <2>6
<1> QED
  BY <1>4

(* The two links of a tile are inverse to each other.                      *)
LEMMA LinksInverse ==
  ASSUME Links, NEW t \in live
  PROVE  /\ next[t] \in live /\ prev[t] \in live
         /\ prev[next[t]] = t /\ next[prev[t]] = t
<1>1. PICK r : IsRing(r, live, next, prev) /\ r[Len(r)] = t
  BY Turned DEF Links
<1>2. /\ Len(r) \in Nat \ {0} /\ Len(r) \in 1 .. Len(r) /\ 1 \in 1 .. Len(r)
      /\ \A i \in 1 .. Len(r) : r[i] \in live
  BY <1>1, RingIndices
<1>3. next[t] = r[1] /\ prev[r[1]] = t
  BY <1>1, <1>2 DEF IsRing, Follower
<1>4. CASE Len(r) = 1
  BY <1>1, <1>2, <1>3, <1>4
<1>5. CASE Len(r) # 1
  <2>0. ASSUME NEW n \in Nat \ {0, 1}
        PROVE  n - 1 \in 1 .. n /\ n - 1 # n /\ (n - 1) + 1 = n
    OBVIOUS
  <2>1. Len(r) - 1 \in 1 .. Len(r) /\ Len(r) - 1 # Len(r) /\ (Len(r) - 1) + 1 = Len(r)
    BY <1>2, <1>5, <2>0
  <2>2. prev[t] = r[Len(r) - 1] /\ next[r[Len(r) - 1]] = t
    BY <1>1, <1>2, <2>1 DEF IsRing, Follower
  <2> QED
    BY <1>2, <1>3, <2>1, <2>2
<1> QED
  BY <1>4, <1>5

(* The loop that starts at a tile visits each tile of the ring once.       *)
LEMMA RingVisits ==
  ASSUME Links, NEW t \in live
  PROVE  /\ Ring(t) \in Seq(live) /\ Distinct(Ring(t))
         /\ ToSet(Ring(t)) = live /\ Ring(t)[1] = t /\ Ring(t) # <<>>
<1>1. PICK r : IsRing(r, live, next, prev) /\ r[Len(r)] = t
  BY Turned DEF Links
<1> DEFINE n == Len(r)
           round == CHOOSE k \in 1 .. Cardinality(live) :
                      Along[k][t] = t /\ \A i \in 1 .. k - 1 : Along[i][t] # t
           w == [i \in 1 .. round |-> Along[i - 1][t]]
<1>0. n = Len(r)
  OBVIOUS
<1>2. /\ n \in Nat \ {0} /\ n \in 1 .. n
      /\ DOMAIN r = 1 .. n
      /\ \A i \in 1 .. n : r[i] \in live
      /\ \A u \in live : \E i \in 1 .. n : r[i] = u
      /\ \A i, j \in 1 .. n : r[i] = r[j] => i = j
  BY <1>1, RingIndices
<1>3. \A i \in 1 .. n : Along[i][t] = r[i]
  BY <1>1, AlongRing
<1>4. Along[0][t] = t
  BY AlongRecursion DEF Stay
<1> HIDE DEF n
<1>5. Cardinality(live) = n
  <2>1. r \in [1 .. n -> live]
    BY <1>1, <1>2, LenProperties DEF IsRing, n
  <2>2. r \in Bijection(1 .. n, live)
    BY <1>2, <2>1 DEF Bijection, Injection, Surjection, IsInjective
  <2>3. ExistsBijection(1 .. n, live)
    BY <2>2 DEF ExistsBijection
  <2> QED
    BY <1>2, <2>3, FS_CountingElements
<1>6. round = n
  <2>1. Along[n][t] = t /\ \A i \in 1 .. n - 1 : Along[i][t] # t
    <3>1. Along[n][t] = r[n] /\ r[n] = t
      BY <1>0, <1>1, <1>2, <1>3
    <3>2. ASSUME NEW i \in 1 .. n - 1 PROVE Along[i][t] # t
      <4>1. i \in 1 .. n /\ i # n
        BY <1>2
      <4> QED
        BY <1>2, <1>3, <3>1, <4>1
    <3> QED
      BY <3>1, <3>2
  <2>2. ASSUME NEW k \in 1 .. n, Along[k][t] = t PROVE k = n
    BY <1>0, <1>1, <1>2, <1>3, <2>2
  <2> QED
    BY <1>2, <1>5, <2>1, <2>2
<1>7. Ring(t) = w
  BY DEF Ring
<1> HIDE DEF round
<1>8. /\ w \in [1 .. n -> live]
      /\ w[1] = t /\ \A i \in 2 .. n : w[i] = r[i - 1]
  <2>1. \A i \in 1 .. n : w[i] = Along[i - 1][t]
    BY <1>6
  <2>2. w[1] = t
    BY <1>2, <1>4, <2>1
  <2>3. ASSUME NEW i \in 2 .. n PROVE w[i] = r[i - 1] /\ w[i] \in live
    <3>1. i \in 1 .. n /\ i - 1 \in 1 .. n
      BY <1>2
    <3> QED
      BY <1>2, <1>3, <2>1, <3>1
  <2>4. ASSUME NEW i \in 1 .. n PROVE w[i] \in live
    <3> HIDE DEF w
    <3>1. i = 1 \/ i \in 2 .. n
      BY <1>2
    <3> QED
      BY <2>2, <2>3, <3>1
  <2> QED
    BY <1>6, <2>2, <2>3, <2>4
<1> HIDE DEF w
<1>9. w \in Seq(live) /\ Len(w) = n /\ DOMAIN w = 1 .. n
  BY <1>2, <1>8, SeqOfFunction
<1>10. Distinct(w)
  <2> SUFFICES ASSUME NEW i \in 1 .. n, NEW j \in 1 .. n, w[i] = w[j], i < j PROVE FALSE
    BY <1>9 DEF Distinct
  <2>1. j \in 2 .. n /\ w[j] = r[j - 1] /\ j - 1 \in 1 .. n /\ j - 1 # n
    BY <1>2, <1>8
  <2>2. CASE i = 1
    <3>1. r[j - 1] = r[n]
      BY <1>0, <1>1, <1>8, <2>1, <2>2
    <3> QED
      BY <1>2, <2>1, <3>1
  <2>3. CASE i # 1
    <3>1. i \in 2 .. n /\ w[i] = r[i - 1] /\ i - 1 \in 1 .. n /\ i - 1 # j - 1
      BY <1>2, <1>8, <2>3
    <3> QED
      BY <1>2, <2>1, <3>1
  <2> QED
    BY <2>2, <2>3
<1>11. ToSet(w) = live
  <2>1. ASSUME NEW u \in live PROVE \E i \in 1 .. n : w[i] = u
    <3>1. PICK i \in 1 .. n : r[i] = u
      BY <1>2
    <3>2. CASE i = n
      BY <1>0, <1>1, <1>2, <1>8, <3>1, <3>2
    <3>3. CASE i # n
      <4>1. i + 1 \in 2 .. n /\ i + 1 \in 1 .. n /\ (i + 1) - 1 = i
        BY <1>2, <3>3
      <4> QED
        BY <1>8, <3>1, <4>1
    <3> QED
      BY <3>2, <3>3
  <2> QED
    BY <1>8, <1>9, <2>1 DEF ToSet
<1>12. w # <<>>
  BY <1>2, <1>9, EmptySeq
<1> QED
  BY <1>7, <1>8, <1>9, <1>10, <1>11, <1>12

(* for(it = t->next; it != t; ...) visits the others.                      *)
LEMMA OthersVisited ==
  ASSUME Links, NEW t \in live
  PROVE  OthersInRing(t) \in Seq(live) /\ ToSet(OthersInRing(t)) = live \ {t}
<1>1. /\ Ring(t) \in Seq(live) /\ Distinct(Ring(t))
      /\ ToSet(Ring(t)) = live /\ Ring(t)[1] = t /\ Ring(t) # <<>>
  BY RingVisits
<1>2. Head(Ring(t)) = t
  BY <1>1, HeadTailProperties
<1> QED
  BY <1>1, <1>2, Taken DEF OthersInRing

-----------------------------------------------------------------------------
(* The search for a neighbour.                                             *)

(* What find_tile asks of a tile u of the ring.                            *)
Hit(t, a, forward, u) ==
  LET o == Other(a)
  IN  /\ IF forward THEN pos[a][u] = pos[a][t] + dim[a][t]
                    ELSE pos[a][u] + dim[a][u] = pos[a][t]
      /\ pos[o][u] < Centre(o, t) /\ Centre(o, t) <= pos[o][u] + dim[o][u]

(* It returns another tile of the ring that answers, if there is one.      *)
LEMMA FindsHit ==
  ASSUME Links, NEW t \in live, NEW a, NEW forward
  PROVE  LET f == find_tile(t, a, forward)
         IN  /\ f # NULL => f \in live \ {t} /\ Hit(t, a, forward, f)
             /\ (\E u \in live \ {t} : Hit(t, a, forward, u)) => f # NULL
<1> DEFINE w == OthersInRing(t)
           I == {i \in 1 .. Len(w) : Hit(t, a, forward, w[i])}
           f == find_tile(t, a, forward)
<1>1. f = IF (IF I # {} THEN Min(I) ELSE 0) = 0 THEN NULL
          ELSE w[IF I # {} THEN Min(I) ELSE 0]
  BY DEF find_tile, Found, SelectInSeq, Hit
<1>2. w \in Seq(live) /\ ToSet(w) = live \ {t} /\ DOMAIN w = 1 .. Len(w) /\ Len(w) \in Nat
  BY OthersVisited, LenProperties
<1>3. \A i \in 1 .. Len(w) : w[i] \in live \ {t}
  BY <1>2 DEF ToSet
<1>4. I \in SUBSET Nat /\ I \subseteq 1 .. Len(w) /\ \A i \in I : Hit(t, a, forward, w[i])
  BY <1>2
<1>5. I # {} => Min(I) \in I
  <2> HIDE DEF I
  <2> QED
    BY <1>4, LeastNat DEF Min
<1>6. (\E u \in live \ {t} : Hit(t, a, forward, u)) => I # {}
  BY <1>2 DEF ToSet
<1>7. \A i \in I : w[i] # NULL
  BY <1>3, <1>4, TilingAssumption DEF Links
<1> HIDE DEF I, w, f
<1>8. I # {} => Min(I) # 0 /\ f = w[Min(I)]
  BY <1>1, <1>4, <1>5
<1>9. I = {} => f = NULL
  BY <1>1
<1> QED
  BY <1>3, <1>4, <1>5, <1>6, <1>7, <1>8, <1>9 DEF f

(* The tile under the pointer is one of the ring.                          *)
LEMMA PointerInRing ==
  ASSUME Links, NEW t \in live, NEW p
  PROVE  TileAt(p, t) \in live
<1> DEFINE w == Ring(t)
           under(c) == \A a \in Axis : pos[a][c] <= p[a] /\ p[a] <= pos[a][c] + dim[a][c]
           I == {i \in 1 .. Len(w) : under(w[i])}
<1>1. TileAt(p, t) = IF (IF I # {} THEN Min(I) ELSE 0) = 0 THEN t
                     ELSE w[IF I # {} THEN Min(I) ELSE 0]
  BY DEF TileAt, Found, SelectInSeq
<1>2. w \in Seq(live) /\ Len(w) \in Nat /\ \A i \in 1 .. Len(w) : w[i] \in live
  BY RingVisits, LenProperties, ElementOfSeq
<1>3. I \in SUBSET Nat /\ I \subseteq 1 .. Len(w)
  BY <1>2
<1> HIDE DEF I, w
<1>4. I # {} => Min(I) \in I
  BY <1>3, LeastNat DEF Min
<1> QED
  BY <1>1, <1>2, <1>3, <1>4

-----------------------------------------------------------------------------
(* The ring through every command.                                         *)

RingInv == Links /\ focused_tile \in live /\ cursor_tile \in live \cup {NULL}

(* A tile alone in its workspace is its own neighbour.                     *)
LEMMA RingOfOne ==
  ASSUME NEW n \in Tiles
  PROVE  LET l == [t \in Tiles |-> IF t = n THEN n ELSE NULL]
         IN  /\ l \in [Tiles -> Tiles \cup {NULL}]
             /\ \E s : IsRing(s, {n}, l, l)
<1> DEFINE l == [t \in Tiles |-> IF t = n THEN n ELSE NULL]
           s == <<n>>
<1>1. /\ s \in Seq({n}) /\ Len(s) = 1 /\ s[1] = n /\ DOMAIN s = 1 .. 1 /\ s # <<>>
      /\ l[n] = n
  OBVIOUS
<1> HIDE DEF s
<1>2. Distinct(s) /\ ToSet(s) = {n}
  BY <1>1 DEF Distinct, ToSet
<1>3. IsRing(s, {n}, l, l)
  BY <1>1, <1>2 DEF IsRing, Follower
<1> QED
  BY <1>3

LEMMA RingAtStart == Init => RingInv
<1> SUFFICES ASSUME Init PROVE RingInv
  OBVIOUS
<1>1. PICK n \in Tiles : live = {n}
  BY DEF Init, Layout!Init
<1> DEFINE l == [t \in Tiles |-> IF t = n THEN n ELSE NULL]
<1>2. next = l /\ prev = l
  BY <1>1 DEF Init
<1>3. Links
  BY <1>1, <1>2, RingOfOne DEF Links
<1> QED
  BY <1>1, <1>3 DEF RingInv, Init

LEMMA RingInductive == RingInv /\ [Next]_vars => RingInv'
<1> SUFFICES ASSUME RingInv, [Next]_vars PROVE RingInv'
  OBVIOUS
<1>1. /\ Links /\ focused_tile \in live /\ cursor_tile \in live \cup {NULL}
      /\ live \subseteq Tiles
      /\ next \in [Tiles -> Tiles \cup {NULL}] /\ prev \in [Tiles -> Tiles \cup {NULL}]
  BY DEF RingInv, Links
<1>2. ASSUME UNCHANGED <<live, next, prev>> PROVE Links'
  BY <1>1, <1>2 DEF Links
<1>3. ASSUME NEW t \in live, process_cursor_motion(t)
      PROVE  cursor_tile' \in live \cup {NULL}
  BY <1>1, <1>3, PointerInRing DEF process_cursor_motion
<1>4. CASE UNCHANGED vars
  BY <1>1, <1>2, <1>4 DEF vars, RingInv
<1>5. CASE Only
  <2>1. PICK n \in Tiles : full_screen_workspace_tiles(n) /\ cursor_tile' \in {NULL, n}
    BY <1>5 DEF Only
  <2> DEFINE l == [t \in Tiles |-> IF t = n THEN n ELSE NULL]
  <2>2. live' = {n} /\ next' = l /\ prev' = l /\ focused_tile' = n
    BY <2>1 DEF full_screen_workspace_tiles, Layout!Whole
  <2>3. Links'
    BY <2>2, RingOfOne DEF Links
  <2> QED
    BY <2>1, <2>2, <2>3 DEF RingInv
<1>6. CASE Split
  <2> DEFINE t == focused_tile
  <2>1. PICK n \in Tiles \ live :
          /\ live' = live \cup {n}
          /\ next' = [next EXCEPT ![n] = next[t], ![t] = n]
          /\ prev' = [prev EXCEPT ![n] = t, ![next[t]] = n]
          /\ UNCHANGED <<focused_tile, cursor_tile>>
    BY <1>6 DEF Split, PrevLinks
  <2>2. PICK r : IsRing(r, live, next, prev) /\ r[Len(r)] = t
    BY <1>1, Turned DEF Links
  <2>3. DOMAIN next = Tiles /\ DOMAIN prev = Tiles
    BY <1>1
  <2>4. IsRing(Append(r, n), live', next', prev')
    BY <1>1, <2>1, <2>2, <2>3, RingGrows
  <2>5. next' \in [Tiles -> Tiles \cup {NULL}] /\ prev' \in [Tiles -> Tiles \cup {NULL}]
    BY <1>1, <2>1
  <2>6. Links'
    BY <1>1, <2>1, <2>4, <2>5 DEF Links
  <2> QED
    BY <1>1, <2>1, <2>6 DEF RingInv
<1>7. CASE Merge
  <2>1. PICK t \in live, a \in Axis, forward \in BOOLEAN : merge_tile(t, a, forward)
    BY <1>7 DEF Merge
  <2> DEFINE m == find_tile(t, a, forward)
  <2>2. /\ m # NULL /\ live' = live \ {m}
        /\ next' = [next EXCEPT ![prev[m]] = next[m], ![m] = NULL]
        /\ prev' = [prev EXCEPT ![next[m]] = prev[m], ![m] = NULL]
        /\ focused_tile' = FocusAfterMerge(t, m)
        /\ cursor_tile' = CursorAfterMerge(t, m)
    BY <2>1 DEF merge_tile
  <2>3. m \in live /\ m # t
    BY <1>1, <2>2, FindsHit
  <2> HIDE DEF m
  <2>4. PICK r : IsRing(r, live, next, prev) /\ r[Len(r)] = m
    BY <1>1, <2>3, Turned DEF Links
  <2>5. DOMAIN next = Tiles /\ DOMAIN prev = Tiles
    BY <1>1
  <2>6. IsRing(SubSeq(r, 1, Len(r) - 1), live', next', prev')
    BY <1>1, <2>2, <2>3, <2>4, <2>5, RingShrinks
  <2>7. next' \in [Tiles -> Tiles \cup {NULL}] /\ prev' \in [Tiles -> Tiles \cup {NULL}]
    BY <1>1, <2>2, <2>3
  <2>8. Links'
    BY <1>1, <2>2, <2>6, <2>7 DEF Links
  <2>9. focused_tile' \in live' /\ cursor_tile' \in live' \cup {NULL}
    BY <1>1, <2>1, <2>2, <2>3 DEF FocusAfterMerge, CursorAfterMerge
  <2> QED
    BY <2>8, <2>9 DEF RingInv
<1>8. CASE Resize
  BY <1>1, <1>2, <1>8 DEF Resize, RingInv
<1>9. CASE FocusNeighbour
  <2>1. PICK t :
          /\ \E a \in Axis, forward \in BOOLEAN : t = find_tile(focused_tile, a, forward)
          /\ t # NULL /\ focused_tile' = t /\ process_cursor_motion(t)
          /\ UNCHANGED <<live, pos, dim, next, prev>>
    BY <1>9 DEF FocusNeighbour
  <2>2. t \in live
    BY <1>1, <2>1, FindsHit
  <2> QED
    BY <1>2, <1>3, <2>1, <2>2 DEF RingInv
<1>10. CASE CycleTiles
  <2>1. PICK t \in {next[focused_tile], prev[focused_tile]} :
          /\ focused_tile' = t /\ process_cursor_motion(t)
          /\ UNCHANGED <<live, pos, dim, next, prev>>
    BY <1>10 DEF CycleTiles
  <2>2. t \in live
    BY <1>1, <2>1, LinksInverse
  <2> QED
    BY <1>2, <1>3, <2>1, <2>2 DEF RingInv
<1>11. CASE CursorMotion
  BY <1>1, <1>2, <1>3, <1>11 DEF CursorMotion, RingInv
<1> QED
  BY <1>4, <1>5, <1>6, <1>7, <1>8, <1>9, <1>10, <1>11 DEF Next

(* next and prev are inverse and link all tiles of the workspace into one  *)
(* ring, whatever is split, merged and resized: every loop over the tiles  *)
(* (keybinding.c:170, seat.c:747) ends and misses none.                    *)
THEOREM TilesFormOneRing == Spec => []OneRing
<1>1. RingInv => OneRing
  BY RingVisits, LinksInverse DEF RingInv, OneRing
<1> QED
  BY RingAtStart, RingInductive, <1>1, PTL DEF Spec

(* The workspace's focused tile and the seat's cursor_tile are tiles of    *)
(* the workspace: merge_tile and `only` leave no pointer to a tile they    *)
(* free (keybinding.c:334, keybinding.c:342, seat.c:777).                  *)
THEOREM TilePointersLive == Spec => []PointersLive
<1>1. RingInv => PointersLive
  BY DEF RingInv, PointersLive
<1> QED
  BY RingAtStart, RingInductive, <1>1, PTL DEF Spec

-----------------------------------------------------------------------------
(* The search finds the neighbour.                                         *)

(* What TileLayout promises of the rectangles.                             *)
Partition == Layout!TypeOK /\ Layout!Within /\ Layout!Covered /\ Layout!Disjoint

(* Beyond the border that tile t does not lie on, one tile spans t's       *)
(* centre: the one with the pixel next to the centre.                      *)
LEMMA OneSpans ==
  ASSUME Partition, NEW t \in live, NEW a \in Axis, NEW forward \in BOOLEAN,
         dim[Other(a)][t] > 1,
         IF forward THEN pos[a][t] + dim[a][t] # Size[a] ELSE pos[a][t] # 0
  PROVE  /\ \E u \in live \ {t} : Hit(t, a, forward, u)
         /\ \A u, v \in live \ {t} :
              Hit(t, a, forward, u) /\ Hit(t, a, forward, v) => u = v
<1> DEFINE o == Other(a)
           c == Centre(o, t) - 1
           e == IF forward THEN pos[a][t] + dim[a][t] ELSE pos[a][t] - 1
           i == IF forward THEN e - 1 ELSE e + 1
           out == [b \in Axis |-> IF b = a THEN e ELSE c]
           in == [b \in Axis |-> IF b = a THEN i ELSE c]
           Over(u, p) == \A b \in Axis : pos[b][u] <= p[b] /\ p[b] < pos[b][u] + dim[b][u]
<1>1. /\ o \in Axis /\ o # a /\ Axis = {a, o} /\ Axis = Layout!Axis
      /\ Axis = {"x", "y"}
  BY DEF Axis, Other, Layout!Axis, Layout!Other
<1>2. ASSUME NEW u \in live, NEW b \in Axis
      PROVE  /\ pos[b][u] \in Int /\ dim[b][u] \in Int
             /\ 0 <= pos[b][u] /\ 1 <= dim[b][u] /\ pos[b][u] + dim[b][u] <= Size[b]
  BY <1>1 DEF Partition, Layout!TypeOK, Layout!Within, Layout!End
<1>3. Size \in [Axis -> Nat \ {0}]
  BY TilingAssumption
<1>4. c \in Int /\ pos[o][t] <= c /\ c < pos[o][t] + dim[o][t] /\ Centre(o, t) = c + 1
  <2>1. pos[o][t] \in Int /\ dim[o][t] \in Int /\ dim[o][t] > 1
    BY <1>1, <1>2
  <2> QED
    BY <2>1 DEF Centre
<1> HIDE DEF c
<1>5. /\ e \in Int /\ 0 <= e /\ e < Size[a]
      /\ i \in Int /\ pos[a][t] <= i /\ i < pos[a][t] + dim[a][t]
      /\ ~(pos[a][t] <= e /\ e < pos[a][t] + dim[a][t])
  BY <1>2, <1>3
<1>6. /\ \A b \in Axis : Size[b] \in Nat /\ Size[b] <= Size["x"] + Size["y"]
      /\ 0 <= c /\ c < Size[o] /\ 0 <= i /\ i < Size[a]
  <2>1. \A b \in Axis : Size[b] \in Nat /\ Size[b] <= Size["x"] + Size["y"]
    BY <1>1, <1>3
  <2>2. 0 <= c /\ c < Size[o] /\ 0 <= i /\ i < Size[a]
    BY <1>1, <1>2, <1>3, <1>4, <1>5
  <2> QED
    BY <2>1, <2>2
<1> HIDE DEF o, e, i
<1>7. out \in Layout!Pixels /\ in \in Layout!Pixels
  <2>1. ASSUME NEW k \in Int, 0 <= k, k < Size[a]
        PROVE  [b \in Axis |-> IF b = a THEN k ELSE c] \in Layout!Pixels
    <3> DEFINE p == [b \in Axis |-> IF b = a THEN k ELSE c]
    <3>1. p[a] = k /\ p[o] = c
      BY <1>1
    <3>2. \A b \in Axis : p[b] \in Int /\ 0 <= p[b] /\ p[b] < Size[b]
      BY <1>1, <1>4, <1>6, <2>1, <3>1
    <3>3. \A b \in Axis : p[b] \in 0 .. Size["x"] + Size["y"]
      BY <1>1, <1>6, <3>2
    <3>4. p \in [Axis -> 0 .. Size["x"] + Size["y"]]
      BY <3>3
    <3> HIDE DEF p
    <3>5. p \in Layout!Pixels
      BY <1>1, <3>2, <3>4 DEF Layout!Pixels
    <3> QED
      BY <3>5 DEF p
  <2> QED
    BY <1>5, <1>6, <2>1
<1>8. out[a] = e /\ out[o] = c /\ in[a] = i /\ in[o] = c
  BY <1>1
<1> HIDE DEF out, in
<1>9. \A u, p : Over(u, p) <=>
        /\ pos[a][u] <= p[a] /\ p[a] < pos[a][u] + dim[a][u]
        /\ pos[o][u] <= p[o] /\ p[o] < pos[o][u] + dim[o][u]
  BY <1>1
<1>10. /\ \E u \in live : Over(u, out)
       /\ \A u, v \in live : Over(u, out) /\ Over(v, out) => u = v
       /\ \A u, v \in live : Over(u, in) /\ Over(v, in) => u = v
  BY <1>1, <1>7 DEF Partition, Layout!Covered, Layout!Disjoint, Layout!Covers, Layout!End
<1> HIDE DEF Over
<1>11. Over(t, in) /\ ~Over(t, out)
  BY <1>4, <1>5, <1>8, <1>9
<1>12. ASSUME NEW u \in live \ {t} PROVE Hit(t, a, forward, u) <=> Over(u, out)
  <2>1. /\ pos[a][u] \in Int /\ dim[a][u] \in Int /\ pos[o][u] \in Int /\ dim[o][u] \in Int
        /\ pos[a][t] \in Int /\ dim[a][t] \in Int /\ 1 <= dim[a][u]
    BY <1>1, <1>2
  <2>2. Hit(t, a, forward, u) <=>
          /\ IF forward THEN pos[a][u] = pos[a][t] + dim[a][t]
                        ELSE pos[a][u] + dim[a][u] = pos[a][t]
          /\ pos[o][u] <= c /\ c < pos[o][u] + dim[o][u]
    BY <1>4, <2>1 DEF Hit, o
  <2>3. ~Over(u, in)
    BY <1>10, <1>11
  <2>6. Over(u, out) <=> /\ pos[a][u] <= e /\ e < pos[a][u] + dim[a][u]
                         /\ pos[o][u] <= c /\ c < pos[o][u] + dim[o][u]
    BY <1>8, <1>9
  <2>7. ~ /\ pos[a][u] <= i /\ i < pos[a][u] + dim[a][u]
          /\ pos[o][u] <= c /\ c < pos[o][u] + dim[o][u]
    BY <1>8, <1>9, <2>3
  <2>4. CASE forward
    <3>1. e = pos[a][t] + dim[a][t] /\ i = e - 1
      BY <2>4 DEF e, i
    <3> QED
      <4>1. Hit(t, a, forward, u) <=>
              /\ pos[a][u] = e
              /\ pos[o][u] <= c /\ c < pos[o][u] + dim[o][u]
        BY <2>2, <2>4, <3>1
      <4>2. e \in Int
        BY <1>5
      <4> HIDE DEF i, e, c, o
      <4>3. pos[a][u] = e => pos[a][u] <= e /\ e < pos[a][u] + dim[a][u]
        BY <2>1, <4>2
      <4>4. ASSUME pos[a][u] <= e, e < pos[a][u] + dim[a][u], pos[a][u] # e
            PROVE  pos[a][u] <= i /\ i < pos[a][u] + dim[a][u]
        BY <2>1, <3>1, <4>2, <4>4
      <4> QED
        BY <2>6, <2>7, <4>1, <4>3, <4>4
  <2>5. CASE ~forward
    <3>1. e = pos[a][t] - 1 /\ i = e + 1
      BY <2>5 DEF e, i
    <3> QED
      <4>1. Hit(t, a, forward, u) <=>
              /\ pos[a][u] + dim[a][u] = e + 1
              /\ pos[o][u] <= c /\ c < pos[o][u] + dim[o][u]
        BY <2>1, <2>2, <2>5, <3>1
      <4>2. e \in Int
        BY <1>5
      <4> HIDE DEF i, e, c, o
      <4> QED
        BY <2>1, <2>6, <2>7, <3>1, <4>1, <4>2
  <2> QED
    BY <2>4, <2>5
<1> QED
  BY <1>10, <1>11, <1>12

LEMMA SearchFinds == RingInv /\ Partition => NeighbourFound
<1> SUFFICES ASSUME RingInv, Partition, NEW t \in live, NEW a \in Axis,
                    NEW forward \in BOOLEAN, dim[Other(a)][t] > 1,
                    ~(IF forward THEN pos[a][t] + dim[a][t] = Size[a]
                                 ELSE pos[a][t] = 0)
             PROVE  LET o == Other(a)
                        center == pos[o][t] + dim[o][t] \div 2
                    IN  {u \in Touches(t, a, forward) :
                           pos[o][u] < center /\ center <= pos[o][u] + dim[o][u]}
                          = {find_tile(t, a, forward)}
  BY DEF NeighbourFound
<1> DEFINE o == Other(a)
           center == pos[o][t] + dim[o][t] \div 2
           span == {u \in Touches(t, a, forward) :
                      pos[o][u] < center /\ center <= pos[o][u] + dim[o][u]}
           f == find_tile(t, a, forward)
<1>1. ASSUME NEW u \in live \ {t}
      PROVE  u \in span <=> Hit(t, a, forward, u)
  <2>1. o \in Axis /\ Axis = Layout!Axis /\ Layout!Other(a) = o
    BY DEF Axis, Other, Layout!Axis, Layout!Other
  <2>2. /\ pos[o][u] \in Int /\ dim[o][u] \in Int /\ pos[o][t] \in Int
        /\ dim[o][t] \in Int /\ dim[o][t] > 1
        /\ pos[a][u] \in Int /\ dim[a][u] \in Int /\ pos[a][t] \in Int
        /\ dim[a][t] \in Int
    BY <2>1 DEF RingInv, Links, Partition, Layout!TypeOK
  <2>3. u \in span <=>
          /\ IF forward THEN Layout!Abut(a, t, u) ELSE Layout!Abut(a, u, t)
          /\ pos[o][u] < center /\ center <= pos[o][u] + dim[o][u]
    BY DEF Touches
  <2>4. pos[o][u] < center /\ center <= pos[o][u] + dim[o][u]
          => Layout!Beside(a, t, u) /\ Layout!Beside(a, u, t)
    BY <2>1, <2>2 DEF Layout!Beside, Layout!End
  <2>5. Hit(t, a, forward, u) <=>
          /\ IF forward THEN pos[a][u] = pos[a][t] + dim[a][t]
                        ELSE pos[a][u] + dim[a][u] = pos[a][t]
          /\ pos[o][u] < center /\ center <= pos[o][u] + dim[o][u]
    BY DEF Hit, Centre
  <2> HIDE DEF span, center
  <2> QED
    BY <2>2, <2>3, <2>4, <2>5 DEF Layout!Abut, Layout!End
<1>2. span \subseteq live \ {t}
  BY DEF Touches
<1>3. /\ \E u \in live \ {t} : Hit(t, a, forward, u)
      /\ \A u, v \in live \ {t} :
           Hit(t, a, forward, u) /\ Hit(t, a, forward, v) => u = v
  BY OneSpans
<1>4. f \in live \ {t} /\ Hit(t, a, forward, f)
  BY <1>3, FindsHit DEF RingInv
<1> HIDE DEF span, f
<1>5. span = {f}
  BY <1>1, <1>2, <1>3, <1>4
<1> QED
  BY <1>5 DEF span, f

-----------------------------------------------------------------------------
(* The commands implement TileLayout.                                      *)

(* What is not proved of the recursive resize: if it changes the layout,   *)
(* it moves a line of it (keybinding.c:541).  The property Implements,     *)
(* which TLC checks, contains it.                                          *)
ResizeMovesLine == [][Resize => [Layout!Next]_Layout!vars]_vars

(* The two names of the module of the rectangles mean the same.            *)
LEMMA LayoutFacts ==
  /\ Layout!Init => Partition
  /\ Partition /\ [Layout!Next]_Layout!vars => Partition'
<1>1. Size \in [Facts!Axis -> Nat \ {0}]
  BY TilingAssumption DEF Axis, Layout!Axis, Facts!Axis
<1>2. Partition <=> Facts!Inv
  BY DEF Partition, Facts!Inv, Layout!TypeOK, Facts!TypeOK, Layout!Within, Facts!Within,
     Layout!Covered, Facts!Covered, Layout!Disjoint, Facts!Disjoint, Layout!Covers,
     Facts!Covers, Layout!Pixels, Facts!Pixels, Layout!End, Facts!End, Layout!Axis,
     Facts!Axis
<1>3. Partition' <=> Facts!Inv'
  BY DEF Partition, Facts!Inv, Layout!TypeOK, Facts!TypeOK, Layout!Within, Facts!Within,
     Layout!Covered, Facts!Covered, Layout!Disjoint, Facts!Disjoint, Layout!Covers,
     Facts!Covers, Layout!Pixels, Facts!Pixels, Layout!End, Facts!End, Layout!Axis,
     Facts!Axis
<1>4. Layout!Init => Facts!Init
  BY DEF Layout!Init, Facts!Init, Layout!Axis, Facts!Axis
<1>5. [Layout!Next]_Layout!vars => [Facts!Next]_Facts!vars
  BY DEF Layout!Next, Facts!Next, Layout!vars, Facts!vars, Layout!Whole, Facts!Whole,
     Layout!SplitAt, Facts!SplitAt, Layout!Join, Facts!Join, Layout!MoveLine,
     Facts!MoveLine, Layout!Axis, Facts!Axis, Layout!OnLine, Facts!OnLine, Layout!End,
     Facts!End, Layout!Other, Facts!Other, Layout!Abut, Facts!Abut, Layout!Beside,
     Facts!Beside
<1>6. Facts!Init => Facts!Inv
  BY <1>1, Facts!InitInv
<1>7. Facts!Inv /\ [Facts!Next]_Facts!vars => Facts!Inv'
  BY <1>1, Facts!NextInv
<1> QED
  BY <1>2, <1>3, <1>4, <1>5, <1>6, <1>7

(* A fraction of an extent is less than the extent.                        *)
LEMMA FractionLess ==
  ASSUME NEW d \in Nat, NEW p \in Nat, NEW q \in Nat, 0 < p, p < q, 0 < d
  PROVE  (d * p) \div q \in Int /\ (d * p) \div q < d
<1> DEFINE k == (d * p) \div q
<1>1. d * p \in Int /\ k \in Int /\ q * k <= d * p
  OBVIOUS
<1>2. d * p < d * q
  OBVIOUS
<1>3. ASSUME d <= k PROVE FALSE
  <2>1. q * d <= q * k
    BY <1>1, <1>3
  <2>2. q * d = d * q
    OBVIOUS
  <2> QED
    BY <1>1, <1>2, <2>1, <2>2
<1> QED
  BY <1>1, <1>3

LEMMA SplitImplements == RingInv /\ Partition /\ Split => Layout!Next
<1> SUFFICES ASSUME RingInv, Partition, Split PROVE Layout!Next
  OBVIOUS
<1> DEFINE t == focused_tile
<1>1. PICK n \in Tiles \ live, a \in Axis, f \in Percents :
        LET new == (dim[a][t] * f[1]) \div f[2]
        IN  /\ new >= 1
            /\ live' = live \cup {n}
            /\ pos' = [b \in Axis |-> [pos[b] EXCEPT
                         ![n] = IF b = a THEN pos[b][t] + new ELSE pos[b][t]]]
            /\ dim' = [b \in Axis |-> [dim[b] EXCEPT
                         ![n] = pos[b][t] + dim[b][t] - pos'[b][n],
                         ![t] = IF b = a THEN new ELSE @]]
            /\ next' = [next EXCEPT ![n] = next[t], ![t] = n]
            /\ prev' = PrevLinks(n, t)
            /\ UNCHANGED <<focused_tile, cursor_tile>>
  BY Zenon DEF Split
<1> DEFINE k == (dim[a][t] * f[1]) \div f[2]
<1>2. /\ k >= 1 /\ live' = live \cup {n}
      /\ pos' = [b \in Axis |-> [pos[b] EXCEPT
                   ![n] = IF b = a THEN pos[b][t] + k ELSE pos[b][t]]]
      /\ dim' = [b \in Axis |-> [dim[b] EXCEPT
                   ![n] = pos[b][t] + dim[b][t] - pos'[b][n],
                   ![t] = IF b = a THEN k ELSE @]]
  BY <1>1
<1>3. /\ t \in live /\ t \in Tiles /\ n # t /\ Axis = Layout!Axis
      /\ pos \in [Axis -> [Tiles -> Int]] /\ dim \in [Axis -> [Tiles -> Int]]
      /\ 1 <= dim[a][t]
  BY DEF RingInv, Links, Partition, Layout!TypeOK, Layout!Within, Axis
<1>4. k \in Int /\ k < dim[a][t]
  <2>1. /\ f[1] \in Nat /\ f[2] \in Nat /\ 0 < f[1] /\ f[1] < f[2]
        /\ dim[a][t] \in Nat /\ 0 < dim[a][t]
    BY <1>3, TilingAssumption
  <2> QED
    BY <2>1, FractionLess
<1> HIDE DEF k, t
<1>5. pos' = [b \in Layout!Axis |-> [pos[b] EXCEPT
                ![n] = IF b = a THEN pos[b][t] + k ELSE pos[b][t]]]
  BY <1>2, <1>3
<1>6. dim' = [b \in Layout!Axis |-> [dim[b] EXCEPT
                ![n] = IF b = a THEN dim[b][t] - k ELSE dim[b][t],
                ![t] = IF b = a THEN k ELSE dim[b][t]]]
  <2>1. ASSUME NEW b \in Axis
        PROVE  [dim[b] EXCEPT ![n] = pos[b][t] + dim[b][t] - pos'[b][n],
                              ![t] = IF b = a THEN k ELSE @]
               = [dim[b] EXCEPT ![n] = IF b = a THEN dim[b][t] - k ELSE dim[b][t],
                                ![t] = IF b = a THEN k ELSE dim[b][t]]
    <3>1. /\ dim[b] \in [Tiles -> Int] /\ pos[b] \in [Tiles -> Int]
          /\ pos[b][t] \in Int /\ dim[b][t] \in Int
      BY <1>3
    <3>2. pos'[b][n] = IF b = a THEN pos[b][t] + k ELSE pos[b][t]
      BY <1>2, <3>1
    <3>3. pos[b][t] + dim[b][t] - pos'[b][n] = IF b = a THEN dim[b][t] - k ELSE dim[b][t]
      BY <1>4, <3>1, <3>2
    <3> QED
      BY <1>3, <3>1, <3>3
  <2> QED
    BY <1>2, <1>3, <2>1
<1>7. Layout!SplitAt(t, n, a, k)
  BY <1>2, <1>3, <1>4, <1>5, <1>6 DEF Layout!SplitAt
<1> QED
  BY <1>2, <1>3, <1>4, <1>7 DEF Layout!Next

LEMMA MergeImplements == RingInv /\ Partition /\ Merge => Layout!Next
<1> SUFFICES ASSUME RingInv, Partition, Merge PROVE Layout!Next
  OBVIOUS
<1>1. PICK t \in live, a \in Axis, forward \in BOOLEAN : merge_tile(t, a, forward)
  BY DEF Merge
<1> DEFINE m == find_tile(t, a, forward)
           o == Other(a)
<1>2. /\ m # NULL /\ dim[o][t] = dim[o][m] /\ pos[o][t] = pos[o][m]
      /\ live' = live \ {m}
      /\ dim' = [b \in Axis |-> [dim[b] EXCEPT
                   ![t] = IF b = a THEN @ + dim[b][m] ELSE @, ![m] = 0]]
      /\ pos' = [b \in Axis |-> [pos[b] EXCEPT
                   ![t] = IF b = a /\ pos[b][m] < @ THEN pos[b][m] ELSE @,
                   ![m] = 0]]
  BY <1>1 DEF merge_tile
<1>3. m \in live \ {t} /\ Hit(t, a, forward, m)
  BY <1>2, FindsHit DEF RingInv
<1> HIDE DEF m
<1>4. /\ Axis = Layout!Axis /\ o = Layout!Other(a) /\ a \in Axis
      /\ pos \in [Axis -> [Tiles -> Int]] /\ dim \in [Axis -> [Tiles -> Int]]
      /\ t \in Tiles /\ m \in Tiles /\ t # m
  BY <1>3 DEF RingInv, Links, Partition, Layout!TypeOK, Axis, Other
<1> DEFINE first == IF pos[a][t] < pos[a][m] THEN pos[a][t] ELSE pos[a][m]
<1>5. Layout!End(a, t) = pos[a][m] \/ Layout!End(a, m) = pos[a][t]
  BY <1>3 DEF Hit, Layout!End
<1>6. pos' = [b \in Layout!Axis |-> [pos[b] EXCEPT
                ![m] = 0, ![t] = IF b = a THEN first ELSE pos[b][t]]]
  <2>1. ASSUME NEW b \in Axis
        PROVE  [pos[b] EXCEPT ![t] = IF b = a /\ pos[b][m] < @ THEN pos[b][m] ELSE @,
                              ![m] = 0]
               = [pos[b] EXCEPT ![m] = 0, ![t] = IF b = a THEN first ELSE pos[b][t]]
    <3>1. pos[b] \in [Tiles -> Int] /\ pos[b][t] \in Int /\ pos[b][m] \in Int
      BY <1>4
    <3>2. (IF b = a /\ pos[b][m] < pos[b][t] THEN pos[b][m] ELSE pos[b][t])
             = IF b = a THEN first ELSE pos[b][t]
      BY <3>1
    <3> HIDE DEF first
    <3> QED
      BY <1>4, <3>1, <3>2
  <2> HIDE DEF first
  <2> QED
    BY <1>2, <1>4, <2>1
<1>7. dim' = [b \in Layout!Axis |-> [dim[b] EXCEPT
                ![m] = 0, ![t] = IF b = a THEN dim[b][t] + dim[b][m] ELSE dim[b][t]]]
  <2>1. ASSUME NEW b \in Axis
        PROVE  [dim[b] EXCEPT ![t] = IF b = a THEN @ + dim[b][m] ELSE @, ![m] = 0]
               = [dim[b] EXCEPT ![m] = 0,
                    ![t] = IF b = a THEN dim[b][t] + dim[b][m] ELSE dim[b][t]]
    BY <1>4
  <2> QED
    BY <1>2, <1>4, <2>1
<1> HIDE DEF o
<1>8. Layout!Join(t, m, a)
  BY <1>2, <1>3, <1>4, <1>5, <1>6, <1>7 DEF Layout!Join
<1> QED
  BY <1>4, <1>8 DEF Layout!Next

LEMMA CommandImplements ==
  RingInv /\ Partition /\ [Next]_vars /\ [Resize => [Layout!Next]_Layout!vars]_vars
    => [Layout!Next]_Layout!vars
<1> SUFFICES ASSUME RingInv, Partition, [Next]_vars,
                    [Resize => [Layout!Next]_Layout!vars]_vars
             PROVE  [Layout!Next]_Layout!vars
  OBVIOUS
<1>1. CASE UNCHANGED vars \/ FocusNeighbour \/ CycleTiles \/ CursorMotion
  BY <1>1 DEF vars, Layout!vars, FocusNeighbour, CycleTiles, CursorMotion
<1>2. CASE Only
  BY <1>2 DEF Only, full_screen_workspace_tiles, Layout!Next
<1>3. CASE Split
  BY <1>3, SplitImplements
<1>4. CASE Merge
  BY <1>4, MergeImplements
<1>5. CASE Resize
  BY <1>1, <1>5
<1> QED
  BY <1>1, <1>2, <1>3, <1>4, <1>5 DEF Next

(* Every command changes the layout as TileLayout allows: the ring         *)
(* surgery of split, merge and `only` and the searches amount to cutting   *)
(* or joining rectangles of the partition, provided that each resize moves *)
(* a line of it (keybinding.c:317, keybinding.c:693, workspace.c:32).      *)
THEOREM TilesImplementLayout == Spec /\ ResizeMovesLine => Implements
<1>1. Init => RingInv /\ Partition /\ Layout!Init
  BY RingAtStart, LayoutFacts DEF Init
<1>2. RingInv /\ Partition /\ [Next]_vars /\ [Resize => [Layout!Next]_Layout!vars]_vars
        => (RingInv /\ Partition)' /\ [Layout!Next]_Layout!vars
  BY RingInductive, LayoutFacts, CommandImplements
<1> QED
  BY <1>1, <1>2, PTL DEF Spec, ResizeMovesLine, Implements, Layout!Spec

(* A focus command and merge find the one tile that spans the centre on    *)
(* the given side, however the commands so far have ordered the ring, on   *)
(* the same proviso (keybinding.c:228).                                    *)
THEOREM NeighboursFound == Spec /\ ResizeMovesLine => []NeighbourFound
<1>1. Init => RingInv /\ Partition
  BY RingAtStart, LayoutFacts DEF Init
<1>2. RingInv /\ Partition /\ [Next]_vars /\ [Resize => [Layout!Next]_Layout!vars]_vars
        => (RingInv /\ Partition)'
  BY RingInductive, LayoutFacts, CommandImplements
<1>3. RingInv /\ Partition => NeighbourFound
  BY SearchFinds
<1> QED
  BY <1>1, <1>2, <1>3, PTL DEF Spec, ResizeMovesLine

(* The variables keep the shape the code gives them and no pointer         *)
(* dangles (keybinding.c:334), on the same proviso.                        *)
THEOREM TypeCorrect == Spec /\ ResizeMovesLine => []TypeOK
<1>1. Init => RingInv /\ Partition
  BY RingAtStart, LayoutFacts DEF Init
<1>2. RingInv /\ Partition /\ [Next]_vars /\ [Resize => [Layout!Next]_Layout!vars]_vars
        => (RingInv /\ Partition)'
  BY RingInductive, LayoutFacts, CommandImplements
<1>3. RingInv /\ Partition => TypeOK
  BY DEF RingInv, Links, Partition, TypeOK, PointersLive
<1> QED
  BY <1>1, <1>2, <1>3, PTL DEF Spec, ResizeMovesLine
=============================================================================
