----------------------------- MODULE ListProofs -----------------------------
(***************************************************************************)
(* Lemmas about sequences and the lists of module WlList, for elements of  *)
(* any kind: what the operations do to the elements, to their order, to    *)
(* the last one, and to a list's being free of duplicates.                 *)
(***************************************************************************)
EXTENDS WlList, SequenceTheorems, WellFoundedInduction, TLAPS

(* A set of natural numbers has a least element.                           *)
LEMMA LeastNat ==
  ASSUME NEW T \in SUBSET Nat, T # {}
  PROVE  \E m \in T : \A k \in T : m <= k
<1>1. PICK m \in T : \A k \in T : <<k, m>> \notin OpToRel(<, Nat)
  BY WFMin, NatLessThanWellFounded, Zenon
<1>2. \A k \in T : ~(k < m)
  BY <1>1, Zenon DEF OpToRel
<1> QED
  BY <1>2

(* What InsertAt and RemoveAt return.                                      *)
LEMMA InsertAtProperties ==
  ASSUME NEW S, NEW seq \in Seq(S), NEW i \in 1 .. Len(seq) + 1, NEW e \in S
  PROVE  /\ InsertAt(seq, i, e) \in Seq(S)
         /\ Len(InsertAt(seq, i, e)) = Len(seq) + 1
         /\ \A j \in 1 .. i - 1 : InsertAt(seq, i, e)[j] = seq[j]
         /\ InsertAt(seq, i, e)[i] = e
         /\ \A j \in i + 1 .. Len(seq) + 1 : InsertAt(seq, i, e)[j] = seq[j - 1]
<1> DEFINE left == SubSeq(seq, 1, i - 1)
           right == SubSeq(seq, i, Len(seq))
           one == <<e>>
<1>1. Len(seq) \in Nat /\ i \in Int /\ \A j \in 1 .. Len(seq) : seq[j] \in S
  BY LenProperties, ElementOfSeq
<1>2. /\ left \in Seq(S) /\ Len(left) = i - 1
      /\ \A j \in 1 .. i - 1 : left[j] = seq[j]
  BY <1>1, SubSeqProperties, SMT
<1>3. /\ right \in Seq(S) /\ Len(right) = Len(seq) - i + 1
      /\ \A j \in 1 .. Len(seq) - i + 1 : right[j] = seq[i + j - 1]
  BY <1>1, SubSeqProperties, SMT
<1>4. one \in Seq(S) /\ Len(one) = 1 /\ one[1] = e
  OBVIOUS
<1>5. /\ left \o one \in Seq(S) /\ Len(left \o one) = i
      /\ \A j \in 1 .. i : (left \o one)[j] = IF j < i THEN seq[j] ELSE e
  <2> HIDE DEF left, right, one
  <2>1. /\ left \o one \in Seq(S) /\ Len(left \o one) = Len(left) + Len(one)
        /\ \A j \in 1 .. Len(left) + Len(one) :
             (left \o one)[j] = IF j <= Len(left) THEN left[j] ELSE one[j - Len(left)]
    BY <1>2, <1>4, ConcatProperties
  <2> QED
    BY <2>1, <1>1, <1>2, <1>4
<1> DEFINE both == left \o one
<1>6. InsertAt(seq, i, e) = both \o right
  BY DEF InsertAt
<1>7. /\ both \in Seq(S) /\ Len(both) = i
      /\ \A j \in 1 .. i : both[j] = IF j < i THEN seq[j] ELSE e
  BY <1>5
<1> HIDE DEF left, right, one, both
<1>8. /\ both \o right \in Seq(S)
      /\ Len(both \o right) = Len(both) + Len(right)
      /\ \A j \in 1 .. Len(both) + Len(right) :
           (both \o right)[j] = IF j <= Len(both) THEN both[j] ELSE right[j - Len(both)]
  BY <1>3, <1>7, ConcatProperties
<1>9. \A j \in 1 .. Len(seq) + 1 : j > i => right[j - i] = seq[j - 1]
  BY <1>1, <1>3
<1> QED
  BY <1>1, <1>3, <1>6, <1>7, <1>8, <1>9

(* RemoveAt shortens a sequence by one and moves up what came after.       *)
LEMMA RemoveAtProperties ==
  ASSUME NEW S, NEW seq \in Seq(S), NEW i \in 1 .. Len(seq)
  PROVE  /\ RemoveAt(seq, i) \in Seq(S)
         /\ Len(RemoveAt(seq, i)) = Len(seq) - 1
         /\ \A j \in 1 .. Len(seq) - 1 :
              RemoveAt(seq, i)[j] = IF j < i THEN seq[j] ELSE seq[j + 1]
<1> DEFINE left == SubSeq(seq, 1, i - 1)
           right == SubSeq(seq, i + 1, Len(seq))
<1>1. Len(seq) \in Nat /\ i \in Int /\ \A j \in 1 .. Len(seq) : seq[j] \in S
  BY LenProperties, ElementOfSeq
<1>2. /\ left \in Seq(S) /\ Len(left) = i - 1
      /\ \A j \in 1 .. i - 1 : left[j] = seq[j]
  BY <1>1, SubSeqProperties, SMT
<1>3. /\ right \in Seq(S) /\ Len(right) = Len(seq) - i
      /\ \A j \in 1 .. Len(seq) - i : right[j] = seq[i + j]
  BY <1>1, SubSeqProperties, SMT
<1>4. RemoveAt(seq, i) = left \o right
  BY DEF RemoveAt
<1> HIDE DEF left, right
<1>5. /\ left \o right \in Seq(S) /\ Len(left \o right) = Len(left) + Len(right)
      /\ \A j \in 1 .. Len(left) + Len(right) :
           (left \o right)[j] = IF j <= Len(left) THEN left[j] ELSE right[j - Len(left)]
  BY <1>2, <1>3, ConcatProperties
<1>6. \A j \in 1 .. Len(seq) - 1 : j >= i => right[j - (i - 1)] = seq[j + 1]
  BY <1>1, <1>3
<1> QED
  BY <1>1, <1>2, <1>3, <1>4, <1>5, <1>6

-----------------------------------------------------------------------------
(* Lists without duplicates.                                               *)

Distinct(seq) == \A i, j \in DOMAIN seq : seq[i] = seq[j] => i = j

(* IndexIn finds an element that is there.                                 *)
LEMMA IndexInProperties ==
  ASSUME NEW S, NEW seq \in Seq(S), NEW e \in ToSet(seq)
  PROVE  IndexIn(seq, e) \in 1 .. Len(seq) /\ seq[IndexIn(seq, e)] = e
BY LenProperties DEF IndexIn, ToSet

(* A list is empty when it holds no element, and its last element is one   *)
(* of its elements.                                                        *)
LEMMA EmptyList ==
  ASSUME NEW S, NEW seq \in Seq(S)
  PROVE  /\ ToSet(seq) \subseteq S
         /\ seq = <<>> <=> ToSet(seq) = {}
         /\ Len(seq) = 0 <=> ToSet(seq) = {}
         /\ Len(seq) # 0 => Last(seq) \in ToSet(seq)
<1>1. Len(seq) \in Nat /\ DOMAIN seq = 1 .. Len(seq)
  BY LenProperties
<1>2. ToSet(seq) \subseteq S
  BY <1>1, ElementOfSeq DEF ToSet
<1>3. seq = <<>> <=> Len(seq) = 0
  BY EmptySeq
<1>4. Len(seq) = 0 <=> ToSet(seq) = {}
  <2>1. Len(seq) # 0 => 1 \in DOMAIN seq
    BY <1>1
  <2>2. Len(seq) = 0 => DOMAIN seq = {}
    BY <1>1
  <2>3. ToSet(seq) = {} <=> DOMAIN seq = {}
    BY DEF ToSet
  <2> QED
    BY <2>1, <2>2, <2>3
<1>5. Len(seq) # 0 => Last(seq) \in ToSet(seq)
  <2>1. Len(seq) # 0 => Len(seq) \in DOMAIN seq
    BY <1>1
  <2> QED
    BY <2>1 DEF Last, ToSet
<1> QED
  BY <1>2, <1>3, <1>4, <1>5

(* wl_list_remove returns a list of the same kind.                         *)
LEMMA RemovedKeepsType ==
  ASSUME NEW S, NEW seq \in Seq(S), NEW e
  PROVE  wl_list_remove(seq, e) \in Seq(S)
BY IndexInProperties, RemoveAtProperties DEF wl_list_remove

(* wl_list_remove takes out the element and keeps the others in order, the *)
(* last one included.                                                      *)
LEMMA Removed ==
  ASSUME NEW S, NEW seq \in Seq(S), NEW e, Distinct(seq)
  PROVE  LET r == wl_list_remove(seq, e)
         IN  /\ r \in Seq(S) /\ Distinct(r)
             /\ ToSet(r) = ToSet(seq) \ {e}
             /\ Last(seq) # e => Last(r) = Last(seq)
             /\ \A i, j \in DOMAIN r : i < j =>
                  \E k, l \in DOMAIN seq : k < l /\ seq[k] = r[i] /\ seq[l] = r[j]
<1> DEFINE r == wl_list_remove(seq, e)
           k == IndexIn(seq, e)
<1>1. Len(seq) \in Nat /\ DOMAIN seq = 1 .. Len(seq)
  BY LenProperties
<1>2. CASE e \notin ToSet(seq)
  BY <1>2 DEF wl_list_remove
<1>3. CASE e \in ToSet(seq)
  <2>1. k \in 1 .. Len(seq) /\ seq[k] = e
    BY <1>3, IndexInProperties
  <2>2. r = RemoveAt(seq, k)
    BY <1>3 DEF wl_list_remove
  <2> HIDE DEF r, k
  <2>3. /\ r \in Seq(S) /\ Len(r) = Len(seq) - 1
        /\ \A j \in 1 .. Len(seq) - 1 : r[j] = IF j < k THEN seq[j] ELSE seq[j + 1]
    BY <2>1, <2>2, RemoveAtProperties
  <2>4. DOMAIN r = 1 .. Len(seq) - 1
    BY <2>3, LenProperties
  <2> DEFINE at(j) == IF j < k THEN j ELSE j + 1
  <2>5. \A j \in DOMAIN r : /\ at(j) \in DOMAIN seq /\ at(j) # k
                            /\ r[j] = seq[at(j)]
    BY <1>1, <2>1, <2>3, <2>4
  <2>6. \A i, j \in DOMAIN r : (at(i) = at(j) => i = j) /\ (i < j => at(i) < at(j))
    BY <1>1, <2>1, <2>4
  <2>7. \A i \in DOMAIN seq : i # k => \E j \in DOMAIN r : at(j) = i
    <3>1. ASSUME NEW i \in DOMAIN seq, i # k
          PROVE  \E j \in DOMAIN r : at(j) = i
      <4> DEFINE j == IF i < k THEN i ELSE i - 1
      <4>1. j \in DOMAIN r /\ at(j) = i
        BY <3>1, <1>1, <2>1, <2>4
      <4> QED
        BY <4>1
    <3> QED
      BY <3>1
  <2> HIDE DEF at
  <2>8. \A j \in DOMAIN r : r[j] # e
    BY <1>1, <2>1, <2>5 DEF Distinct
  <2>9. Distinct(r)
    BY <2>5, <2>6 DEF Distinct
  <2>10. ToSet(r) = ToSet(seq) \ {e}
    <3>1. ToSet(r) \subseteq ToSet(seq) \ {e}
      BY <2>5, <2>8 DEF ToSet
    <3>2. ASSUME NEW x \in ToSet(seq), x # e PROVE x \in ToSet(r)
      <4>1. PICK i \in DOMAIN seq : seq[i] = x
        BY DEF ToSet
      <4>2. PICK j \in DOMAIN r : at(j) = i
        BY <2>1, <2>7, <3>2, <4>1
      <4> QED
        BY <2>5, <4>1, <4>2 DEF ToSet
    <3> QED
      BY <3>1, <3>2
  <2>11. Last(seq) # e => Last(r) = Last(seq)
    <3>1. CASE seq[Len(seq)] # e
      <4>1. k < Len(seq)
        BY <3>1, <1>1, <2>1
      <4> QED
        BY <4>1, <1>1, <2>1, <2>3 DEF Last
    <3> QED
      BY <3>1 DEF Last
  <2>12. \A i, j \in DOMAIN r : i < j =>
           \E m, l \in DOMAIN seq : m < l /\ seq[m] = r[i] /\ seq[l] = r[j]
    BY <2>5, <2>6
  <2> QED
    BY <2>3, <2>9, <2>10, <2>11, <2>12 DEF r
<1> QED
  BY <1>2, <1>3

(* wl_list_insert at the head.                                             *)
LEMMA Prepended ==
  ASSUME NEW S, NEW seq \in Seq(S), NEW e \in S, Distinct(seq), e \notin ToSet(seq)
  PROVE  LET r == <<e>> \o seq
         IN  /\ r \in Seq(S) /\ Distinct(r)
             /\ ToSet(r) = ToSet(seq) \cup {e}
             /\ ToSet(seq) # {} => Last(r) = Last(seq)
<1> DEFINE one == <<e>>
           r == one \o seq
<1>1. Len(seq) \in Nat /\ DOMAIN seq = 1 .. Len(seq)
  BY LenProperties
<1>2. one \in Seq(S) /\ Len(one) = 1 /\ one[1] = e
  OBVIOUS
<1> HIDE DEF one
<1>3. /\ r \in Seq(S) /\ Len(r) = 1 + Len(seq)
      /\ \A i \in 1 .. 1 + Len(seq) : r[i] = IF i = 1 THEN e ELSE seq[i - 1]
  <2>1. /\ r \in Seq(S) /\ Len(r) = Len(one) + Len(seq)
        /\ \A i \in 1 .. Len(one) + Len(seq) :
             r[i] = IF i <= Len(one) THEN one[i] ELSE seq[i - Len(one)]
    BY <1>2, ConcatProperties
  <2> QED
    BY <2>1, <1>1, <1>2
<1>4. DOMAIN r = 1 .. 1 + Len(seq)
  BY <1>3, LenProperties
<1> HIDE DEF r
<1>5. \A i \in DOMAIN r : i # 1 => i - 1 \in DOMAIN seq /\ r[i] = seq[i - 1]
  BY <1>1, <1>3, <1>4
<1>6. 1 \in DOMAIN r /\ r[1] = e
  BY <1>1, <1>3, <1>4
<1>7. Distinct(r)
  <2>1. ASSUME NEW i \in DOMAIN r, NEW j \in DOMAIN r, r[i] = r[j] PROVE i = j
    <3>1. CASE i = 1 \/ j = 1
      BY <2>1, <3>1, <1>5, <1>6 DEF ToSet
    <3>2. CASE i # 1 /\ j # 1
      <4>1. i - 1 = j - 1
        BY <2>1, <3>2, <1>5 DEF Distinct
      <4> QED
        BY <4>1, <1>1, <1>4
    <3> QED
      BY <3>1, <3>2
  <2> QED
    BY <2>1 DEF Distinct
<1>8. ToSet(r) = ToSet(seq) \cup {e}
  <2>1. ToSet(r) \subseteq ToSet(seq) \cup {e}
    BY <1>3, <1>5 DEF ToSet
  <2>2. \A i \in DOMAIN seq : i + 1 \in DOMAIN r /\ r[i + 1] = seq[i]
    BY <1>1, <1>3, <1>4
  <2> QED
    BY <1>6, <2>1, <2>2 DEF ToSet
<1>9. ToSet(seq) # {} => Last(r) = Last(seq)
  <2>1. ToSet(seq) # {} => Len(seq) # 0
    BY EmptyList
  <2> QED
    BY <2>1, <1>1, <1>3 DEF Last
<1> QED
  BY <1>3, <1>7, <1>8, <1>9 DEF r, one

-----------------------------------------------------------------------------
(* Sequences glued together and turned round.                              *)

(* What is left of a list when it is cut before and after a place.         *)
LEMMA CutProperties ==
  ASSUME NEW S, NEW seq \in Seq(S), NEW k \in 1 .. Len(seq)
  PROVE  /\ SubSeq(seq, 1, k) \in Seq(S) /\ Len(SubSeq(seq, 1, k)) = k
         /\ \A i \in 1 .. k : SubSeq(seq, 1, k)[i] = seq[i]
         /\ SubSeq(seq, 1, k - 1) \in Seq(S) /\ Len(SubSeq(seq, 1, k - 1)) = k - 1
         /\ \A i \in 1 .. k - 1 : SubSeq(seq, 1, k - 1)[i] = seq[i]
         /\ SubSeq(seq, k + 1, Len(seq)) \in Seq(S)
         /\ Len(SubSeq(seq, k + 1, Len(seq))) = Len(seq) - k
         /\ \A i \in 1 .. Len(seq) - k : SubSeq(seq, k + 1, Len(seq))[i] = seq[k + i]
<1>1. Len(seq) \in Nat /\ k \in Int /\ \A j \in 1 .. Len(seq) : seq[j] \in S
  BY LenProperties, ElementOfSeq
<1>2. /\ SubSeq(seq, 1, k) \in Seq(S) /\ Len(SubSeq(seq, 1, k)) = k
      /\ \A i \in 1 .. k : SubSeq(seq, 1, k)[i] = seq[i]
  BY <1>1, SubSeqProperties, SMT
<1>3. /\ SubSeq(seq, 1, k - 1) \in Seq(S) /\ Len(SubSeq(seq, 1, k - 1)) = k - 1
      /\ \A i \in 1 .. k - 1 : SubSeq(seq, 1, k - 1)[i] = seq[i]
  BY <1>1, SubSeqProperties, SMT
<1>4. /\ SubSeq(seq, k + 1, Len(seq)) \in Seq(S)
      /\ Len(SubSeq(seq, k + 1, Len(seq))) = Len(seq) - k
      /\ \A i \in 1 .. Len(seq) - k : SubSeq(seq, k + 1, Len(seq))[i] = seq[k + i]
  BY <1>1, SubSeqProperties, SMT
<1> QED
  BY <1>2, <1>3, <1>4

(* Concatenation joins the elements and keeps them distinct when the parts *)
(* are disjoint.                                                           *)
LEMMA Concatenated ==
  ASSUME NEW S, NEW p \in Seq(S), NEW q \in Seq(S)
  PROVE  /\ p \o q \in Seq(S)
         /\ ToSet(p \o q) = ToSet(p) \cup ToSet(q)
         /\ Distinct(p) /\ Distinct(q) /\ ToSet(p) \cap ToSet(q) = {} => Distinct(p \o q)
<1> DEFINE r == p \o q
<1>1. /\ Len(p) \in Nat /\ DOMAIN p = 1 .. Len(p)
      /\ Len(q) \in Nat /\ DOMAIN q = 1 .. Len(q)
  BY LenProperties
<1>2. /\ r \in Seq(S) /\ Len(r) = Len(p) + Len(q)
      /\ \A i \in 1 .. Len(p) + Len(q) :
           r[i] = IF i <= Len(p) THEN p[i] ELSE q[i - Len(p)]
  BY ConcatProperties
<1>3. DOMAIN r = 1 .. Len(p) + Len(q)
  BY <1>2, LenProperties
<1> HIDE DEF r
<1>4. \A i \in DOMAIN r : \/ i \in DOMAIN p /\ r[i] = p[i]
                          \/ i - Len(p) \in DOMAIN q /\ r[i] = q[i - Len(p)]
  BY <1>1, <1>2, <1>3
<1>5. \A i \in DOMAIN p : i \in DOMAIN r /\ r[i] = p[i]
  BY <1>1, <1>2, <1>3
<1>6. \A i \in DOMAIN q : i + Len(p) \in DOMAIN r /\ r[i + Len(p)] = q[i]
  BY <1>1, <1>2, <1>3
<1>7. ToSet(r) = ToSet(p) \cup ToSet(q)
  <2>1. ToSet(r) \subseteq ToSet(p) \cup ToSet(q)
    BY <1>4 DEF ToSet
  <2>2. ToSet(p) \subseteq ToSet(r)
    BY <1>5 DEF ToSet
  <2>3. ToSet(q) \subseteq ToSet(r)
    BY <1>6 DEF ToSet
  <2> QED
    BY <2>1, <2>2, <2>3
<1>8. ASSUME Distinct(p), Distinct(q), ToSet(p) \cap ToSet(q) = {},
             NEW i \in DOMAIN r, NEW j \in DOMAIN r, r[i] = r[j]
      PROVE  i = j
  <2>1. CASE i \in DOMAIN p /\ r[i] = p[i]
    <3>1. CASE j \in DOMAIN p /\ r[j] = p[j]
      BY <1>8, <2>1, <3>1 DEF Distinct
    <3>2. CASE j - Len(p) \in DOMAIN q /\ r[j] = q[j - Len(p)]
      BY <1>8, <2>1, <3>2 DEF ToSet
    <3> QED
      BY <1>4, <3>1, <3>2
  <2>2. CASE i - Len(p) \in DOMAIN q /\ r[i] = q[i - Len(p)]
    <3>1. CASE j \in DOMAIN p /\ r[j] = p[j]
      BY <1>8, <2>2, <3>1 DEF ToSet
    <3>2. CASE j - Len(p) \in DOMAIN q /\ r[j] = q[j - Len(p)]
      <4>1. i - Len(p) = j - Len(p)
        BY <1>8, <2>2, <3>2 DEF Distinct
      <4> QED
        BY <4>1, <1>1, <1>3
    <3> QED
      BY <1>4, <3>1, <3>2
  <2> QED
    BY <1>4, <2>1, <2>2
<1> QED
  BY <1>2, <1>7, <1>8 DEF r, Distinct

(* Reversing keeps the elements.                                           *)
LEMMA Reversed ==
  ASSUME NEW S, NEW seq \in Seq(S)
  PROVE  Reverse(seq) \in Seq(S) /\ ToSet(Reverse(seq)) = ToSet(seq)
<1> DEFINE r == Reverse(seq)
<1>1. /\ Len(seq) \in Nat /\ DOMAIN seq = 1 .. Len(seq)
      /\ \A i \in 1 .. Len(seq) : seq[i] \in S
  BY LenProperties, ElementOfSeq
<1>2. /\ DOMAIN r = 1 .. Len(seq)
      /\ \A i \in 1 .. Len(seq) : r[i] = seq[(Len(seq) - i) + 1]
      /\ r = [i \in 1 .. Len(seq) |-> r[i]]
  BY DEF Reverse
<1> HIDE DEF r
<1>3. \A i \in 1 .. Len(seq) : (Len(seq) - i) + 1 \in 1 .. Len(seq)
  BY <1>1
<1>4. r \in Seq(S)
  <2>1. \A i \in 1 .. Len(seq) : r[i] \in S
    BY <1>1, <1>2, <1>3
  <2>2. r \in [1 .. Len(seq) -> S]
    BY <1>2, <2>1
  <2> QED
    BY <1>1, <2>2, SeqDef
<1>5. ToSet(r) \subseteq ToSet(seq)
  BY <1>1, <1>2, <1>3 DEF ToSet
<1>6. \A i \in 1 .. Len(seq) : seq[i] = r[(Len(seq) - i) + 1]
  <2>1. \A i \in 1 .. Len(seq) : (Len(seq) - ((Len(seq) - i) + 1)) + 1 = i
    BY <1>1
  <2> QED
    BY <1>2, <1>3, <2>1
<1>7. ToSet(seq) \subseteq ToSet(r)
  BY <1>1, <1>2, <1>3, <1>6 DEF ToSet
<1> QED
  BY <1>4, <1>5, <1>7 DEF r

(* Where the elements of the reversed list come from.                      *)
LEMMA ReversedAt ==
  ASSUME NEW S, NEW seq \in Seq(S)
  PROVE  /\ Len(Reverse(seq)) = Len(seq)
         /\ \A i \in 1 .. Len(seq) : Reverse(seq)[i] = seq[Len(seq) - i + 1]
<1> DEFINE r == Reverse(seq)
<1>1. /\ DOMAIN r = 1 .. Len(seq)
      /\ \A i \in 1 .. Len(seq) : r[i] = seq[(Len(seq) - i) + 1]
  BY DEF Reverse
<1>2. r \in Seq(S)
  BY Reversed
<1> HIDE DEF r
<1>3. Len(r) = Len(seq)
  BY <1>1, <1>2, LenProperties
<1> QED
  BY <1>1, <1>3 DEF r

(* The function by which FlattenSeq is defined, on its first k arguments.  *)
Flattens(seqs, g, k) ==
  g = [i \in 1 .. k |-> IF i = 1 THEN seqs[i] ELSE g[i - 1] \o seqs[i]]

(* The recursive function that FlattenSeq chooses exists, for every        *)
(* length.                                                                 *)
LEMMA FlattenExists ==
  ASSUME NEW seqs, NEW n \in Nat
  PROVE  \E g : Flattens(seqs, g, n)
<1> DEFINE T == {k \in Nat : ~ \E g : Flattens(seqs, g, k)}
<1>1. CASE T = {}
  BY <1>1
<1>2. CASE T # {}
  <2>1. PICK m \in T : \A k \in T : m <= k
    BY <1>2, LeastNat
  <2>2. CASE m = 0
    <3> DEFINE h == [i \in 1 .. 0 |-> {}]
    <3>1. h = [i \in 1 .. 0 |-> IF i = 1 THEN seqs[i] ELSE h[i - 1] \o seqs[i]]
      OBVIOUS
    <3> QED
      BY <2>1, <2>2, <3>1 DEF Flattens
  <2>3. CASE m # 0
    <3>1. m \in Nat /\ m - 1 \in Nat /\ ~(m <= m - 1)
      BY <2>1, <2>3
    <3>2. PICK g : Flattens(seqs, g, m - 1)
      BY <2>1, <3>1
    <3> DEFINE e == IF m = 1 THEN seqs[m] ELSE g[m - 1] \o seqs[m]
               h == [i \in 1 .. m |-> IF i = m THEN e ELSE g[i]]
    <3>3. g = [i \in 1 .. m - 1 |-> IF i = 1 THEN seqs[i] ELSE g[i - 1] \o seqs[i]]
      BY <3>2 DEF Flattens
    <3>4. \A i \in 1 .. m : h[i] = IF i = 1 THEN seqs[i] ELSE h[i - 1] \o seqs[i]
      <4> TAKE i \in 1 .. m
      <4>1. i # 1 => i - 1 \in 1 .. m /\ i - 1 # m
        BY <3>1
      <4>2. CASE i = m
        BY <4>1, <4>2
      <4>3. CASE i # m
        <5>1. i \in 1 .. m - 1
          BY <4>3, <3>1
        <5>2. g[i] = IF i = 1 THEN seqs[i] ELSE g[i - 1] \o seqs[i]
          BY <5>1, <3>3
        <5> QED
          BY <4>1, <4>3, <5>2
      <4> QED
        BY <4>2, <4>3
    <3>5. h = [i \in 1 .. m |-> h[i]]
      OBVIOUS
    <3> HIDE DEF h
    <3>6. Flattens(seqs, h, m)
      BY <3>4, <3>5 DEF Flattens
    <3> QED
      BY <2>1, <3>6
  <2> QED
    BY <2>2, <2>3
<1> QED
  BY <1>1, <1>2

(* Lists put one after the other: whose elements they are, and that there  *)
(* is no duplicate when the lists have none and no element in common.      *)
LEMMA FlattenProperties ==
  ASSUME NEW S, NEW seqs \in Seq(Seq(S)),
         \A i \in DOMAIN seqs : Distinct(seqs[i]),
         \A i, j \in DOMAIN seqs : i # j => ToSet(seqs[i]) \cap ToSet(seqs[j]) = {}
  PROVE  /\ FlattenSeq(seqs) \in Seq(S) /\ Distinct(FlattenSeq(seqs))
         /\ \A e : e \in ToSet(FlattenSeq(seqs)) <=> \E i \in DOMAIN seqs : e \in ToSet(seqs[i])
<1> DEFINE n == Len(seqs)
           r == FlattenSeq(seqs)
<1>1. /\ n \in Nat /\ DOMAIN seqs = 1 .. n /\ \A i \in 1 .. n : seqs[i] \in Seq(S)
  BY LenProperties, ElementOfSeq
<1>2. CASE n = 0
  <2>1. r = seqs /\ seqs = <<>>
    BY <1>2, EmptySeq DEF FlattenSeq
  <2>2. <<>> \in Seq(S) /\ Distinct(<<>>) /\ ToSet(<<>>) = {} /\ DOMAIN <<>> = {}
    BY EmptySeq DEF Distinct, ToSet
  <2> QED
    BY <2>1, <2>2
<1>3. CASE n # 0
  <2> DEFINE f == CHOOSE g : Flattens(seqs, g, n)
  <2>1. Flattens(seqs, f, n)
    BY <1>1, FlattenExists
  <2>2. r = f[n]
    BY <1>3 DEF FlattenSeq, Flattens
  <2> HIDE DEF n, r, f
  <2>3. \A i \in 1 .. n : f[i] = IF i = 1 THEN seqs[i] ELSE f[i - 1] \o seqs[i]
    BY <2>1 DEF Flattens
  <2> DEFINE Good(i) == /\ f[i] \in Seq(S) /\ Distinct(f[i])
                        /\ \A e : e \in ToSet(f[i]) <=> \E j \in 1 .. i : e \in ToSet(seqs[j])
             T == {i \in 1 .. n : ~Good(i)}
  <2> HIDE DEF Good
  <2>4. CASE T = {}
    <3>1. n \in 1 .. n
      BY <1>1, <1>3
    <3>2. Good(n)
      BY <2>4, <3>1
    <3> QED
      BY <3>2, <2>2, <1>1 DEF n, r, Good
  <2>5. CASE T # {}
    <3>1. PICK m \in T : \A k \in T : m <= k
      <4>1. T \in SUBSET Nat
        BY <1>1
      <4> HIDE DEF T
      <4> QED
        BY <2>5, <4>1, LeastNat
    <3>2. m \in 1 .. n /\ ~Good(m)
      BY <3>1
    <3>3. CASE m = 1
      <4>1. f[m] = seqs[m]
        BY <3>2, <3>3, <2>3
      <4>2. f[m] \in Seq(S) /\ Distinct(f[m])
        BY <4>1, <3>2, <1>1
      <4>3. \A e : e \in ToSet(f[m]) <=> \E j \in 1 .. m : e \in ToSet(seqs[j])
        <5>1. \A j : j \in 1 .. m <=> j = m
          BY <3>3
        <5> QED
          BY <5>1, <4>1
      <4> QED
        BY <3>2, <4>2, <4>3 DEF Good
    <3>4. CASE m # 1
      <4>1. m - 1 \in 1 .. n /\ ~(m <= m - 1) /\ f[m] = f[m - 1] \o seqs[m]
        <5>1. m - 1 \in 1 .. n /\ ~(m <= m - 1)
          BY <3>2, <3>4, <1>1
        <5> QED
          BY <5>1, <3>2, <3>4, <2>3
      <4>2. Good(m - 1)
        BY <4>1, <3>1
      <4>3. f[m - 1] \in Seq(S) /\ seqs[m] \in Seq(S) /\ Distinct(f[m - 1]) /\ Distinct(seqs[m])
        BY <4>2, <3>2, <1>1 DEF Good
      <4>4. /\ \A j : j \in 1 .. m <=> j \in 1 .. m - 1 \/ j = m
            /\ \A j \in 1 .. m - 1 : j \in DOMAIN seqs /\ m \in DOMAIN seqs /\ j # m
        BY <3>2, <3>4, <1>1
      <4>5. \A e : e \in ToSet(f[m - 1]) <=> \E j \in 1 .. m - 1 : e \in ToSet(seqs[j])
        BY <4>2 DEF Good
      <4>6. ToSet(f[m - 1]) \cap ToSet(seqs[m]) = {}
        BY <4>4, <4>5
      <4> DEFINE p == f[m - 1]
                 q == seqs[m]
      <4> HIDE DEF p, q
      <4>7. p \o q \in Seq(S) /\ ToSet(p \o q) = ToSet(p) \cup ToSet(q) /\ Distinct(p \o q)
        BY <4>3, <4>6, Concatenated DEF p, q
      <4>8. f[m] = p \o q
        BY <4>1 DEF p, q
      <4>9. \A e : e \in ToSet(f[m]) <=> \E j \in 1 .. m : e \in ToSet(seqs[j])
        BY <4>4, <4>5, <4>7, <4>8 DEF p, q
      <4> QED
        BY <3>2, <4>7, <4>8, <4>9 DEF Good
    <3> QED
      BY <3>3, <3>4
  <2> QED
    BY <2>4, <2>5
<1> QED
  BY <1>2, <1>3

(* wl_list_insert at the tail.                                             *)
LEMMA Appended ==
  ASSUME NEW S, NEW seq \in Seq(S), NEW e \in S, Distinct(seq), e \notin ToSet(seq)
  PROVE  /\ Append(seq, e) \in Seq(S) /\ Distinct(Append(seq, e))
         /\ ToSet(Append(seq, e)) = ToSet(seq) \cup {e}
<1> DEFINE r == Append(seq, e)
<1>1. /\ r \in Seq(S) /\ Len(r) = Len(seq) + 1 /\ r[Len(seq) + 1] = e
      /\ \A i \in 1 .. Len(seq) : r[i] = seq[i]
  BY AppendProperties
<1>2. DOMAIN seq = 1 .. Len(seq) /\ DOMAIN r = 1 .. Len(seq) + 1 /\ Len(seq) \in Nat
  BY <1>1, LenProperties
<1> HIDE DEF r
<1>3. /\ \A i \in DOMAIN r : i = Len(seq) + 1 \/ i \in DOMAIN seq
      /\ \A i \in DOMAIN seq : i \in DOMAIN r /\ r[i] = seq[i]
      /\ Len(seq) + 1 \in DOMAIN r
  BY <1>1, <1>2
<1>4. Distinct(r)
  BY <1>1, <1>3 DEF Distinct, ToSet
<1>5. ToSet(r) = ToSet(seq) \cup {e}
  BY <1>1, <1>3 DEF ToSet
<1> QED
  BY <1>1, <1>4, <1>5 DEF r

(* wl_list_insert at any other place.                                      *)
LEMMA Spliced ==
  ASSUME NEW S, NEW seq \in Seq(S), NEW e \in S, Distinct(seq), e \notin ToSet(seq),
         NEW i \in 1 .. Len(seq) + 1
  PROVE  /\ InsertAt(seq, i, e) \in Seq(S) /\ Distinct(InsertAt(seq, i, e))
         /\ ToSet(InsertAt(seq, i, e)) = ToSet(seq) \cup {e}
<1> DEFINE r == InsertAt(seq, i, e)
<1>1. Len(seq) \in Nat /\ DOMAIN seq = 1 .. Len(seq) /\ i \in Int
  BY LenProperties
<1>2. /\ r \in Seq(S) /\ Len(r) = Len(seq) + 1
      /\ \A j \in 1 .. i - 1 : r[j] = seq[j]
      /\ r[i] = e
      /\ \A j \in i + 1 .. Len(seq) + 1 : r[j] = seq[j - 1]
  <2>1. r \in Seq(S) /\ Len(r) = Len(seq) + 1
    BY InsertAtProperties
  <2>2. \A j \in 1 .. i - 1 : r[j] = seq[j]
    BY InsertAtProperties
  <2>3. r[i] = e
    BY InsertAtProperties
  <2>4. \A j \in i + 1 .. Len(seq) + 1 : r[j] = seq[j - 1]
    BY InsertAtProperties
  <2> HIDE DEF r
  <2> QED
    BY <2>1, <2>2, <2>3, <2>4
<1> HIDE DEF r
<1>3. DOMAIN r = 1 .. Len(seq) + 1
  BY <1>2, LenProperties
<1> DEFINE at(j) == IF j < i THEN j ELSE j - 1
<1>4. ASSUME NEW j \in DOMAIN r, j # i
      PROVE  at(j) \in DOMAIN seq /\ r[j] = seq[at(j)]
  <2>1. CASE j < i
    BY <2>1, <1>1, <1>2, <1>3
  <2>2. CASE j > i
    <3>1. j \in i + 1 .. Len(seq) + 1 /\ at(j) = j - 1
      BY <2>2, <1>1, <1>3
    <3> QED
      BY <2>2, <3>1, <1>1, <1>2
  <2> QED
    BY <2>1, <2>2, <1>1, <1>3, <1>4
<1>5. \A j, k \in DOMAIN r : j # i /\ k # i /\ at(j) = at(k) => j = k
  BY <1>1, <1>3
<1>6. i \in DOMAIN r /\ r[i] = e
  BY <1>1, <1>2, <1>3
<1>7. \A k \in DOMAIN seq : \E j \in DOMAIN r : j # i /\ at(j) = k
  <2>1. ASSUME NEW k \in DOMAIN seq
        PROVE  \E j \in DOMAIN r : j # i /\ at(j) = k
    <3> DEFINE j == IF k < i THEN k ELSE k + 1
    <3>1. j \in DOMAIN r /\ j # i /\ at(j) = k
      BY <1>1, <1>3
    <3> QED
      BY <3>1
  <2> QED
    BY <2>1
<1> HIDE DEF at
<1>8. Distinct(r)
  BY <1>4, <1>5, <1>6 DEF Distinct, ToSet
<1>9. ToSet(r) = ToSet(seq) \cup {e}
  <2>1. ToSet(r) \subseteq ToSet(seq) \cup {e}
    BY <1>4, <1>6 DEF ToSet
  <2>2. ToSet(seq) \subseteq ToSet(r)
    BY <1>4, <1>7 DEF ToSet
  <2> QED
    BY <2>1, <2>2, <1>6 DEF ToSet
<1> QED
  BY <1>2, <1>8, <1>9 DEF r

(* Taking the first element.                                               *)
LEMMA Taken ==
  ASSUME NEW S, NEW seq \in Seq(S), seq # <<>>, Distinct(seq)
  PROVE  /\ Head(seq) \in S /\ Head(seq) \in ToSet(seq)
         /\ Tail(seq) \in Seq(S) /\ Distinct(Tail(seq))
         /\ ToSet(Tail(seq)) = ToSet(seq) \ {Head(seq)}
<1> DEFINE q == Tail(seq)
<1>1. /\ Head(seq) = seq[1] /\ seq[1] \in S /\ Len(seq) >= 1 /\ Len(seq) \in Nat
      /\ DOMAIN seq = 1 .. Len(seq)
  BY HeadTailProperties, EmptySeq, LenProperties, ElementOfSeq
<1>2. /\ q \in Seq(S) /\ Len(q) = Len(seq) - 1
      /\ \A k \in 1 .. Len(q) : q[k] = seq[k + 1]
  BY HeadTailProperties
<1> HIDE DEF q
<1>3. DOMAIN q = 1 .. Len(q) /\ Len(q) \in Nat
  BY <1>2, LenProperties
<1>4. \A k \in DOMAIN q :
        k + 1 \in DOMAIN seq /\ k + 1 # 1 /\ k \in Nat /\ q[k] = seq[k + 1]
  BY <1>1, <1>2, <1>3
<1>5. Distinct(q)
  BY <1>4 DEF Distinct
<1>6. ASSUME NEW e \in ToSet(seq), e # seq[1] PROVE e \in ToSet(q)
  <2>1. PICK k \in DOMAIN seq : seq[k] = e
    BY DEF ToSet
  <2>2. k - 1 \in 1 .. Len(q) /\ (k - 1) + 1 = k
    BY <1>1, <1>2, <1>6, <2>1
  <2>3. q[k - 1] = e
    BY <1>2, <2>1, <2>2
  <2> QED
    BY <1>3, <2>2, <2>3 DEF ToSet
<1>7. 1 \in DOMAIN seq
  BY <1>1
<1>8. \A e \in ToSet(q) : e \in ToSet(seq) /\ e # seq[1]
  BY <1>4, <1>7 DEF ToSet, Distinct
<1>9. ToSet(q) = ToSet(seq) \ {seq[1]}
  BY <1>6, <1>8
<1> QED
  BY <1>1, <1>2, <1>5, <1>7, <1>9 DEF q, ToSet
=============================================================================
