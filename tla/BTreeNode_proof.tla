--------------------------- MODULE BTreeNode_proof ---------------------------
(***************************************************************************)
(* What the operators of BTreeNode compute, for nodes of any size: where a *)
(* search stops, what an insertion, a removal, a division, a merge and a   *)
(* redistribution make of keys, values and links.                          *)
(***************************************************************************)
EXTENDS BTreeNode, WellFoundedInduction, SequenceTheorems, TLAPS

(* Keys in ascending order.                                                  *)
Ascending(s) == \A i, j \in 1 .. Len(s) : i < j => s[i] < s[j]

-------------------------------------------------------------------------------
(* Least and greatest *)

(* The least of some natural numbers.                                          *)
LEMMA MinIsLeast ==
  ASSUME NEW S \in SUBSET Nat, S # {}
  PROVE  Min(S) \in S /\ \A x \in S : Min(S) <= x
<1> DEFINE less == {p \in Nat \X Nat : p[1] < p[2]}
<1>1. \E n \in S : \A x \in S : n <= x
  <2>0. IsWellFoundedOn(less, Nat)
    BY ONLY NatLessThanWellFounded, Zenon DEF OpToRel
  <2>1. PICK n \in S : \A x \in S : <<x, n>> \notin less
    BY <2>0, WFMin
  <2>2. ASSUME NEW x \in S PROVE n <= x
    <3>1. n \in Nat /\ x \in Nat /\ ~(x < n)
      BY <2>1, <2>2
    <3> QED
      BY <3>1
  <2> QED
    BY <2>2
<1> QED
  BY <1>1 DEF Min

(* A number that is in a set and least in it is the minimum.                   *)
LEMMA MinIs ==
  ASSUME NEW S \in SUBSET Nat, NEW m \in S, \A x \in S : m <= x
  PROVE  Min(S) = m
<1>1. Min(S) \in S /\ Min(S) <= m
  BY MinIsLeast
<1>2. m <= Min(S) /\ Min(S) \in Nat /\ m \in Nat
  BY <1>1
<1> QED
  BY <1>1, <1>2

(* Likewise for the maximum.                                                   *)
LEMMA MaxIs ==
  ASSUME NEW S \in SUBSET Nat, NEW m \in S, \A x \in S : x <= m
  PROVE  Max(S) = m
<1>1. \E x \in S : \A y \in S : x >= y
  <2>1. \A y \in S : m >= y
    OBVIOUS
  <2> QED
    BY <2>1
<1>2. Max(S) \in S /\ \A y \in S : Max(S) >= y
  BY <1>1 DEF Max
<1>3. Max(S) >= m /\ Max(S) <= m /\ Max(S) \in Nat /\ m \in Nat
  BY <1>2
<1> QED
  BY <1>3

-------------------------------------------------------------------------------
(* Sequences *)

(* t is s with e put in at place i.                                            *)
Inserted(t, s, i, e) ==
  /\ Len(t) = Len(s) + 1
  /\ \A j \in 1 .. Len(s) + 1 : t[j] = IF j < i THEN s[j]
                                      ELSE IF j = i THEN e ELSE s[j - 1]

(* t is s without its entry at place i.                                        *)
Removed(t, s, i) ==
  /\ Len(t) = Len(s) - 1
  /\ \A j \in 1 .. Len(s) - 1 : t[j] = IF j < i THEN s[j] ELSE s[j + 1]

(* t is what s has from l to r.                                                *)
Part(t, s, l, r) ==
  /\ Len(t) = r - l + 1
  /\ \A j \in 1 .. r - l + 1 : t[j] = s[l + j - 1]

(* t is s1 and then s2.                                                        *)
Joined(t, s1, s2) ==
  /\ Len(t) = Len(s1) + Len(s2)
  /\ \A j \in 1 .. Len(s1) + Len(s2) :
       t[j] = IF j <= Len(s1) THEN s1[j] ELSE s2[j - Len(s1)]

(* InsertAt puts one entry in and keeps the type of the sequence.             *)
LEMMA InsertAtIs ==
  ASSUME NEW S, NEW s \in Seq(S), NEW i \in 1 .. Len(s) + 1, NEW e \in S
  PROVE  InsertAt(s, i, e) \in Seq(S) /\ Inserted(InsertAt(s, i, e), s, i, e)
<1> DEFINE a == SubSeq(s, 1, i - 1)
           b == SubSeq(s, i, Len(s))
           c == a \o <<e>>
<1>1. Len(s) \in Nat /\ i \in Nat /\ i >= 1 /\ i <= Len(s) + 1
      /\ \A j \in 1 .. Len(s) : s[j] \in S
  BY LenProperties
<1>2. /\ a \in Seq(S) /\ Len(a) = i - 1
      /\ \A j \in 1 .. i - 1 : a[j] = s[j]
  <2>1. i - 1 \in Int /\ 1 \in Int /\ \A j \in 1 .. i - 1 : s[j] \in S
    BY <1>1
  <2>2. /\ a \in Seq(S)
        /\ Len(a) = IF 1 <= i - 1 THEN (i - 1) - 1 + 1 ELSE 0
        /\ \A j \in 1 .. (i - 1) - 1 + 1 : a[j] = s[1 + j - 1]
    BY <2>1, SubSeqProperties
  <2> HIDE DEF a
  <2> QED
    BY <1>1, <2>2
<1>3. /\ b \in Seq(S) /\ Len(b) = Len(s) - i + 1
      /\ \A j \in 1 .. Len(s) - i + 1 : b[j] = s[i + j - 1]
  <2>1. i \in Int /\ Len(s) \in Int /\ \A j \in i .. Len(s) : s[j] \in S
    BY <1>1
  <2>2. /\ b \in Seq(S)
        /\ Len(b) = IF i <= Len(s) THEN Len(s) - i + 1 ELSE 0
        /\ \A j \in 1 .. Len(s) - i + 1 : b[j] = s[i + j - 1]
    BY <2>1, SubSeqProperties
  <2> HIDE DEF b
  <2> QED
    BY <1>1, <2>2
<1>4. <<e>> \in Seq(S) /\ Len(<<e>>) = 1 /\ <<e>>[1] = e
  OBVIOUS
<1> HIDE DEF a, b
<1>5. /\ c \in Seq(S) /\ Len(c) = i
      /\ \A j \in 1 .. i : c[j] = IF j < i THEN s[j] ELSE e
  <2>1. /\ c \in Seq(S) /\ Len(c) = Len(a) + Len(<<e>>)
        /\ \A j \in 1 .. Len(a) + Len(<<e>>) :
             c[j] = IF j <= Len(a) THEN a[j] ELSE <<e>>[j - Len(a)]
    BY <1>2, <1>4, ConcatProperties
  <2> DEFINE one == <<e>>
  <2>2. Len(one) = 1 /\ one[1] = e
    OBVIOUS
  <2>3. /\ Len(c) = Len(a) + Len(one)
        /\ \A j \in 1 .. Len(a) + Len(one) :
             c[j] = IF j <= Len(a) THEN a[j] ELSE one[j - Len(a)]
    BY <2>1
  <2> HIDE DEF c, one
  <2>4. ASSUME NEW j \in 1 .. i PROVE c[j] = IF j < i THEN s[j] ELSE e
    <3>1. j \in 1 .. Len(a) + Len(one)
      BY <1>1, <1>2, <2>2
    <3>2. CASE j < i
      BY <1>1, <1>2, <2>3, <3>1, <3>2
    <3>3. CASE ~(j < i)
      <4>1. j = i /\ ~(j <= Len(a)) /\ j - Len(a) = 1
        BY <1>1, <1>2, <3>3
      <4> QED
        BY <2>2, <2>3, <3>1, <3>3, <4>1
    <3> QED
      BY <3>2, <3>3
  <2>5. Len(c) = i
    BY <1>1, <1>2, <2>2, <2>3
  <2> QED
    BY <2>1, <2>4, <2>5
<1> HIDE DEF c
<1>6. /\ c \o b \in Seq(S) /\ Len(c \o b) = Len(c) + Len(b)
      /\ \A j \in 1 .. Len(c) + Len(b) :
           (c \o b)[j] = IF j <= Len(c) THEN c[j] ELSE b[j - Len(c)]
  BY <1>3, <1>5, ConcatProperties
<1> DEFINE t == c \o b
<1>7. InsertAt(s, i, e) = t
  BY DEF InsertAt, a, b, c
<1>8. t \in Seq(S) /\ Len(t) = Len(s) + 1
  BY <1>1, <1>3, <1>5, <1>6
<1> HIDE DEF t
<1>9. ASSUME NEW j \in 1 .. Len(s) + 1
      PROVE  t[j] = IF j < i THEN s[j] ELSE IF j = i THEN e ELSE s[j - 1]
  <2>1. CASE j <= i
    BY <1>1, <1>3, <1>5, <1>6, <2>1 DEF t
  <2>2. CASE j > i
    <3>1. /\ j - i \in 1 .. Len(s) - i + 1 /\ ~(j <= Len(c)) /\ j - Len(c) = j - i
          /\ j \in 1 .. Len(c) + Len(b) /\ i + (j - i) - 1 = j - 1
      BY <1>1, <1>3, <1>5, <2>2
    <3>2. t[j] = b[j - i]
      BY <1>6, <3>1 DEF t
    <3>3. b[j - i] = s[i + (j - i) - 1]
      BY <1>3, <3>1
    <3> QED
      BY <1>1, <2>2, <3>1, <3>2, <3>3
  <2> QED
    BY <1>1, <2>1, <2>2
<1> QED
  BY <1>7, <1>8, <1>9 DEF Inserted

(* RemoveAt takes one entry out and keeps the type of the sequence.           *)
LEMMA RemoveAtIs ==
  ASSUME NEW S, NEW s \in Seq(S), NEW i \in 1 .. Len(s)
  PROVE  RemoveAt(s, i) \in Seq(S) /\ Removed(RemoveAt(s, i), s, i)
<1> DEFINE a == SubSeq(s, 1, i - 1)
           b == SubSeq(s, i + 1, Len(s))
<1>1. Len(s) \in Nat /\ i \in Nat /\ i >= 1 /\ i <= Len(s)
      /\ \A j \in 1 .. Len(s) : s[j] \in S
  BY LenProperties
<1>2. /\ a \in Seq(S) /\ Len(a) = i - 1
      /\ \A j \in 1 .. i - 1 : a[j] = s[j]
  <2>1. i - 1 \in Int /\ 1 \in Int /\ \A j \in 1 .. i - 1 : s[j] \in S
    BY <1>1
  <2>2. /\ a \in Seq(S)
        /\ Len(a) = IF 1 <= i - 1 THEN (i - 1) - 1 + 1 ELSE 0
        /\ \A j \in 1 .. (i - 1) - 1 + 1 : a[j] = s[1 + j - 1]
    BY <2>1, SubSeqProperties
  <2> HIDE DEF a
  <2> QED
    BY <1>1, <2>2
<1>3. /\ b \in Seq(S) /\ Len(b) = Len(s) - i
      /\ \A j \in 1 .. Len(s) - i : b[j] = s[i + j]
  <2>1. i + 1 \in Int /\ Len(s) \in Int /\ \A j \in i + 1 .. Len(s) : s[j] \in S
    BY <1>1
  <2>2. /\ b \in Seq(S)
        /\ Len(b) = IF i + 1 <= Len(s) THEN Len(s) - (i + 1) + 1 ELSE 0
        /\ \A j \in 1 .. Len(s) - (i + 1) + 1 : b[j] = s[(i + 1) + j - 1]
    BY <2>1, SubSeqProperties
  <2> HIDE DEF b
  <2> QED
    BY <1>1, <2>2
<1> HIDE DEF a, b
<1>4. /\ a \o b \in Seq(S) /\ Len(a \o b) = Len(a) + Len(b)
      /\ \A j \in 1 .. Len(a) + Len(b) :
           (a \o b)[j] = IF j <= Len(a) THEN a[j] ELSE b[j - Len(a)]
  BY <1>2, <1>3, ConcatProperties
<1>5. RemoveAt(s, i) = a \o b
  BY DEF RemoveAt, a, b
<1> HIDE DEF a, b
<1> DEFINE c == a \o b
<1> HIDE DEF c
<1>6. ASSUME NEW j \in 1 .. Len(s) - 1
      PROVE  c[j] = IF j < i THEN s[j] ELSE s[j + 1]
  <2>1. j \in 1 .. Len(a) + Len(b)
    BY <1>1, <1>2, <1>3
  <2>2. CASE j < i
    BY <1>1, <1>2, <1>4, <2>1, <2>2 DEF c
  <2>3. CASE ~(j < i)
    <3>1. ~(j <= Len(a)) /\ j - Len(a) \in 1 .. Len(s) - i /\ i + (j - Len(a)) = j + 1
      BY <1>1, <1>2, <2>3
    <3>2. b[j - Len(a)] = s[i + (j - Len(a))]
      BY <1>3, <3>1
    <3> QED
      BY <1>4, <2>1, <2>3, <3>1, <3>2 DEF c
  <2> QED
    BY <2>2, <2>3
<1>7. c \in Seq(S) /\ Len(c) = Len(s) - 1
  BY <1>1, <1>2, <1>3, <1>4 DEF c
<1>8. RemoveAt(s, i) = c
  BY <1>5 DEF c
<1> QED
  BY <1>6, <1>7, <1>8 DEF Removed

(* The entries from l to r of a sequence.                                      *)
LEMMA SubSeqIs ==
  ASSUME NEW S, NEW s \in Seq(S), NEW l \in 1 .. Len(s) + 1,
         NEW r \in l - 1 .. Len(s)
  PROVE  SubSeq(s, l, r) \in Seq(S) /\ Part(SubSeq(s, l, r), s, l, r)
<1>1. Len(s) \in Nat /\ l \in Int /\ r \in Int /\ \A j \in l .. r : s[j] \in S
  BY LenProperties
<1>2. l - 1 <= r
  BY <1>1
<1>3. /\ SubSeq(s, l, r) \in Seq(S)
      /\ Len(SubSeq(s, l, r)) = IF l <= r THEN r - l + 1 ELSE 0
      /\ \A i \in 1 .. r - l + 1 : SubSeq(s, l, r)[i] = s[l + i - 1]
  BY <1>1, SubSeqProperties
<1>4. Len(SubSeq(s, l, r)) = r - l + 1
  BY <1>1, <1>2, <1>3
<1> QED
  BY <1>3, <1>4 DEF Part

(* The concatenation holds the first sequence and then the second.            *)
LEMMA ConcatIs ==
  ASSUME NEW S, NEW s1 \in Seq(S), NEW s2 \in Seq(S)
  PROVE  s1 \o s2 \in Seq(S) /\ Joined(s1 \o s2, s1, s2)
  BY ConcatProperties DEF Joined

-------------------------------------------------------------------------------
(* Positions *)

(* find_pos stops behind the last of the first keys that are not greater.      *)
LEMMA FindPosStops ==
  ASSUME NEW n, n.keys \in Seq(Nat), NEW k \in Nat
  PROVE  /\ FindPos(n, k) \in 0 .. Size(n)
         /\ \A j \in 1 .. FindPos(n, k) : n.keys[j] <= k
         /\ FindPos(n, k) < Size(n) => n.keys[FindPos(n, k) + 1] > k
<1> DEFINE I == {i \in 1 .. Len(n.keys) : n.keys[i] > k}
<1>1. FindPos(n, k) = LET i == IF I # {} THEN Min(I) ELSE 0
                      IN  IF i = 0 THEN Len(n.keys) ELSE i - 1
  BY DEF FindPos, SelectInSeq, Size
<1>2. Len(n.keys) \in Nat /\ \A j \in 1 .. Len(n.keys) : n.keys[j] \in Nat
  BY LenProperties
<1>3. CASE I = {}
  <2>1. FindPos(n, k) = Len(n.keys)
    BY <1>1, <1>3
  <2>2. ASSUME NEW j \in 1 .. Len(n.keys) PROVE n.keys[j] <= k
    BY <1>2, <1>3
  <2> QED
    BY <1>2, <2>1, <2>2 DEF Size
<1>4. CASE I # {}
  <2>1. I \in SUBSET Nat
    BY <1>2
  <2>2. Min(I) \in I /\ \A x \in I : Min(I) <= x
    BY <1>4, <2>1, MinIsLeast
  <2>3. Min(I) \in 1 .. Len(n.keys) /\ n.keys[Min(I)] > k
    BY <2>2
  <2>4. FindPos(n, k) = Min(I) - 1
    BY SMTT(30), <1>1, <1>4, <2>3
  <2>5. ASSUME NEW j \in 1 .. Min(I) - 1 PROVE n.keys[j] <= k
    <3>1. j \in 1 .. Len(n.keys) /\ ~(Min(I) <= j)
      BY <1>2, <2>3
    <3>2. j \notin I
      BY <2>2, <3>1
    <3> QED
      BY <1>2, <3>1, <3>2
  <2> HIDE DEF I
  <2> QED
    BY <1>2, <2>3, <2>4, <2>5 DEF Size
<1> QED
  BY <1>3, <1>4

(* Between a key that is not greater and one that is, find_pos stops.          *)
LEMMA FindPosIs ==
  ASSUME NEW n, n.keys \in Seq(Nat), Ascending(n.keys), NEW k \in Nat,
         NEW p \in 0 .. Size(n),
         p > 0 => n.keys[p] <= k,
         p < Size(n) => n.keys[p + 1] > k
  PROVE  FindPos(n, k) = p
<1> DEFINE q == FindPos(n, k)
<1>1. /\ q \in 0 .. Size(n)
      /\ \A j \in 1 .. q : n.keys[j] <= k
      /\ q < Size(n) => n.keys[q + 1] > k
  BY FindPosStops
<1>2. Size(n) \in Nat /\ \A j \in 1 .. Size(n) : n.keys[j] \in Nat
  BY LenProperties DEF Size
<1> HIDE DEF q
<1>3. ~(q < p)
  <2> SUFFICES ASSUME q < p PROVE FALSE
    OBVIOUS
  <2>1. q + 1 \in 1 .. Size(n) /\ p \in 1 .. Size(n) /\ q + 1 <= p
    BY <1>1, <1>2
  <2>2. q + 1 < p => n.keys[q + 1] < n.keys[p]
    BY <2>1 DEF Ascending, Size
  <2>3. n.keys[q + 1] <= n.keys[p]
    BY <1>1, <1>2, <2>1, <2>2
  <2> QED
    BY <1>1, <1>2, <2>1, <2>3
<1>4. ~(p < q)
  <2> SUFFICES ASSUME p < q PROVE FALSE
    OBVIOUS
  <2>1. p + 1 \in 1 .. q /\ p + 1 \in 1 .. Size(n) /\ p < Size(n)
    BY <1>1, <1>2
  <2> QED
    BY <1>1, <1>2, <2>1
<1> QED
  BY <1>1, <1>2, <1>3, <1>4 DEF q

(* The place of an entry in a sequence.                                        *)
IndexIn(s, e) ==
  LET I == {i \in 1 .. Len(s) : s[i] = e}
  IN  IF I # {} THEN Min(I) ELSE 0

(* The place found for an entry that occurs once is the place it is at.       *)
LEMMA IndexInIs ==
  ASSUME NEW S, NEW s \in Seq(S), NEW i \in 1 .. Len(s),
         \A j \in 1 .. Len(s) : s[j] = s[i] => j = i
  PROVE  IndexIn(s, s[i]) = i
<1> DEFINE I == {j \in 1 .. Len(s) : s[j] = s[i]}
<1>1. Len(s) \in Nat
  BY LenProperties
<1>2. I = {i}
  OBVIOUS
<1>3. i \in Nat /\ {i} \in SUBSET Nat /\ i \in {i} /\ \A x \in {i} : i <= x
  BY <1>1
<1>4. Min({i}) = i
  BY <1>3, MinIs
<1>5. IndexIn(s, s[i]) = IF I # {} THEN Min(I) ELSE 0
  BY DEF IndexIn
<1> QED
  BY <1>2, <1>4, <1>5

(* delete_key_leaf, its LET unfolded.                                         *)
LEMMA DeleteKeyLeafAt ==
  ASSUME NEW n, NEW k
  PROVE  DeleteKeyLeaf(n, k) =
           [n EXCEPT !.keys = RemoveAt(@, IndexIn(n.keys, k)),
                     !.vals = RemoveAt(@, IndexIn(n.keys, k))]
  BY DEF DeleteKeyLeaf, IndexIn, SelectInSeq

(* delete_key_intermediate, its LET unfolded.                                 *)
LEMMA DeleteKeyIntermediateAt ==
  ASSUME NEW n, NEW link
  PROVE  DeleteKeyIntermediate(n, link) =
           [n EXCEPT !.keys = RemoveAt(@, IndexIn(n.links, link)),
                     !.links = RemoveAt(@, IndexIn(n.links, link) + 1)]
  BY DEF DeleteKeyIntermediate, IndexIn, SelectInSeq

(* The key that follows a link in its node.                                   *)
LEMMA KeyBehindAt ==
  ASSUME NEW n, NEW link
  PROVE  KeyBehind(n, link) = n.keys[IndexIn(n.links, link)]
  BY DEF KeyBehind, IndexIn, SelectInSeq

-------------------------------------------------------------------------------
(* Fields *)

(* Page numbers and keys are natural numbers, so they can be compared.        *)
LEMMA NumbersAreNat == Numbers \subseteq Nat /\ Keys \subseteq Nat
  BY BTreeNodeAssumption DEF Numbers

(* The type of each field of a node.                                          *)
LEMMA NodeFields ==
  ASSUME NEW n \in Node
  PROVE  /\ n.keys \in Seq(Keys) /\ n.keys \in Seq(Nat)
         /\ n.vals \in Seq(Values) /\ n.links \in Seq(Numbers)
         /\ n.number \in Numbers /\ n.parent \in Numbers
         /\ n.kind \in Leaves \union Interiors \union {"None", "Meta"}
         /\ Size(n) \in Nat
         /\ \A i \in 1 .. Size(n) : n.keys[i] \in Keys /\ n.keys[i] \in Nat
<1>1. /\ n.keys \in Seq(Keys)
      /\ n.vals \in Seq(Values) /\ n.links \in Seq(Numbers)
      /\ n.number \in Numbers /\ n.parent \in Numbers
      /\ n.kind \in Leaves \union Interiors \union {"None", "Meta"}
  BY DEF Node
<1>2. n.keys \in Seq(Nat)
  BY <1>1, NumbersAreNat, SeqMonotonic
<1>3. Size(n) \in Nat /\ \A i \in 1 .. Size(n) : n.keys[i] \in Keys
  BY <1>1, LenProperties DEF Size
<1> QED
  BY <1>1, <1>2, <1>3, NumbersAreNat

(* The kinds of the leaves and of the inner pages, which are disjoint.        *)
LEMMA Kinds ==
  /\ Leaves = {"RootLeaf", "Leaf"} /\ Interiors = {"Root", "Intermediate"}
  /\ Leaves \intersect Interiors = {}
  BY DEF Leaves, Interiors

-------------------------------------------------------------------------------
(* Fences *)

(* An inner page is in order when its fences ascend.                           *)
LEMMA FencesAscend ==
  ASSUME NEW n \in Node, NEW l \in Nat, NEW h \in Nat, n.kind \in Interiors,
         Ordered(n, l, h)
  PROVE  /\ \A i \in 0 .. Size(n) + 1 : Fence(n, l, h, i) \in Nat
         /\ \A i, j \in 0 .. Size(n) + 1 :
              i < j => Fence(n, l, h, i) < Fence(n, l, h, j)
<1>1. Size(n) \in Nat /\ \A i \in 1 .. Size(n) : n.keys[i] \in Nat
  BY NodeFields
<1>2. ASSUME NEW i \in 0 .. Size(n) + 1
      PROVE  \/ i = 0 /\ Fence(n, l, h, i) = l
             \/ i = Size(n) + 1 /\ Fence(n, l, h, i) = h
             \/ i \in 1 .. Size(n) /\ Fence(n, l, h, i) = n.keys[i]
  BY <1>1 DEF Fence
<1>3. ASSUME NEW i \in 0 .. Size(n) + 1, NEW j \in 0 .. Size(n) + 1, i < j
      PROVE  Fence(n, l, h, i) < Fence(n, l, h, j)
  <2>1. l < h /\ \A a \in 1 .. Size(n) : l < n.keys[a] /\ n.keys[a] < h
    BY DEF Ordered
  <2>2. \A a, b \in 1 .. Size(n) : a < b => n.keys[a] < n.keys[b]
    BY DEF Ordered
  <2>3. CASE i = 0
    BY <1>1, <1>2, <1>3, <2>1, <2>3
  <2>4. CASE i \in 1 .. Size(n)
    BY <1>1, <1>2, <1>3, <2>1, <2>2, <2>4
  <2>5. i # Size(n) + 1
    BY <1>1, <1>3
  <2> QED
    BY <1>1, <2>3, <2>4, <2>5
<1> QED
  BY <1>1, <1>2, <1>3

(* Fences that ascend make the keys ascend and lie inside the bounds.         *)
LEMMA AscendingFences ==
  ASSUME NEW n \in Node, NEW l \in Nat, NEW h \in Nat,
         \A i, j \in 0 .. Size(n) + 1 :
           i < j => Fence(n, l, h, i) < Fence(n, l, h, j)
  PROVE  Ordered(n, l, h)
<1>1. Size(n) \in Nat /\ \A i \in 1 .. Size(n) : n.keys[i] \in Nat
  BY NodeFields
<1>2. /\ Fence(n, l, h, 0) = l /\ Fence(n, l, h, Size(n) + 1) = h
      /\ \A i \in 1 .. Size(n) : Fence(n, l, h, i) = n.keys[i]
  BY <1>1 DEF Fence
<1>3. /\ 0 \in 0 .. Size(n) + 1 /\ Size(n) + 1 \in 0 .. Size(n) + 1
      /\ \A i \in 1 .. Size(n) : i \in 0 .. Size(n) + 1 /\ 0 < i /\ i < Size(n) + 1
  BY <1>1
<1>4. l < h
  BY <1>1, <1>2, <1>3
<1>5. ASSUME NEW i \in 1 .. Size(n) PROVE l < n.keys[i] /\ n.keys[i] < h
  BY <1>2, <1>3
<1>6. ASSUME NEW i \in 1 .. Size(n), NEW j \in 1 .. Size(n), i < j
      PROVE  n.keys[i] < n.keys[j]
  BY <1>2, <1>3, <1>6
<1> QED
  BY <1>1, <1>4, <1>5, <1>6 DEF Ordered

-------------------------------------------------------------------------------
(* Inner pages *)

(* A key that lies between two fences goes there, its link behind it.          *)
LEMMA InsertIntoIntermediateIs ==
  ASSUME NEW n \in Node, Shape(n), n.kind \in Interiors,
         NEW l \in Nat, NEW h \in Nat, Ordered(n, l, h),
         NEW k \in Keys, NEW m \in Numbers, NEW p \in 1 .. Size(n) + 1,
         Fence(n, l, h, p - 1) < k, k < Fence(n, l, h, p),
         NEW n2, n2 = InsertIntoIntermediate(n, k, m)
  PROVE  /\ n2 \in Node /\ Shape(n2)
         /\ n2.kind = n.kind /\ n2.number = n.number /\ n2.parent = n.parent
         /\ Size(n2) = Size(n) + 1
         /\ \A i \in 0 .. Size(n) + 2 :
              Fence(n2, l, h, i) = IF i < p THEN Fence(n, l, h, i)
                                   ELSE IF i = p THEN k ELSE Fence(n, l, h, i - 1)
         /\ \A j \in 1 .. Size(n) + 2 :
              n2.links[j] = IF j <= p THEN n.links[j]
                            ELSE IF j = p + 1 THEN m ELSE n.links[j - 1]
         /\ Ordered(n2, l, h)
<1>1. /\ n.keys \in Seq(Keys) /\ n.keys \in Seq(Nat) /\ n.links \in Seq(Numbers)
      /\ Len(n.keys) = Size(n) /\ Size(n) \in Nat
      /\ Len(n.links) = Size(n) + 1 /\ n.vals = <<>>
      /\ \A i \in 1 .. Size(n) : n.keys[i] \in Nat
  BY NodeFields DEF Shape, Size
<1>2. k \in Nat
  BY NumbersAreNat
<1>3. FindPos(n, k) = p - 1
  <2>1. Ascending(n.keys)
    BY <1>1 DEF Ordered, Ascending
  <2>2. p - 1 \in 0 .. Size(n)
    BY <1>1
  <2>3. p - 1 > 0 => n.keys[p - 1] <= k
    BY <1>1, <1>2 DEF Fence
  <2>4. p - 1 < Size(n) => n.keys[(p - 1) + 1] > k
    <3>1. p - 1 < Size(n) => n.keys[p] > k
      BY <1>1, <1>2 DEF Fence
    <3>2. (p - 1) + 1 = p
      BY <1>1
    <3> QED
      BY <3>1, <3>2
  <2> QED
    BY <1>1, <1>2, <2>1, <2>2, <2>3, <2>4, FindPosIs
<1> DEFINE a == InsertAt(n.keys, p, k)
           b == InsertAt(n.links, p + 1, m)
<1>4. n2 = [n EXCEPT !.keys = a, !.links = b]
  <2>1. FindPos(n, k) + 1 = p
    BY <1>1, <1>3
  <2> QED
    BY <2>1 DEF InsertIntoIntermediate
<1>5. /\ a \in Seq(Keys) /\ Len(a) = Size(n) + 1
      /\ \A j \in 1 .. Size(n) + 1 :
           a[j] = IF j < p THEN n.keys[j] ELSE IF j = p THEN k ELSE n.keys[j - 1]
  <2>1. p \in 1 .. Len(n.keys) + 1 /\ n.keys \in Seq(Keys)
    BY <1>1
  <2>2. a \in Seq(Keys) /\ Inserted(a, n.keys, p, k)
    BY <2>1, InsertAtIs
  <2> QED
    BY <1>1, <2>2 DEF Inserted
<1>6. /\ b \in Seq(Numbers) /\ Len(b) = Size(n) + 2
      /\ \A j \in 1 .. Size(n) + 2 :
           b[j] = IF j < p + 1 THEN n.links[j]
                  ELSE IF j = p + 1 THEN m ELSE n.links[j - 1]
  <2>1. p + 1 \in 1 .. Len(n.links) + 1 /\ n.links \in Seq(Numbers)
    BY <1>1
  <2>2. b \in Seq(Numbers) /\ Inserted(b, n.links, p + 1, m)
    BY <2>1, InsertAtIs
  <2> QED
    BY <1>1, <2>2 DEF Inserted
<1> HIDE DEF a, b
<1>7. /\ n2 \in Node /\ n2.keys = a /\ n2.vals = n.vals /\ n2.links = b
      /\ n2.kind = n.kind /\ n2.number = n.number /\ n2.parent = n.parent
  <2>1. a \in Seq(Keys) /\ b \in Seq(Numbers)
    BY <1>5, <1>6
  <2> QED
    BY <1>4, <2>1 DEF Node
<1>8. Size(n2) = Size(n) + 1
  BY <1>5, <1>7 DEF Size
<1>9. Shape(n2)
  BY <1>1, <1>6, <1>7, <1>8, Kinds DEF Shape
<1>10. ASSUME NEW i \in 0 .. Size(n) + 2
       PROVE  Fence(n2, l, h, i) = IF i < p THEN Fence(n, l, h, i)
                                   ELSE IF i = p THEN k ELSE Fence(n, l, h, i - 1)
  <2>1. CASE i < p
    BY <1>1, <1>5, <1>7, <1>8, <2>1 DEF Fence
  <2>2. CASE i = p
    BY <1>1, <1>5, <1>7, <1>8, <2>2 DEF Fence
  <2>3. CASE i > p
    <3>1. i - 1 # 0 /\ i # 0
      BY <1>1, <2>3
    <3>2. CASE i = Size(n) + 2
      BY <1>1, <1>8, <2>3, <3>1, <3>2 DEF Fence
    <3>3. CASE i # Size(n) + 2
      <4>1. i \in 1 .. Size(n) + 1
        BY <1>1, <2>3, <3>3
      <4>2. a[i] = n.keys[i - 1]
        BY <1>5, <2>3, <4>1
      <4> QED
        BY <1>1, <1>7, <1>8, <2>3, <3>1, <3>3, <4>1, <4>2 DEF Fence
    <3> QED
      BY <3>2, <3>3
  <2> QED
    BY <1>1, <2>1, <2>2, <2>3
<1>11. ASSUME NEW j \in 1 .. Size(n) + 2
       PROVE  n2.links[j] = IF j <= p THEN n.links[j]
                            ELSE IF j = p + 1 THEN m ELSE n.links[j - 1]
  BY <1>1, <1>6, <1>7
<1>12. Ordered(n2, l, h)
  <2>1. /\ \A i \in 0 .. Size(n) + 1 : Fence(n, l, h, i) \in Nat
        /\ \A i, j \in 0 .. Size(n) + 1 :
             i < j => Fence(n, l, h, i) < Fence(n, l, h, j)
    BY FencesAscend
  <2>2. ASSUME NEW i \in 0 .. Size(n2) + 1, NEW j \in 0 .. Size(n2) + 1, i < j
        PROVE  Fence(n2, l, h, i) < Fence(n2, l, h, j)
    <3>1. i \in 0 .. Size(n) + 2 /\ j \in 0 .. Size(n) + 2 /\ i \in Nat /\ j \in Nat
      BY <1>1, <1>8
    <3>2. CASE i < p /\ j < p
      <4>1. /\ i \in 0 .. Size(n) + 1 /\ j \in 0 .. Size(n) + 1
            /\ Fence(n2, l, h, i) = Fence(n, l, h, i)
            /\ Fence(n2, l, h, j) = Fence(n, l, h, j)
        BY <1>1, <1>10, <3>1, <3>2
      <4> QED
        BY <2>1, <2>2, <4>1
    <3>3. CASE i < p /\ ~(j < p)
      <4>1. Fence(n2, l, h, i) = Fence(n, l, h, i) /\ i \in 0 .. Size(n) + 1
        BY <1>1, <1>10, <3>1, <3>3
      <4>2. Fence(n, l, h, i) <= Fence(n, l, h, p - 1)
        <5>1. i = p - 1 \/ i < p - 1
          BY <1>1, <3>1, <3>3
        <5>2. p - 1 \in 0 .. Size(n) + 1
          BY <1>1
        <5> QED
          BY <2>1, <4>1, <5>1, <5>2
      <4>3. Fence(n2, l, h, j) = k \/ Fence(n, l, h, p) <= Fence(n2, l, h, j)
        <5>1. CASE j = p
          BY <1>10, <3>1, <5>1
        <5>2. CASE j # p
          <6>1. Fence(n2, l, h, j) = Fence(n, l, h, j - 1) /\ j - 1 \in 0 .. Size(n) + 1
            BY <1>1, <1>10, <3>1, <3>3, <5>2
          <6>2. p \in 0 .. Size(n) + 1 /\ (p = j - 1 \/ p < j - 1)
            BY <1>1, <3>1, <3>3, <5>2
          <6> QED
            BY <2>1, <6>1, <6>2
        <5> QED
          BY <5>1, <5>2
      <4>4. /\ Fence(n, l, h, p - 1) \in Nat /\ Fence(n, l, h, p) \in Nat
            /\ Fence(n, l, h, i) \in Nat
        <5>1. p - 1 \in 0 .. Size(n) + 1 /\ p \in 0 .. Size(n) + 1
          BY <1>1
        <5> QED
          BY <2>1, <4>1, <5>1
      <4>5. Fence(n2, l, h, j) \in Nat
        BY <1>1, <1>2, <1>10, <2>1, <3>1, <3>3
      <4> QED
        BY <1>2, <4>1, <4>2, <4>3, <4>4, <4>5
    <3>4. CASE i = p
      <4>1. Fence(n2, l, h, i) = k /\ Fence(n2, l, h, j) = Fence(n, l, h, j - 1)
            /\ j - 1 \in 0 .. Size(n) + 1 /\ p \in 0 .. Size(n) + 1
        BY <1>1, <1>10, <2>2, <3>1, <3>4
      <4>2. p = j - 1 \/ p < j - 1
        BY <1>1, <2>2, <3>1, <3>4
      <4> QED
        BY <1>2, <2>1, <4>1, <4>2
    <3>5. CASE i > p
      <4>1. Fence(n2, l, h, i) = Fence(n, l, h, i - 1) /\ i - 1 \in 0 .. Size(n) + 1
            /\ Fence(n2, l, h, j) = Fence(n, l, h, j - 1) /\ j - 1 \in 0 .. Size(n) + 1
            /\ i - 1 < j - 1
        BY <1>1, <1>10, <2>2, <3>1, <3>5
      <4> QED
        BY <2>1, <4>1
    <3> QED
      BY <1>1, <3>1, <3>2, <3>3, <3>4, <3>5
  <2> QED
    BY <1>7, <2>2, AscendingFences
<1> QED
  BY <1>7, <1>8, <1>9, <1>10, <1>11, <1>12

(* The key behind a link goes, with the link behind that key.                  *)
LEMMA DeleteKeyIntermediateIs ==
  ASSUME NEW n \in Node, Shape(n), n.kind \in Interiors,
         NEW l \in Nat, NEW h \in Nat, Ordered(n, l, h),
         NEW p \in 1 .. Size(n),
         \A j \in 1 .. Size(n) + 1 : n.links[j] = n.links[p] => j = p,
         NEW n2, n2 = DeleteKeyIntermediate(n, n.links[p])
  PROVE  /\ n2 \in Node /\ Shape(n2)
         /\ n2.kind = n.kind /\ n2.number = n.number /\ n2.parent = n.parent
         /\ Size(n2) = Size(n) - 1
         /\ \A i \in 0 .. Size(n) :
              Fence(n2, l, h, i) = IF i < p THEN Fence(n, l, h, i)
                                   ELSE Fence(n, l, h, i + 1)
         /\ \A j \in 1 .. Size(n) :
              n2.links[j] = IF j <= p THEN n.links[j] ELSE n.links[j + 1]
         /\ Ordered(n2, l, h)
<1>1. /\ n.keys \in Seq(Keys) /\ n.links \in Seq(Numbers)
      /\ Len(n.keys) = Size(n) /\ Size(n) \in Nat
      /\ Len(n.links) = Size(n) + 1 /\ n.vals = <<>>
      /\ \A i \in 1 .. Size(n) : n.keys[i] \in Nat
  BY NodeFields DEF Shape, Size
<1>2. IndexIn(n.links, n.links[p]) = p
  <2>1. p \in 1 .. Len(n.links)
        /\ \A j \in 1 .. Len(n.links) : n.links[j] = n.links[p] => j = p
    BY <1>1
  <2> QED
    BY <1>1, <2>1, IndexInIs
<1> DEFINE a == RemoveAt(n.keys, p)
           b == RemoveAt(n.links, p + 1)
<1>3. n2 = [n EXCEPT !.keys = a, !.links = b]
  BY <1>2, DeleteKeyIntermediateAt
<1>4. /\ a \in Seq(Keys) /\ Len(a) = Size(n) - 1
      /\ \A j \in 1 .. Size(n) - 1 :
           a[j] = IF j < p THEN n.keys[j] ELSE n.keys[j + 1]
  <2>1. p \in 1 .. Len(n.keys) /\ n.keys \in Seq(Keys)
    BY <1>1
  <2>2. a \in Seq(Keys) /\ Removed(a, n.keys, p)
    BY <2>1, RemoveAtIs
  <2> QED
    BY <1>1, <2>2 DEF Removed
<1>5. /\ b \in Seq(Numbers) /\ Len(b) = Size(n)
      /\ \A j \in 1 .. Size(n) :
           b[j] = IF j < p + 1 THEN n.links[j] ELSE n.links[j + 1]
  <2>1. p + 1 \in 1 .. Len(n.links) /\ n.links \in Seq(Numbers)
    BY <1>1
  <2>2. b \in Seq(Numbers) /\ Removed(b, n.links, p + 1)
    BY <2>1, RemoveAtIs
  <2> QED
    BY <1>1, <2>2 DEF Removed
<1> HIDE DEF a, b
<1>6. /\ n2 \in Node /\ n2.keys = a /\ n2.vals = n.vals /\ n2.links = b
      /\ n2.kind = n.kind /\ n2.number = n.number /\ n2.parent = n.parent
  <2>1. a \in Seq(Keys) /\ b \in Seq(Numbers)
    BY <1>4, <1>5
  <2> QED
    BY <1>3, <2>1 DEF Node
<1>7. Size(n2) = Size(n) - 1
  BY <1>4, <1>6 DEF Size
<1>8. Shape(n2)
  BY <1>1, <1>5, <1>6, <1>7, Kinds DEF Shape
<1>9. ASSUME NEW i \in 0 .. Size(n)
      PROVE  Fence(n2, l, h, i) = IF i < p THEN Fence(n, l, h, i)
                                  ELSE Fence(n, l, h, i + 1)
  BY <1>1, <1>4, <1>6, <1>7 DEF Fence
<1>10. ASSUME NEW j \in 1 .. Size(n)
       PROVE  n2.links[j] = IF j <= p THEN n.links[j] ELSE n.links[j + 1]
  BY <1>1, <1>5, <1>6
<1>11. Ordered(n2, l, h)
  <2>1. \A i, j \in 0 .. Size(n) + 1 :
          i < j => Fence(n, l, h, i) < Fence(n, l, h, j)
    BY FencesAscend
  <2>2. ASSUME NEW i \in 0 .. Size(n2) + 1, NEW j \in 0 .. Size(n2) + 1, i < j
        PROVE  Fence(n2, l, h, i) < Fence(n2, l, h, j)
    <3>1. i \in 0 .. Size(n) /\ j \in 0 .. Size(n)
      BY <1>1, <1>7
    <3>2. PICK i2 \in 0 .. Size(n) + 1, j2 \in 0 .. Size(n) + 1 :
            /\ i2 < j2 /\ Fence(n2, l, h, i) = Fence(n, l, h, i2)
            /\ Fence(n2, l, h, j) = Fence(n, l, h, j2)
      <4>1. CASE i < p /\ j < p
        <5>1. i \in 0 .. Size(n) + 1 /\ j \in 0 .. Size(n) + 1
          BY <1>1, <3>1
        <5> QED
          BY <1>9, <2>2, <3>1, <4>1, <5>1
      <4>2. CASE i < p /\ ~(j < p)
        <5>1. /\ i \in 0 .. Size(n) + 1 /\ j + 1 \in 0 .. Size(n) + 1 /\ i < j + 1
          BY <1>1, <2>2, <3>1
        <5> QED
          BY <1>9, <3>1, <4>2, <5>1
      <4>3. CASE ~(i < p)
        <5>1. /\ i + 1 \in 0 .. Size(n) + 1 /\ j + 1 \in 0 .. Size(n) + 1
              /\ i + 1 < j + 1 /\ ~(j < p)
          BY <1>1, <2>2, <3>1, <4>3
        <5> QED
          BY <1>9, <3>1, <4>3, <5>1
      <4> QED
        BY <4>1, <4>2, <4>3
    <3> QED
      BY <2>1, <3>2
  <2> QED
    BY <1>6, <2>2, AscendingFences
<1> QED
  BY <1>6, <1>7, <1>8, <1>9, <1>10, <1>11

(* P2 is the inner page P with key k and link m put in at place p.             *)
Widened(P, P2, p, k, m, l, h) ==
  /\ P \in Node /\ Shape(P) /\ P.kind \in Interiors /\ Ordered(P, l, h)
  /\ P2 \in Node /\ Shape(P2) /\ P2.kind = P.kind /\ Ordered(P2, l, h)
  /\ P2.number = P.number /\ P2.parent = P.parent
  /\ p \in 1 .. Size(P) + 1 /\ Size(P2) = Size(P) + 1
  /\ \A i \in 0 .. Size(P) + 2 :
       Fence(P2, l, h, i) = IF i < p THEN Fence(P, l, h, i)
                            ELSE IF i = p THEN k ELSE Fence(P, l, h, i - 1)
  /\ \A j \in 1 .. Size(P) + 2 :
       P2.links[j] = IF j <= p THEN P.links[j]
                     ELSE IF j = p + 1 THEN m ELSE P.links[j - 1]

(* insert_into_intermediate puts the key and the link behind it where they    *)
(* belong.                                                                    *)
LEMMA InsertWidens ==
  ASSUME NEW n \in Node, Shape(n), n.kind \in Interiors,
         NEW l \in Nat, NEW h \in Nat, Ordered(n, l, h),
         NEW k \in Keys, NEW m \in Numbers, NEW p \in 1 .. Size(n) + 1,
         Fence(n, l, h, p - 1) < k, k < Fence(n, l, h, p)
  PROVE  Widened(n, InsertIntoIntermediate(n, k, m), p, k, m, l, h)
<1> DEFINE n2 == InsertIntoIntermediate(n, k, m)
<1> HIDE DEF n2
<1>1. n2 = InsertIntoIntermediate(n, k, m)
  BY DEF n2
<1>2. /\ n2 \in Node /\ Shape(n2)
      /\ n2.kind = n.kind /\ n2.number = n.number /\ n2.parent = n.parent
      /\ Size(n2) = Size(n) + 1
      /\ \A i \in 0 .. Size(n) + 2 :
           Fence(n2, l, h, i) = IF i < p THEN Fence(n, l, h, i)
                                ELSE IF i = p THEN k ELSE Fence(n, l, h, i - 1)
      /\ \A j \in 1 .. Size(n) + 2 :
           n2.links[j] = IF j <= p THEN n.links[j]
                         ELSE IF j = p + 1 THEN m ELSE n.links[j - 1]
      /\ Ordered(n2, l, h)
  BY <1>1, InsertIntoIntermediateIs
<1> QED
  BY <1>1, <1>2 DEF Widened

(* delete_key_intermediate undoes such an insertion.                          *)
LEMMA DeleteWidens ==
  ASSUME NEW n \in Node, Shape(n), n.kind \in Interiors,
         NEW l \in Nat, NEW h \in Nat, Ordered(n, l, h),
         NEW p \in 1 .. Size(n),
         \A j \in 1 .. Size(n) + 1 : n.links[j] = n.links[p] => j = p
  PROVE  Widened(DeleteKeyIntermediate(n, n.links[p]), n, p, n.keys[p], n.links[p + 1], l, h)
<1> DEFINE n2 == DeleteKeyIntermediate(n, n.links[p])
<1> HIDE DEF n2
<1>1. n2 = DeleteKeyIntermediate(n, n.links[p])
  BY DEF n2
<1>2. /\ n2 \in Node /\ Shape(n2)
      /\ n2.kind = n.kind /\ n2.number = n.number /\ n2.parent = n.parent
      /\ Size(n2) = Size(n) - 1
      /\ \A i \in 0 .. Size(n) :
           Fence(n2, l, h, i) = IF i < p THEN Fence(n, l, h, i)
                                ELSE Fence(n, l, h, i + 1)
      /\ \A j \in 1 .. Size(n) :
           n2.links[j] = IF j <= p THEN n.links[j] ELSE n.links[j + 1]
      /\ Ordered(n2, l, h)
  BY <1>1, DeleteKeyIntermediateIs
<1>3. Size(n) \in Nat
  BY NodeFields
<1>4. Fence(n, l, h, p) = n.keys[p]
  BY <1>3 DEF Fence
<1>5. ASSUME NEW i \in 0 .. Size(n2) + 2
      PROVE  Fence(n, l, h, i) = IF i < p THEN Fence(n2, l, h, i)
                                 ELSE IF i = p THEN n.keys[p] ELSE Fence(n2, l, h, i - 1)
  <2>1. CASE i < p
    BY <1>2, <1>3, <2>1
  <2>2. CASE i = p
    BY <1>4, <2>2
  <2>3. CASE i > p
    <3>1. i - 1 \in 0 .. Size(n) /\ ~(i - 1 < p) /\ (i - 1) + 1 = i
      BY <1>2, <1>3, <2>3
    <3>2. Fence(n2, l, h, i - 1) = Fence(n, l, h, (i - 1) + 1)
      BY <1>2, <3>1
    <3> QED
      BY <1>3, <2>3, <3>1, <3>2
  <2> QED
    BY <1>3, <2>1, <2>2, <2>3
<1>6. ASSUME NEW j \in 1 .. Size(n2) + 2
      PROVE  n.links[j] = IF j <= p THEN n2.links[j]
                          ELSE IF j = p + 1 THEN n.links[p + 1] ELSE n2.links[j - 1]
  <2>1. CASE j <= p
    BY <1>2, <1>3, <2>1
  <2>2. CASE j = p + 1
    BY <1>3, <2>2
  <2>3. CASE j > p + 1
    <3>1. j - 1 \in 1 .. Size(n) /\ ~(j - 1 <= p) /\ (j - 1) + 1 = j
      BY <1>2, <1>3, <2>3
    <3>2. n2.links[j - 1] = n.links[(j - 1) + 1]
      BY <1>2, <3>1
    <3> QED
      BY <1>3, <2>3, <3>1, <3>2
  <2> QED
    BY <1>3, <2>1, <2>2, <2>3
<1>7. p \in 1 .. Size(n2) + 1 /\ Size(n) = Size(n2) + 1
  BY <1>2, <1>3
<1> QED
  BY <1>1, <1>2, <1>5, <1>6, <1>7 DEF Widened

(* L and R are what lies in front of and behind key sep, the key c + 1 of n.   *)
Halves(n, L, R, c, l, sep, h) ==
  /\ n \in Node /\ Shape(n) /\ Ordered(n, l, h)
  /\ L \in Node /\ Shape(L) /\ Ordered(L, l, sep)
  /\ R \in Node /\ Shape(R) /\ Ordered(R, sep, h)
  /\ L.kind = n.kind /\ L.number = n.number /\ L.parent = n.parent
  /\ R.kind = n.kind /\ R.parent = n.parent
  /\ sep \in Keys /\ l < sep /\ sep < h
  /\ c \in 0 .. Size(n) /\ Size(L) = c

(* The halves of an inner page: the key between them belongs to neither.      *)
InnerHalves(n, L, R, c, l, sep, h) ==
  /\ Halves(n, L, R, c, l, sep, h)
  /\ n.kind \in Interiors /\ Size(R) = Size(n) - c - 1 /\ c < Size(n)
  /\ \A i \in 0 .. c + 1 : Fence(L, l, sep, i) = Fence(n, l, h, i)
  /\ \A j \in 1 .. c + 1 : L.links[j] = n.links[j]
  /\ \A i \in 0 .. Size(n) - c : Fence(R, sep, h, i) = Fence(n, l, h, c + 1 + i)
  /\ \A j \in 1 .. Size(n) - c : R.links[j] = n.links[c + 1 + j]

(* The parts that a split of an inner page copies are its halves.             *)
LEMMA NodePartHalves ==
  ASSUME NEW n \in Node, Shape(n), n.kind \in Interiors,
         NEW l \in Nat, NEW h \in Nat, Ordered(n, l, h),
         NEW c \in 0 .. Size(n) - 1, NEW m \in Numbers
  PROVE  InnerHalves(n, NodePart(n, 1, c), [NodePart(n, c + 2, Size(n)) EXCEPT !.number = m],
                     c, l, n.keys[c + 1], h)
<1> DEFINE L == NodePart(n, 1, c)
           R == [NodePart(n, c + 2, Size(n)) EXCEPT !.number = m]
           sep == n.keys[c + 1]
<1>1. /\ n.keys \in Seq(Keys) /\ n.links \in Seq(Numbers)
      /\ Len(n.keys) = Size(n) /\ Size(n) \in Nat
      /\ Len(n.links) = Size(n) + 1 /\ n.vals = <<>>
      /\ \A i \in 1 .. Size(n) : n.keys[i] \in Nat /\ n.keys[i] \in Keys
  BY NodeFields DEF Shape, Size
<1> DEFINE a == SubSeq(n.keys, 1, c)
           b == SubSeq(n.links, 1, c + 1)
           d == SubSeq(n.keys, c + 2, Size(n))
           e == SubSeq(n.links, c + 2, Size(n) + 1)
<1>2. /\ a \in Seq(Keys) /\ Len(a) = c /\ \A j \in 1 .. c : a[j] = n.keys[j]
  <2>1. 1 \in 1 .. Len(n.keys) + 1 /\ c \in 1 - 1 .. Len(n.keys) /\ n.keys \in Seq(Keys)
    BY <1>1
  <2>2. a \in Seq(Keys) /\ Part(a, n.keys, 1, c)
    BY <2>1, SubSeqIs
  <2> HIDE DEF a
  <2>3. c - 1 + 1 = c /\ \A j \in 1 .. c : 1 + j - 1 = j
    BY <1>1
  <2> QED
    BY <2>2, <2>3 DEF Part
<1>3. /\ b \in Seq(Numbers) /\ Len(b) = c + 1 /\ \A j \in 1 .. c + 1 : b[j] = n.links[j]
  <2>1. /\ 1 \in 1 .. Len(n.links) + 1 /\ c + 1 \in 1 - 1 .. Len(n.links)
        /\ n.links \in Seq(Numbers)
    BY <1>1
  <2>2. b \in Seq(Numbers) /\ Part(b, n.links, 1, c + 1)
    BY <2>1, SubSeqIs
  <2> HIDE DEF b
  <2>3. (c + 1) - 1 + 1 = c + 1 /\ \A j \in 1 .. c + 1 : 1 + j - 1 = j
    BY <1>1
  <2> QED
    BY <2>2, <2>3 DEF Part
<1>4. /\ d \in Seq(Keys) /\ Len(d) = Size(n) - c - 1
      /\ \A j \in 1 .. Size(n) - c - 1 : d[j] = n.keys[c + 1 + j]
  <2>1. /\ c + 2 \in 1 .. Len(n.keys) + 1 /\ Size(n) \in (c + 2) - 1 .. Len(n.keys)
        /\ n.keys \in Seq(Keys)
    BY <1>1
  <2>2. d \in Seq(Keys) /\ Part(d, n.keys, c + 2, Size(n))
    BY <2>1, SubSeqIs
  <2> HIDE DEF d
  <2>3. /\ Size(n) - (c + 2) + 1 = Size(n) - c - 1
        /\ \A j \in 1 .. Size(n) - c - 1 : (c + 2) + j - 1 = c + 1 + j
    BY <1>1
  <2> QED
    BY <2>2, <2>3 DEF Part
<1>5. /\ e \in Seq(Numbers) /\ Len(e) = Size(n) - c
      /\ \A j \in 1 .. Size(n) - c : e[j] = n.links[c + 1 + j]
  <2>1. /\ c + 2 \in 1 .. Len(n.links) + 1 /\ Size(n) + 1 \in (c + 2) - 1 .. Len(n.links)
        /\ n.links \in Seq(Numbers)
    BY <1>1
  <2>2. e \in Seq(Numbers) /\ Part(e, n.links, c + 2, Size(n) + 1)
    BY <2>1, SubSeqIs
  <2> HIDE DEF e
  <2>3. /\ (Size(n) + 1) - (c + 2) + 1 = Size(n) - c
        /\ \A j \in 1 .. Size(n) - c : (c + 2) + j - 1 = c + 1 + j
    BY <1>1
  <2> QED
    BY <2>2, <2>3 DEF Part
<1>6. L = [n EXCEPT !.keys = a, !.links = b]
  BY DEF NodePart
<1>7. R = [n EXCEPT !.keys = d, !.links = e, !.number = m]
  BY DEF NodePart, Node
<1> HIDE DEF a, b, d, e, L, R
<1>8. /\ L \in Node /\ L.keys = a /\ L.vals = n.vals /\ L.links = b
      /\ L.kind = n.kind /\ L.number = n.number /\ L.parent = n.parent
  <2>1. a \in Seq(Keys) /\ b \in Seq(Numbers)
    BY <1>2, <1>3
  <2> QED
    BY <1>6, <2>1 DEF Node
<1>9. /\ R \in Node /\ R.keys = d /\ R.vals = n.vals /\ R.links = e
      /\ R.kind = n.kind /\ R.number = m /\ R.parent = n.parent
  <2>1. d \in Seq(Keys) /\ e \in Seq(Numbers)
    BY <1>4, <1>5
  <2> QED
    BY <1>7, <2>1 DEF Node
<1>10. /\ Size(L) = c /\ Size(R) = Size(n) - c - 1 /\ c + 1 \in 1 .. Size(n)
       /\ c \in 0 .. Size(n) /\ c < Size(n) /\ Size(R) + 1 = Size(n) - c
  BY <1>1, <1>2, <1>4, <1>8, <1>9 DEF Size
<1>11. Shape(L) /\ Shape(R)
  BY <1>1, <1>3, <1>5, <1>8, <1>9, <1>10, Kinds DEF Shape
<1>12. sep \in Keys /\ sep \in Nat /\ Fence(n, l, h, c + 1) = sep
  BY <1>1, <1>10 DEF Fence
<1> HIDE DEF sep
<1>13. ASSUME NEW i \in 0 .. c + 1
       PROVE  Fence(L, l, sep, i) = Fence(n, l, h, i) /\ i \in 0 .. Size(n) + 1
  <2>1. CASE i = c + 1
    BY <1>1, <1>10, <1>12, <2>1 DEF Fence
  <2>2. CASE i # c + 1
    BY <1>1, <1>2, <1>8, <1>10, <2>2 DEF Fence
  <2> QED
    BY <2>1, <2>2
<1>14. ASSUME NEW i \in 0 .. Size(n) - c
       PROVE  /\ Fence(R, sep, h, i) = Fence(n, l, h, c + 1 + i)
              /\ c + 1 + i \in 0 .. Size(n) + 1
  <2>1. CASE i = 0
    BY <1>1, <1>10, <1>12, <2>1 DEF Fence
  <2>2. CASE i # 0 /\ i # Size(n) - c
    <3>1. /\ i \in 1 .. Size(n) - c - 1 /\ c + 1 + i \in 1 .. Size(n)
          /\ i # 0 /\ i # Size(R) + 1
      BY <1>1, <1>10, <2>2
    <3>2. R.keys[i] = n.keys[c + 1 + i]
      BY <1>4, <1>9, <3>1
    <3>3. Fence(R, sep, h, i) = R.keys[i]
      BY <3>1 DEF Fence
    <3>4. Fence(n, l, h, c + 1 + i) = n.keys[c + 1 + i]
      BY <1>1, <3>1 DEF Fence
    <3> QED
      BY <1>1, <3>1, <3>2, <3>3, <3>4
  <2>3. CASE i = Size(n) - c
    <3>0. Size(n) \in Nat /\ c \in Nat /\ c < Size(n) /\ Size(R) + 1 = Size(n) - c
      BY <1>1, <1>10
    <3>1. i = Size(R) + 1 /\ i # 0 /\ c + 1 + i = Size(n) + 1
      BY <2>3, <3>0
    <3> QED
      BY <1>1, <3>1 DEF Fence
  <2> QED
    BY <2>1, <2>2, <2>3
<1>15. /\ \A i \in 0 .. Size(n) + 1 : Fence(n, l, h, i) \in Nat
       /\ \A i, j \in 0 .. Size(n) + 1 : i < j => Fence(n, l, h, i) < Fence(n, l, h, j)
  BY FencesAscend
<1>16. Ordered(L, l, sep)
  <2>1. ASSUME NEW i \in 0 .. Size(L) + 1, NEW j \in 0 .. Size(L) + 1, i < j
        PROVE  Fence(L, l, sep, i) < Fence(L, l, sep, j)
    BY <1>10, <1>13, <1>15, <2>1
  <2> QED
    BY <1>8, <1>12, <2>1, AscendingFences
<1>17. Ordered(R, sep, h)
  <2>1. ASSUME NEW i \in 0 .. Size(R) + 1, NEW j \in 0 .. Size(R) + 1, i < j
        PROVE  Fence(R, sep, h, i) < Fence(R, sep, h, j)
    <3>1. i \in 0 .. Size(n) - c /\ j \in 0 .. Size(n) - c /\ c + 1 + i < c + 1 + j
      BY <1>1, <1>10, <2>1
    <3> QED
      BY <1>14, <1>15, <3>1
  <2> QED
    BY <1>9, <1>12, <2>1, AscendingFences
<1>18. l < sep /\ sep < h
  BY <1>16, <1>17 DEF Ordered
<1>19. ASSUME NEW j \in 1 .. c + 1 PROVE L.links[j] = n.links[j]
  BY <1>3, <1>8
<1>20. ASSUME NEW j \in 1 .. Size(n) - c PROVE R.links[j] = n.links[c + 1 + j]
  BY <1>5, <1>9
<1>21. Halves(n, L, R, c, l, sep, h)
  BY <1>8, <1>9, <1>10, <1>11, <1>12, <1>16, <1>17, <1>18 DEF Halves
<1>22. InnerHalves(n, L, R, c, l, sep, h)
  BY <1>10, <1>13, <1>14, <1>19, <1>20, <1>21 DEF InnerHalves
<1> QED
  BY <1>22 DEF L, R, sep

(* Two inner pages are the halves of what their merge makes of them.          *)
LEMMA MergeNodesHalves ==
  ASSUME NEW L \in Node, Shape(L), L.kind \in Interiors, NEW R \in Node, Shape(R),
         R.kind = L.kind, R.parent = L.parent,
         NEW l \in Nat, NEW h \in Nat, NEW sep \in Keys,
         Ordered(L, l, sep), Ordered(R, sep, h)
  PROVE  InnerHalves(MergeNodes(L, sep, R), L, R, Size(L), l, sep, h)
<1> DEFINE n == MergeNodes(L, sep, R)
           c == Size(L)
           x == L.keys \o <<sep>>
           a == x \o R.keys
           b == L.links \o R.links
<1>1. /\ L.keys \in Seq(Keys) /\ L.links \in Seq(Numbers)
      /\ Len(L.keys) = Size(L) /\ Size(L) \in Nat
      /\ Len(L.links) = Size(L) + 1 /\ L.vals = <<>>
      /\ R.keys \in Seq(Keys) /\ R.links \in Seq(Numbers)
      /\ Len(R.keys) = Size(R) /\ Size(R) \in Nat
      /\ Len(R.links) = Size(R) + 1 /\ R.vals = <<>>
  BY NodeFields DEF Shape, Size
<1>2. sep \in Nat /\ c \in Nat
  BY <1>1, NumbersAreNat
<1>3. /\ x \in Seq(Keys) /\ Len(x) = c + 1
      /\ \A j \in 1 .. c : x[j] = L.keys[j]
      /\ x[c + 1] = sep
  <2> DEFINE one == <<sep>>
  <2>1. one \in Seq(Keys) /\ Len(one) = 1 /\ one[1] = sep
    OBVIOUS
  <2> HIDE DEF one
  <2>2. x \in Seq(Keys) /\ Joined(x, L.keys, one)
    BY <1>1, <2>1, ConcatIs DEF one
  <2> HIDE DEF x
  <2>3. \A j \in 1 .. c + 1 : x[j] = IF j <= c THEN L.keys[j] ELSE one[j - c]
    BY <1>1, <2>1, <2>2 DEF Joined
  <2>4. c + 1 \in 1 .. c + 1 /\ ~(c + 1 <= c) /\ (c + 1) - c = 1
    BY <1>2
  <2>5. x[c + 1] = sep
    BY <2>1, <2>3, <2>4
  <2>6. Len(x) = c + 1
    BY <1>1, <2>1, <2>2 DEF Joined
  <2>7. ASSUME NEW j \in 1 .. c PROVE x[j] = L.keys[j]
    BY <1>2, <2>3
  <2> QED
    BY <2>2, <2>5, <2>6, <2>7
<1> HIDE DEF x
<1>4. /\ a \in Seq(Keys) /\ Len(a) = c + 1 + Size(R)
      /\ \A j \in 1 .. c : a[j] = L.keys[j]
      /\ a[c + 1] = sep
      /\ \A j \in 1 .. Size(R) : a[c + 1 + j] = R.keys[j]
  <2>1. a \in Seq(Keys) /\ Joined(a, x, R.keys)
    BY <1>1, <1>3, ConcatIs
  <2> HIDE DEF a
  <2>2. /\ Len(a) = c + 1 + Size(R)
        /\ \A j \in 1 .. c + 1 + Size(R) :
             a[j] = IF j <= c + 1 THEN x[j] ELSE R.keys[j - (c + 1)]
    BY <1>1, <1>3, <2>1 DEF Joined
  <2>3. ASSUME NEW j \in 1 .. c PROVE a[j] = L.keys[j]
    BY <1>1, <1>2, <1>3, <2>2
  <2>4. a[c + 1] = sep
    BY <1>1, <1>2, <1>3, <2>2
  <2>5. ASSUME NEW j \in 1 .. Size(R) PROVE a[c + 1 + j] = R.keys[j]
    <3>1. /\ c + 1 + j \in 1 .. c + 1 + Size(R) /\ ~(c + 1 + j <= c + 1)
          /\ (c + 1 + j) - (c + 1) = j
      BY <1>1, <1>2
    <3> QED
      BY <2>2, <3>1
  <2> QED
    BY <2>1, <2>2, <2>3, <2>4, <2>5
<1>5. /\ b \in Seq(Numbers) /\ Len(b) = c + 1 + Size(R) + 1
      /\ \A j \in 1 .. c + 1 : b[j] = L.links[j]
      /\ \A j \in 1 .. Size(R) + 1 : b[c + 1 + j] = R.links[j]
  <2>1. b \in Seq(Numbers) /\ Joined(b, L.links, R.links)
    BY <1>1, ConcatIs
  <2> HIDE DEF b
  <2>2. /\ Len(b) = c + 1 + Size(R) + 1
        /\ \A j \in 1 .. c + 1 + Size(R) + 1 :
             b[j] = IF j <= c + 1 THEN L.links[j] ELSE R.links[j - (c + 1)]
    <3>1. Len(L.links) = c + 1 /\ Len(R.links) = Size(R) + 1 /\ c \in Nat /\ Size(R) \in Nat
      BY <1>1
    <3> HIDE DEF c
    <3>2. Len(L.links) + Len(R.links) = c + 1 + Size(R) + 1
      BY <3>1
    <3> QED
      BY <2>1, <3>1, <3>2 DEF Joined
  <2>3. ASSUME NEW j \in 1 .. c + 1 PROVE b[j] = L.links[j]
    BY <1>1, <1>2, <2>2
  <2>5. ASSUME NEW j \in 1 .. Size(R) + 1 PROVE b[c + 1 + j] = R.links[j]
    <3>1. /\ c + 1 + j \in 1 .. c + 1 + Size(R) + 1 /\ ~(c + 1 + j <= c + 1)
          /\ (c + 1 + j) - (c + 1) = j
      BY <1>1, <1>2
    <3> QED
      BY <2>2, <3>1
  <2> QED
    BY <2>1, <2>2, <2>3, <2>5
<1>6. n = [L EXCEPT !.keys = a, !.links = b]
  BY DEF MergeNodes, x
<1> HIDE DEF a, b, n
<1>7. /\ n \in Node /\ n.keys = a /\ n.vals = L.vals /\ n.links = b
      /\ n.kind = L.kind /\ n.number = L.number /\ n.parent = L.parent
  <2>1. a \in Seq(Keys) /\ b \in Seq(Numbers)
    BY <1>4, <1>5
  <2> QED
    BY <1>6, <2>1 DEF Node
<1>8. /\ Size(n) = c + 1 + Size(R) /\ c \in 0 .. Size(n) /\ c < Size(n)
      /\ Size(R) = Size(n) - c - 1 /\ Size(n) - c = Size(R) + 1 /\ Size(n) \in Nat
  <2>1. Size(n) = c + 1 + Size(R)
    BY <1>4, <1>7 DEF Size
  <2>2. c \in Nat /\ Size(R) \in Nat
    BY <1>1
  <2> HIDE DEF c
  <2> QED
    BY <2>1, <2>2
<1>9. Shape(n)
  <2>1. Len(b) = Size(n) + 1
    BY <1>5, <1>8
  <2> QED
    BY <1>1, <1>7, <2>1, Kinds DEF Shape
<1>21. /\ c \in Nat /\ Size(R) \in Nat /\ Size(n) \in Nat /\ Size(n) = c + 1 + Size(R)
       /\ Size(L) = c
  BY <1>1, <1>8
<1> HIDE DEF c
<1>10. ASSUME NEW i \in 0 .. c + 1 PROVE Fence(L, l, sep, i) = Fence(n, l, h, i)
  <2>1. CASE i = 0
    BY <2>1 DEF Fence
  <2>2. CASE i \in 1 .. c
    <3>1. i # 0 /\ i # Size(L) + 1 /\ i # Size(n) + 1
      BY <1>21, <2>2
    <3>2. n.keys[i] = L.keys[i]
      BY <1>4, <1>7, <2>2
    <3> QED
      BY <3>1, <3>2 DEF Fence
  <2>3. CASE i = c + 1
    <3>1. i # 0 /\ i = Size(L) + 1 /\ i # Size(n) + 1
      BY <1>21, <2>3
    <3>2. n.keys[i] = sep
      BY <1>4, <1>7, <2>3
    <3> QED
      BY <3>1, <3>2 DEF Fence
  <2> QED
    BY <1>2, <2>1, <2>2, <2>3
<1>11. ASSUME NEW i \in 0 .. Size(R) + 1
       PROVE  Fence(R, sep, h, i) = Fence(n, l, h, c + 1 + i)
  <2>1. CASE i = 0
    <3>1. c + 1 + i = c + 1 /\ c + 1 # 0 /\ c + 1 # Size(n) + 1
      BY <1>21, <2>1
    <3>2. n.keys[c + 1] = sep
      BY <1>4, <1>7
    <3> QED
      BY <2>1, <3>1, <3>2 DEF Fence
  <2>2. CASE i \in 1 .. Size(R)
    <3>1. i # 0 /\ i # Size(R) + 1 /\ c + 1 + i # 0 /\ c + 1 + i # Size(n) + 1
      BY <1>21, <2>2
    <3>2. n.keys[c + 1 + i] = R.keys[i]
      BY <1>4, <1>7, <2>2
    <3> QED
      BY <3>1, <3>2 DEF Fence
  <2>3. CASE i = Size(R) + 1
    <3>1. i # 0 /\ c + 1 + i = Size(n) + 1 /\ Size(n) + 1 # 0
      BY <1>21, <2>3
    <3> QED
      BY <2>3, <3>1 DEF Fence
  <2> QED
    BY <1>1, <2>1, <2>2, <2>3
<1>12. /\ \A i \in 0 .. c + 1 : Fence(L, l, sep, i) \in Nat
       /\ \A i, j \in 0 .. c + 1 : i < j => Fence(L, l, sep, i) < Fence(L, l, sep, j)
  <2>1. /\ \A i \in 0 .. Size(L) + 1 : Fence(L, l, sep, i) \in Nat
        /\ \A i, j \in 0 .. Size(L) + 1 :
             i < j => Fence(L, l, sep, i) < Fence(L, l, sep, j)
    BY <1>2, FencesAscend
  <2> QED
    BY <2>1 DEF c
<1>13. /\ \A i \in 0 .. Size(R) + 1 : Fence(R, sep, h, i) \in Nat
       /\ \A i, j \in 0 .. Size(R) + 1 : i < j => Fence(R, sep, h, i) < Fence(R, sep, h, j)
  BY <1>2, FencesAscend
<1>14. Fence(L, l, sep, c + 1) = sep /\ Fence(R, sep, h, 0) = sep
  BY <1>2 DEF Fence, c
<1>15. Ordered(n, l, h)
  <2>1. ASSUME NEW i \in 0 .. Size(n) + 1, NEW j \in 0 .. Size(n) + 1, i < j
        PROVE  Fence(n, l, h, i) < Fence(n, l, h, j)
    <3>1. CASE j <= c + 1
      <4>1. i \in 0 .. c + 1 /\ j \in 0 .. c + 1
        BY <1>2, <1>8, <2>1, <3>1
      <4> QED
        BY <1>10, <1>12, <2>1, <4>1
    <3>2. CASE i >= c + 1
      <4>1. /\ i - (c + 1) \in 0 .. Size(R) + 1 /\ j - (c + 1) \in 0 .. Size(R) + 1
            /\ i - (c + 1) < j - (c + 1)
            /\ c + 1 + (i - (c + 1)) = i /\ c + 1 + (j - (c + 1)) = j
        BY <1>21, <2>1, <3>2
      <4>2. /\ Fence(n, l, h, i) = Fence(R, sep, h, i - (c + 1))
            /\ Fence(n, l, h, j) = Fence(R, sep, h, j - (c + 1))
        BY <1>11, <4>1
      <4> QED
        BY <1>13, <4>1, <4>2
    <3>3. CASE i < c + 1 /\ j > c + 1
      <4>1. /\ i \in 0 .. c + 1 /\ c + 1 \in 0 .. c + 1
            /\ j - (c + 1) \in 0 .. Size(R) + 1 /\ 0 \in 0 .. Size(R) + 1
            /\ 0 < j - (c + 1) /\ c + 1 + (j - (c + 1)) = j
        BY <1>21, <2>1, <3>3
      <4>2. Fence(n, l, h, i) < sep /\ Fence(n, l, h, i) \in Nat
        BY <1>10, <1>12, <1>14, <3>3, <4>1
      <4>3. Fence(n, l, h, j) = Fence(R, sep, h, j - (c + 1))
        BY <1>11, <4>1
      <4>4. sep < Fence(n, l, h, j) /\ Fence(n, l, h, j) \in Nat
        BY <1>13, <1>14, <4>1, <4>3
      <4> QED
        BY <1>2, <4>2, <4>4
    <3> QED
      BY <1>2, <1>8, <2>1, <3>1, <3>2, <3>3
  <2> QED
    BY <1>7, <2>1, AscendingFences
<1>16. l < sep /\ sep < h
  BY DEF Ordered
<1>17. Halves(n, L, R, c, l, sep, h)
  BY <1>7, <1>8, <1>9, <1>15, <1>16 DEF Halves, c
<1>18. ASSUME NEW j \in 1 .. c + 1 PROVE L.links[j] = n.links[j]
  BY <1>5, <1>7
<1>19. ASSUME NEW j \in 1 .. Size(R) + 1 PROVE R.links[j] = n.links[c + 1 + j]
  BY <1>5, <1>7
<1>20. InnerHalves(n, L, R, c, l, sep, h)
  BY <1>7, <1>8, <1>10, <1>11, <1>17, <1>18, <1>19 DEF InnerHalves
<1> QED
  BY <1>20 DEF n, c

-------------------------------------------------------------------------------
(* Leaves *)

(* The value beside a key, and none for another key.                           *)
LEMMA ValueInIs ==
  ASSUME NEW n \in Node, n.kind \in Leaves, NEW l, NEW h, Ordered(n, l, h)
  PROVE  /\ \A i \in 1 .. Size(n) : ValueIn(n, n.keys[i]) = n.vals[i]
         /\ \A k : (\A i \in 1 .. Size(n) : n.keys[i] # k) => ValueIn(n, k) = Absent
<1>1. /\ Size(n) \in Nat /\ DOMAIN n.keys = 1 .. Size(n)
      /\ \A i \in 1 .. Size(n) : n.keys[i] \in Nat
  BY NodeFields, LenProperties DEF Size
<1>2. ASSUME NEW i \in 1 .. Size(n)
      PROVE  ValueIn(n, n.keys[i]) = n.vals[i]
  <2>1. ASSUME NEW j \in 1 .. Size(n), n.keys[j] = n.keys[i] PROVE j = i
    <3>1. /\ j < i => n.keys[j] < n.keys[i]
          /\ i < j => n.keys[i] < n.keys[j]
      BY DEF Ordered
    <3> QED
      BY <1>1, <2>1, <3>1
  <2> DEFINE j == CHOOSE j \in DOMAIN n.keys : n.keys[j] = n.keys[i]
  <2>2. j \in 1 .. Size(n) /\ n.keys[j] = n.keys[i]
    BY <1>1
  <2>3. j = i
    BY <2>1, <2>2
  <2>4. n.keys[i] \in ToSet(n.keys)
    BY <1>1 DEF ToSet
  <2>5. ValueIn(n, n.keys[i]) = n.vals[j]
    BY <2>4 DEF ValueIn
  <2> QED
    BY <2>3, <2>5
<1>3. ASSUME NEW k, \A i \in 1 .. Size(n) : n.keys[i] # k
      PROVE  ValueIn(n, k) = Absent
  BY <1>1, <1>3 DEF ValueIn, ToSet
<1> QED
  BY <1>2, <1>3

(* The halves of a leaf: the key between them is the first of the right one.  *)
LeafHalves(n, L, R, c, l, sep, h) ==
  /\ Halves(n, L, R, c, l, sep, h)
  /\ n.kind \in Leaves /\ Size(R) = Size(n) - c
  /\ \A k \in Keys : /\ k < sep => ValueIn(L, k) = ValueIn(n, k)
                     /\ sep <= k => ValueIn(R, k) = ValueIn(n, k)

(* Entries on either side of a key, whichever way the halves came about.       *)
LEMMA HalvesHaveValues ==
  ASSUME NEW n \in Node, n.kind \in Leaves, NEW L \in Node, L.kind \in Leaves,
         NEW R \in Node, R.kind \in Leaves,
         NEW l \in Nat, NEW sep \in Nat, NEW h \in Nat,
         Ordered(n, l, h), Ordered(L, l, sep), Ordered(R, sep, h),
         NEW c \in 0 .. Size(n), Size(L) = c, Size(R) = Size(n) - c,
         \A j \in 1 .. c : L.keys[j] = n.keys[j] /\ L.vals[j] = n.vals[j],
         \A j \in 1 .. Size(n) - c : R.keys[j] = n.keys[c + j] /\ R.vals[j] = n.vals[c + j]
  PROVE  \A k \in Keys : /\ k < sep => ValueIn(L, k) = ValueIn(n, k)
                         /\ sep <= k => ValueIn(R, k) = ValueIn(n, k)
<1>1. Size(n) \in Nat /\ c \in Nat /\ c <= Size(n)
      /\ \A i \in 1 .. Size(n) : n.keys[i] \in Nat
  BY NodeFields
<1>2. ASSUME NEW i \in 1 .. Size(n) PROVE n.keys[i] < sep <=> i <= c
  <2>1. CASE i <= c
    <3>1. i \in 1 .. Size(L) /\ L.keys[i] = n.keys[i]
      BY <1>1, <2>1
    <3>2. L.keys[i] < sep
      BY <3>1 DEF Ordered
    <3> QED
      BY <2>1, <3>1, <3>2
  <2>2. CASE ~(i <= c)
    <3>1. i - c \in 1 .. Size(n) - c /\ c + (i - c) = i
      BY <1>1, <2>2
    <3>2. R.keys[i - c] = n.keys[i] /\ i - c \in 1 .. Size(R)
      BY <3>1
    <3>3. sep <= R.keys[i - c]
      BY <3>2 DEF Ordered
    <3> QED
      BY <1>1, <2>2, <3>2, <3>3
  <2> QED
    BY <2>1, <2>2
<1>3. /\ \A i \in 1 .. Size(n) : ValueIn(n, n.keys[i]) = n.vals[i]
      /\ \A k : (\A i \in 1 .. Size(n) : n.keys[i] # k) => ValueIn(n, k) = Absent
  BY ValueInIs
<1>4. ASSUME NEW k \in Keys, k < sep PROVE ValueIn(L, k) = ValueIn(n, k)
  <2>1. /\ \A i \in 1 .. Size(L) : ValueIn(L, L.keys[i]) = L.vals[i]
        /\ \A k2 : (\A i \in 1 .. Size(L) : L.keys[i] # k2) => ValueIn(L, k2) = Absent
    BY ValueInIs
  <2>2. CASE \E i \in 1 .. Size(n) : n.keys[i] = k
    <3>1. PICK i \in 1 .. Size(n) : n.keys[i] = k
      BY <2>2
    <3>2. i \in 1 .. c /\ i \in 1 .. Size(L)
      BY <1>1, <1>2, <1>4, <3>1
    <3>3. L.keys[i] = k /\ L.vals[i] = n.vals[i]
      BY <3>1, <3>2
    <3> QED
      BY <1>3, <2>1, <3>1, <3>2, <3>3
  <2>3. CASE \A i \in 1 .. Size(n) : n.keys[i] # k
    <3>1. ASSUME NEW i \in 1 .. Size(L) PROVE L.keys[i] # k
      <4>1. i \in 1 .. c /\ i \in 1 .. Size(n)
        BY <1>1
      <4> QED
        BY <2>3, <4>1
    <3> QED
      BY <1>3, <2>1, <2>3, <3>1
  <2> QED
    BY <2>2, <2>3
<1>5. ASSUME NEW k \in Keys, sep <= k PROVE ValueIn(R, k) = ValueIn(n, k)
  <2>1. /\ \A i \in 1 .. Size(R) : ValueIn(R, R.keys[i]) = R.vals[i]
        /\ \A k2 : (\A i \in 1 .. Size(R) : R.keys[i] # k2) => ValueIn(R, k2) = Absent
    BY ValueInIs
  <2>2. CASE \E i \in 1 .. Size(n) : n.keys[i] = k
    <3>1. PICK i \in 1 .. Size(n) : n.keys[i] = k
      BY <2>2
    <3>2. ~(n.keys[i] < sep)
      BY <1>1, <1>5, <3>1
    <3>3. i - c \in 1 .. Size(n) - c /\ c + (i - c) = i
      BY <1>1, <1>2, <3>2
    <3>4. R.keys[i - c] = k /\ R.vals[i - c] = n.vals[i] /\ i - c \in 1 .. Size(R)
      BY <3>1, <3>3
    <3> QED
      BY <1>3, <2>1, <3>1, <3>4
  <2>3. CASE \A i \in 1 .. Size(n) : n.keys[i] # k
    <3>1. ASSUME NEW i \in 1 .. Size(R) PROVE R.keys[i] # k
      <4>1. i \in 1 .. Size(n) - c /\ c + i \in 1 .. Size(n)
        BY <1>1
      <4> QED
        BY <2>3, <4>1
    <3> QED
      BY <1>3, <2>1, <2>3, <3>1
  <2> QED
    BY <2>2, <2>3
<1> QED
  BY <1>4, <1>5

(* The parts that a split of a leaf copies are its halves.                    *)
LEMMA LeafPartHalves ==
  ASSUME NEW n \in Node, Shape(n), n.kind \in Leaves,
         NEW l \in Nat, NEW h \in Nat, Ordered(n, l, h),
         NEW c \in 1 .. Size(n) - 1, NEW m \in Numbers
  PROVE  LeafHalves(n, LeafPart(n, 1, c), [LeafPart(n, c + 1, Size(n)) EXCEPT !.number = m],
                    c, l, n.keys[c + 1], h)
<1> DEFINE L == LeafPart(n, 1, c)
           R == [LeafPart(n, c + 1, Size(n)) EXCEPT !.number = m]
           sep == n.keys[c + 1]
           a == SubSeq(n.keys, 1, c)
           b == SubSeq(n.vals, 1, c)
           d == SubSeq(n.keys, c + 1, Size(n))
           e == SubSeq(n.vals, c + 1, Size(n))
<1>1. /\ n.keys \in Seq(Keys) /\ n.vals \in Seq(Values)
      /\ Len(n.keys) = Size(n) /\ Size(n) \in Nat
      /\ Len(n.vals) = Size(n) /\ n.links = <<>>
      /\ \A i \in 1 .. Size(n) : n.keys[i] \in Nat /\ n.keys[i] \in Keys
  BY NodeFields DEF Shape, Size
<1>2. /\ a \in Seq(Keys) /\ Len(a) = c /\ \A j \in 1 .. c : a[j] = n.keys[j]
      /\ b \in Seq(Values) /\ Len(b) = c /\ \A j \in 1 .. c : b[j] = n.vals[j]
  <2>1. /\ 1 \in 1 .. Len(n.keys) + 1 /\ c \in 1 - 1 .. Len(n.keys) /\ n.keys \in Seq(Keys)
        /\ 1 \in 1 .. Len(n.vals) + 1 /\ c \in 1 - 1 .. Len(n.vals) /\ n.vals \in Seq(Values)
    BY <1>1
  <2>2. a \in Seq(Keys) /\ Part(a, n.keys, 1, c)
    BY <2>1, SubSeqIs
  <2>3. b \in Seq(Values) /\ Part(b, n.vals, 1, c)
    BY <2>1, SubSeqIs
  <2> HIDE DEF a, b
  <2>4. c - 1 + 1 = c /\ \A j \in 1 .. c : 1 + j - 1 = j
    BY <1>1
  <2> QED
    BY <2>2, <2>3, <2>4 DEF Part
<1>3. /\ d \in Seq(Keys) /\ Len(d) = Size(n) - c
      /\ \A j \in 1 .. Size(n) - c : d[j] = n.keys[c + j]
      /\ e \in Seq(Values) /\ Len(e) = Size(n) - c
      /\ \A j \in 1 .. Size(n) - c : e[j] = n.vals[c + j]
  <2>1. /\ c + 1 \in 1 .. Len(n.keys) + 1 /\ Size(n) \in (c + 1) - 1 .. Len(n.keys)
        /\ n.keys \in Seq(Keys)
        /\ c + 1 \in 1 .. Len(n.vals) + 1 /\ Size(n) \in (c + 1) - 1 .. Len(n.vals)
        /\ n.vals \in Seq(Values)
    BY <1>1
  <2>2. d \in Seq(Keys) /\ Part(d, n.keys, c + 1, Size(n))
    BY <2>1, SubSeqIs
  <2>3. e \in Seq(Values) /\ Part(e, n.vals, c + 1, Size(n))
    BY <2>1, SubSeqIs
  <2> HIDE DEF d, e
  <2>4. /\ Size(n) - (c + 1) + 1 = Size(n) - c
        /\ \A j \in 1 .. Size(n) - c : (c + 1) + j - 1 = c + j
    BY <1>1
  <2> QED
    BY <2>2, <2>3, <2>4 DEF Part
<1>4. L = [n EXCEPT !.keys = a, !.vals = b]
  BY DEF LeafPart
<1>5. R = [n EXCEPT !.keys = d, !.vals = e, !.number = m]
  BY DEF LeafPart, Node
<1> HIDE DEF a, b, d, e, L, R
<1>6. /\ L \in Node /\ L.keys = a /\ L.vals = b /\ L.links = n.links
      /\ L.kind = n.kind /\ L.number = n.number /\ L.parent = n.parent
  <2>1. a \in Seq(Keys) /\ b \in Seq(Values)
    BY <1>2
  <2> QED
    BY <1>4, <2>1 DEF Node
<1>7. /\ R \in Node /\ R.keys = d /\ R.vals = e /\ R.links = n.links
      /\ R.kind = n.kind /\ R.number = m /\ R.parent = n.parent
  <2>1. d \in Seq(Keys) /\ e \in Seq(Values)
    BY <1>3
  <2> QED
    BY <1>5, <2>1 DEF Node
<1>8. /\ Size(L) = c /\ Size(R) = Size(n) - c /\ c + 1 \in 1 .. Size(n)
      /\ c \in 0 .. Size(n) /\ c \in Nat /\ 1 \in 1 .. Size(n) /\ 1 < c + 1
  <2>1. Size(L) = c /\ Size(R) = Size(n) - c
    BY <1>2, <1>3, <1>6, <1>7 DEF Size
  <2> QED
    BY <1>1, <2>1
<1>9. Shape(L) /\ Shape(R)
  BY <1>1, <1>2, <1>3, <1>6, <1>7, <1>8, Kinds DEF Shape
<1>10. sep \in Keys /\ sep \in Nat
  BY <1>1, <1>8
<1>11. /\ \A i, j \in 1 .. Size(n) : i < j => n.keys[i] < n.keys[j]
       /\ \A i \in 1 .. Size(n) : l <= n.keys[i] /\ n.keys[i] < h
  BY DEF Ordered
<1>12. l < sep /\ sep < h
  <2>1. n.keys[1] < sep /\ l <= n.keys[1] /\ n.keys[1] \in Nat
    BY <1>1, <1>8, <1>11
  <2> QED
    BY <1>8, <1>10, <1>11, <2>1
<1>13. Ordered(L, l, sep)
  <2>1. ASSUME NEW i \in 1 .. Size(L), NEW j \in 1 .. Size(L), i < j
        PROVE  L.keys[i] < L.keys[j]
    <3>1. /\ i \in 1 .. c /\ j \in 1 .. c /\ i \in 1 .. Size(n) /\ j \in 1 .. Size(n)
      BY <1>1, <1>8
    <3> QED
      BY <1>2, <1>6, <1>11, <2>1, <3>1
  <2>2. ASSUME NEW i \in 1 .. Size(L) PROVE l <= L.keys[i] /\ L.keys[i] < sep
    <3>1. i \in 1 .. c /\ i \in 1 .. Size(n) /\ i < c + 1
      BY <1>1, <1>8
    <3> QED
      BY <1>2, <1>6, <1>8, <1>11, <3>1
  <2> QED
    BY <1>6, <1>12, <2>1, <2>2, Kinds DEF Ordered
<1>14. Ordered(R, sep, h)
  <2>1. ASSUME NEW i \in 1 .. Size(R) PROVE R.keys[i] = n.keys[c + i] /\ c + i \in 1 .. Size(n)
    BY <1>1, <1>3, <1>7, <1>8
  <2>2. ASSUME NEW i \in 1 .. Size(R), NEW j \in 1 .. Size(R), i < j
        PROVE  R.keys[i] < R.keys[j]
    <3>1. c + i < c + j
      BY <1>1, <1>8, <2>2
    <3> QED
      BY <1>11, <2>1, <3>1
  <2>3. ASSUME NEW i \in 1 .. Size(R) PROVE sep <= R.keys[i] /\ R.keys[i] < h
    <3>1. c + 1 = c + i \/ c + 1 < c + i
      BY <1>1, <1>8
    <3>2. sep = n.keys[c + i] \/ sep < n.keys[c + i]
      BY <1>8, <1>11, <2>1, <3>1
    <3> QED
      BY <1>1, <1>10, <1>11, <2>1, <3>2
  <2> QED
    BY <1>7, <1>12, <2>2, <2>3, Kinds DEF Ordered
<1> HIDE DEF sep
<1>15. /\ \A j \in 1 .. c : L.keys[j] = n.keys[j] /\ L.vals[j] = n.vals[j]
       /\ \A j \in 1 .. Size(n) - c : R.keys[j] = n.keys[c + j] /\ R.vals[j] = n.vals[c + j]
  BY <1>2, <1>3, <1>6, <1>7
<1>16. \A k \in Keys : /\ k < sep => ValueIn(L, k) = ValueIn(n, k)
                       /\ sep <= k => ValueIn(R, k) = ValueIn(n, k)
  <2>1. L \in Node /\ L.kind \in Leaves /\ R \in Node /\ R.kind \in Leaves
    BY <1>6, <1>7
  <2>2. c \in 0 .. Size(n) /\ Size(L) = c /\ Size(R) = Size(n) - c
    BY <1>8
  <2> QED
    BY SMTT(30), <1>10, <1>13, <1>14, <1>15, <2>1, <2>2, HalvesHaveValues
<1>17. Halves(n, L, R, c, l, sep, h)
  BY <1>6, <1>7, <1>8, <1>9, <1>10, <1>12, <1>13, <1>14 DEF Halves
<1>18. LeafHalves(n, L, R, c, l, sep, h)
  BY <1>8, <1>16, <1>17 DEF LeafHalves
<1> QED
  BY <1>18 DEF L, R, sep

(* Two leaves are the halves of what their merge makes of them.               *)
LEMMA MergeLeavesHalves ==
  ASSUME NEW L \in Node, Shape(L), L.kind \in Leaves, NEW R \in Node, Shape(R),
         R.kind = L.kind, R.parent = L.parent,
         NEW l \in Nat, NEW h \in Nat, NEW sep \in Keys,
         Ordered(L, l, sep), Ordered(R, sep, h)
  PROVE  LeafHalves(MergeLeaves(L, R), L, R, Size(L), l, sep, h)
<1> DEFINE n == MergeLeaves(L, R)
           c == Size(L)
           a == L.keys \o R.keys
           b == L.vals \o R.vals
<1>1. /\ L.keys \in Seq(Keys) /\ L.vals \in Seq(Values)
      /\ Len(L.keys) = Size(L) /\ Size(L) \in Nat
      /\ Len(L.vals) = Size(L) /\ L.links = <<>>
      /\ R.keys \in Seq(Keys) /\ R.vals \in Seq(Values)
      /\ Len(R.keys) = Size(R) /\ Size(R) \in Nat
      /\ Len(R.vals) = Size(R) /\ R.links = <<>>
  BY NodeFields, Kinds DEF Shape, Size
<1>2. /\ a \in Seq(Keys) /\ Len(a) = c + Size(R)
      /\ \A j \in 1 .. c : a[j] = L.keys[j]
      /\ \A j \in 1 .. Size(R) : a[c + j] = R.keys[j]
  <2>1. a \in Seq(Keys) /\ Joined(a, L.keys, R.keys)
    BY <1>1, ConcatIs
  <2> HIDE DEF a
  <2>2. /\ Len(a) = c + Size(R)
        /\ \A j \in 1 .. c + Size(R) : a[j] = IF j <= c THEN L.keys[j] ELSE R.keys[j - c]
    BY <1>1, <2>1 DEF Joined
  <2>3. ASSUME NEW j \in 1 .. c PROVE a[j] = L.keys[j]
    BY <1>1, <2>2
  <2>4. ASSUME NEW j \in 1 .. Size(R) PROVE a[c + j] = R.keys[j]
    <3>1. c + j \in 1 .. c + Size(R) /\ ~(c + j <= c) /\ (c + j) - c = j
      BY <1>1
    <3> QED
      BY <2>2, <3>1
  <2> QED
    BY <2>1, <2>2, <2>3, <2>4
<1>3. /\ b \in Seq(Values) /\ Len(b) = c + Size(R)
      /\ \A j \in 1 .. c : b[j] = L.vals[j]
      /\ \A j \in 1 .. Size(R) : b[c + j] = R.vals[j]
  <2>1. b \in Seq(Values) /\ Joined(b, L.vals, R.vals)
    BY <1>1, ConcatIs
  <2> HIDE DEF b
  <2>2. /\ Len(b) = c + Size(R)
        /\ \A j \in 1 .. c + Size(R) : b[j] = IF j <= c THEN L.vals[j] ELSE R.vals[j - c]
    BY <1>1, <2>1 DEF Joined
  <2>3. ASSUME NEW j \in 1 .. c PROVE b[j] = L.vals[j]
    BY <1>1, <2>2
  <2>4. ASSUME NEW j \in 1 .. Size(R) PROVE b[c + j] = R.vals[j]
    <3>1. c + j \in 1 .. c + Size(R) /\ ~(c + j <= c) /\ (c + j) - c = j
      BY <1>1
    <3> QED
      BY <2>2, <3>1
  <2> QED
    BY <2>1, <2>2, <2>3, <2>4
<1>4. n = [L EXCEPT !.keys = a, !.vals = b]
  BY DEF MergeLeaves
<1> HIDE DEF a, b, n
<1>5. /\ n \in Node /\ n.keys = a /\ n.vals = b /\ n.links = L.links
      /\ n.kind = L.kind /\ n.number = L.number /\ n.parent = L.parent
  <2>1. a \in Seq(Keys) /\ b \in Seq(Values)
    BY <1>2, <1>3
  <2> QED
    BY <1>4, <2>1 DEF Node
<1>6. /\ Size(n) = c + Size(R) /\ c \in 0 .. Size(n) /\ Size(n) \in Nat
      /\ Size(R) = Size(n) - c /\ c \in Nat /\ Size(R) \in Nat
  <2>1. Size(n) = c + Size(R)
    BY <1>2, <1>5 DEF Size
  <2>2. c \in Nat /\ Size(R) \in Nat
    BY <1>1
  <2> HIDE DEF c
  <2> QED
    BY <2>1, <2>2
<1>7. Shape(n)
  BY <1>1, <1>3, <1>5, <1>6, Kinds DEF Shape
<1>8. sep \in Nat
  BY NumbersAreNat
<1> HIDE DEF c
<1>9. /\ \A j \in 1 .. c : L.keys[j] = n.keys[j] /\ L.vals[j] = n.vals[j]
      /\ \A j \in 1 .. Size(n) - c : R.keys[j] = n.keys[c + j] /\ R.vals[j] = n.vals[c + j]
  BY <1>2, <1>3, <1>5, <1>6
<1>10. /\ \A i \in 1 .. c : l <= L.keys[i] /\ L.keys[i] < sep
       /\ \A i, j \in 1 .. c : i < j => L.keys[i] < L.keys[j]
       /\ \A i \in 1 .. Size(R) : sep <= R.keys[i] /\ R.keys[i] < h
       /\ \A i, j \in 1 .. Size(R) : i < j => R.keys[i] < R.keys[j]
       /\ l < sep /\ sep < h
  BY DEF Ordered, c
<1>11. /\ \A i \in 1 .. Size(n) : n.keys[i] \in Nat
       /\ \A i \in 1 .. Size(R) : R.keys[i] \in Nat
  BY <1>5, NodeFields
<1>12. ASSUME NEW i \in 1 .. Size(n)
       PROVE  /\ i <= c => i \in 1 .. c /\ l <= n.keys[i] /\ n.keys[i] < sep
              /\ i > c => i - c \in 1 .. Size(R) /\ n.keys[i] = R.keys[i - c]
  <2>1. CASE i <= c
    <3>1. i \in 1 .. c
      BY <1>6, <2>1
    <3> QED
      BY <1>6, <1>9, <1>10, <2>1, <3>1
  <2>2. CASE i > c
    <3>1. i - c \in 1 .. Size(n) - c /\ c + (i - c) = i
      BY <1>6, <2>2
    <3> QED
      BY <1>6, <1>9, <2>2, <3>1
  <2> QED
    BY <1>6, <2>1, <2>2
<1>13. Ordered(n, l, h)
  <2>1. ASSUME NEW i \in 1 .. Size(n) PROVE l <= n.keys[i] /\ n.keys[i] < h
    BY <1>6, <1>8, <1>10, <1>11, <1>12
  <2>2. ASSUME NEW i \in 1 .. Size(n), NEW j \in 1 .. Size(n), i < j
        PROVE  n.keys[i] < n.keys[j]
    <3>1. CASE j <= c
      <4>1. i <= c
        BY <1>6, <2>2, <3>1
      <4>2. i \in 1 .. c /\ j \in 1 .. c
        BY <1>12, <3>1, <4>1
      <4> QED
        BY <1>9, <1>10, <2>2, <4>2
    <3>2. CASE i <= c /\ j > c
      <4>1. n.keys[i] < sep /\ j - c \in 1 .. Size(R) /\ n.keys[j] = R.keys[j - c]
        BY <1>12, <3>2
      <4>2. sep <= n.keys[j]
        BY <1>10, <4>1
      <4> QED
        BY <1>8, <1>11, <4>1, <4>2
    <3>3. CASE i > c
      <4>1. j > c /\ i - c < j - c
        BY <1>6, <2>2, <3>3
      <4> QED
        BY <1>10, <1>12, <3>3, <4>1
    <3> QED
      BY <1>6, <3>1, <3>2, <3>3
  <2>3. l < h
    BY <1>8, <1>10
  <2> QED
    BY <1>5, <2>1, <2>2, <2>3, Kinds DEF Ordered
<1>14. \A k \in Keys : /\ k < sep => ValueIn(L, k) = ValueIn(n, k)
                       /\ sep <= k => ValueIn(R, k) = ValueIn(n, k)
  <2>1. n \in Node /\ n.kind \in Leaves /\ R.kind \in Leaves
    BY <1>5
  <2>2. c \in 0 .. Size(n) /\ Size(L) = c /\ Size(R) = Size(n) - c
    BY <1>6 DEF c
  <2> QED
    BY <1>8, <1>9, <1>13, <2>1, <2>2, HalvesHaveValues
<1>15. Halves(n, L, R, c, l, sep, h)
  BY <1>5, <1>6, <1>7, <1>10, <1>13 DEF Halves, c
<1>16. LeafHalves(n, L, R, c, l, sep, h)
  BY <1>5, <1>6, <1>14, <1>15 DEF LeafHalves
<1> QED
  BY <1>16 DEF n, c

(* n2 is leaf n with value v for key k and d entries more.                     *)
Updated(n, n2, k, v, d, l, h) ==
  /\ n2 \in Node /\ Shape(n2) /\ n2.links = n.links
  /\ n2.kind = n.kind /\ n2.number = n.number /\ n2.parent = n.parent
  /\ Ordered(n2, l, h) /\ Size(n2) = Size(n) + d
  /\ \A k2 \in Keys : ValueIn(n2, k2) = IF k2 = k THEN v ELSE ValueIn(n, k2)

(* insert_into_leaf adds the one entry and keeps the order.                   *)
LEMMA InsertIntoLeafUpdates ==
  ASSUME NEW n \in Node, Shape(n), n.kind \in Leaves,
         NEW l \in Nat, NEW h \in Nat, Ordered(n, l, h),
         NEW k \in Keys, l <= k, k < h, \A i \in 1 .. Size(n) : n.keys[i] # k,
         NEW v \in Values
  PROVE  Updated(n, InsertIntoLeaf(n, k, v), k, v, 1, l, h)
<1>1. /\ n.keys \in Seq(Keys) /\ n.keys \in Seq(Nat) /\ n.vals \in Seq(Values)
      /\ Len(n.keys) = Size(n) /\ Size(n) \in Nat
      /\ Len(n.vals) = Size(n) /\ n.links = <<>>
      /\ \A i \in 1 .. Size(n) : n.keys[i] \in Nat /\ n.keys[i] \in Keys
  BY NodeFields DEF Shape, Size
<1>2. k \in Nat
  BY NumbersAreNat
<1> DEFINE p == FindPos(n, k) + 1
           n2 == InsertIntoLeaf(n, k, v)
           a == InsertAt(n.keys, p, k)
           b == InsertAt(n.vals, p, v)
<1>3. /\ p \in 1 .. Size(n) + 1
      /\ \A j \in 1 .. Size(n) : j < p => n.keys[j] < k
      /\ \A j \in 1 .. Size(n) : j >= p => k < n.keys[j]
  <2> DEFINE q == FindPos(n, k)
  <2>1. /\ q \in 0 .. Size(n)
        /\ \A j \in 1 .. q : n.keys[j] <= k
        /\ q < Size(n) => n.keys[q + 1] > k
    BY <1>1, <1>2, FindPosStops
  <2> HIDE DEF q
  <2>2. ASSUME NEW j \in 1 .. Size(n), j < q + 1 PROVE n.keys[j] < k
    <3>1. n.keys[j] <= k /\ n.keys[j] # k
      BY <1>1, <2>1, <2>2
    <3> QED
      BY <1>1, <1>2, <3>1
  <2>3. ASSUME NEW j \in 1 .. Size(n), j >= q + 1 PROVE k < n.keys[j]
    <3>1. q < Size(n) /\ q + 1 \in 1 .. Size(n) /\ (q + 1 = j \/ q + 1 < j)
      BY <1>1, <2>1, <2>3
    <3>2. q + 1 < j => n.keys[q + 1] < n.keys[j]
      BY <3>1 DEF Ordered
    <3>3. k < n.keys[q + 1] /\ n.keys[q + 1] \in Nat /\ n.keys[j] \in Nat
      BY <1>1, <1>2, <2>1, <3>1
    <3> QED
      BY <1>2, <3>1, <3>2, <3>3
  <2>4. q + 1 \in 1 .. Size(n) + 1
    BY <1>1, <2>1
  <2> QED
    BY <2>2, <2>3, <2>4 DEF q
<1>4. n2 = [n EXCEPT !.keys = a, !.vals = b]
  BY DEF InsertIntoLeaf
<1> HIDE DEF p, n2
<1>5. /\ a \in Seq(Keys) /\ Len(a) = Size(n) + 1
      /\ \A j \in 1 .. Size(n) + 1 :
           a[j] = IF j < p THEN n.keys[j] ELSE IF j = p THEN k ELSE n.keys[j - 1]
  <2>1. p \in 1 .. Len(n.keys) + 1 /\ n.keys \in Seq(Keys)
    BY <1>1, <1>3
  <2>2. a \in Seq(Keys) /\ Inserted(a, n.keys, p, k)
    BY <2>1, InsertAtIs
  <2> QED
    BY <1>1, <2>2 DEF Inserted
<1>6. /\ b \in Seq(Values) /\ Len(b) = Size(n) + 1
      /\ \A j \in 1 .. Size(n) + 1 :
           b[j] = IF j < p THEN n.vals[j] ELSE IF j = p THEN v ELSE n.vals[j - 1]
  <2>1. p \in 1 .. Len(n.vals) + 1 /\ n.vals \in Seq(Values)
    BY <1>1, <1>3
  <2>2. b \in Seq(Values) /\ Inserted(b, n.vals, p, v)
    BY <2>1, InsertAtIs
  <2> QED
    BY <1>1, <2>2 DEF Inserted
<1> HIDE DEF a, b
<1>7. /\ n2 \in Node /\ n2.keys = a /\ n2.vals = b /\ n2.links = n.links
      /\ n2.kind = n.kind /\ n2.number = n.number /\ n2.parent = n.parent
  <2>1. a \in Seq(Keys) /\ b \in Seq(Values)
    BY <1>5, <1>6
  <2> QED
    BY <1>4, <2>1 DEF Node
<1>8. Size(n2) = Size(n) + 1
  BY <1>5, <1>7 DEF Size
<1>9. Shape(n2)
  BY <1>1, <1>6, <1>7, <1>8, Kinds DEF Shape
(* Where the keys of n2 come from.                                             *)
<1>10. ASSUME NEW j \in 1 .. Size(n2)
       PROVE  \/ j < p /\ j \in 1 .. Size(n) /\ n2.keys[j] = n.keys[j]
                       /\ n2.vals[j] = n.vals[j] /\ n2.keys[j] < k
              \/ j = p /\ n2.keys[j] = k /\ n2.vals[j] = v
              \/ j > p /\ j - 1 \in 1 .. Size(n) /\ n2.keys[j] = n.keys[j - 1]
                       /\ n2.vals[j] = n.vals[j - 1] /\ k < n2.keys[j]
  <2>1. j \in 1 .. Size(n) + 1 /\ j \in Nat /\ p \in Nat
    BY <1>1, <1>3, <1>8
  <2>2. CASE j < p
    <3>1. j \in 1 .. Size(n)
      BY <1>1, <1>3, <2>1, <2>2
    <3> QED
      BY <1>3, <1>5, <1>6, <1>7, <2>1, <2>2, <3>1
  <2>3. CASE j = p
    BY <1>5, <1>6, <1>7, <2>1, <2>3
  <2>4. CASE j > p
    <3>1. j - 1 \in 1 .. Size(n) /\ j - 1 >= p /\ ~(j < p) /\ j # p
      BY <1>1, <1>3, <2>1, <2>4
    <3>2. n2.keys[j] = n.keys[j - 1] /\ n2.vals[j] = n.vals[j - 1]
      BY <1>5, <1>6, <1>7, <2>1, <3>1
    <3>3. k < n.keys[j - 1]
      BY <1>3, <3>1
    <3> QED
      BY <2>4, <3>1, <3>2, <3>3
  <2> QED
    BY <2>1, <2>2, <2>3, <2>4
<1>11. /\ \A i, j \in 1 .. Size(n) : i < j => n.keys[i] < n.keys[j]
       /\ \A i \in 1 .. Size(n) : l <= n.keys[i] /\ n.keys[i] < h
       /\ l < h
  BY DEF Ordered
<1>12. /\ \A i \in 1 .. Size(n2) : n2.keys[i] \in Nat
       /\ p \in Nat /\ Size(n2) \in Nat
  BY <1>1, <1>3, <1>7, <1>8, NodeFields
<1>13. Ordered(n2, l, h)
  <2>1. ASSUME NEW i \in 1 .. Size(n2) PROVE l <= n2.keys[i] /\ n2.keys[i] < h
    BY <1>10, <1>11
  <2>2. ASSUME NEW i \in 1 .. Size(n2), NEW j \in 1 .. Size(n2), i < j
        PROVE  n2.keys[i] < n2.keys[j]
    <3>1. CASE j < p
      BY <1>10, <1>11, <1>12, <2>2, <3>1
    <3>2. CASE i > p
      <4>1. i - 1 < j - 1 /\ j > p
        BY <1>12, <2>2, <3>2
      <4> QED
        BY <1>10, <1>11, <1>12, <3>2, <4>1
    <3>3. CASE i <= p /\ j >= p
      <4>1. n2.keys[i] <= k /\ k <= n2.keys[j] /\ (i < p \/ j > p)
        BY <1>2, <1>10, <1>12, <2>2, <3>3
      <4>2. i < p => n2.keys[i] < k
        BY <1>10, <1>12
      <4>3. j > p => k < n2.keys[j]
        BY <1>10, <1>12
      <4> QED
        BY <1>2, <1>12, <4>1, <4>2, <4>3
    <3> QED
      BY <1>12, <3>1, <3>2, <3>3
  <2> QED
    BY <1>7, <1>11, <2>1, <2>2, Kinds DEF Ordered
<1>14. /\ \A i \in 1 .. Size(n) : ValueIn(n, n.keys[i]) = n.vals[i]
       /\ \A k2 : (\A i \in 1 .. Size(n) : n.keys[i] # k2) => ValueIn(n, k2) = Absent
  BY ValueInIs
<1>15. /\ \A i \in 1 .. Size(n2) : ValueIn(n2, n2.keys[i]) = n2.vals[i]
       /\ \A k2 : (\A i \in 1 .. Size(n2) : n2.keys[i] # k2) => ValueIn(n2, k2) = Absent
  BY <1>7, <1>13, ValueInIs
<1>16. ASSUME NEW k2 \in Keys
       PROVE  ValueIn(n2, k2) = IF k2 = k THEN v ELSE ValueIn(n, k2)
  <2>1. CASE k2 = k
    <3>1. p \in 1 .. Size(n2) /\ ~(p < p)
      BY <1>3, <1>8, <1>12
    <3>2. n2.keys[p] = k /\ n2.vals[p] = v
      BY <1>10, <3>1
    <3> QED
      BY <1>15, <2>1, <3>1, <3>2
  <2>2. CASE k2 # k /\ \E i \in 1 .. Size(n) : n.keys[i] = k2
    <3>1. PICK i \in 1 .. Size(n) : n.keys[i] = k2
      BY <2>2
    <3>2. CASE i < p
      <4>1. i \in 1 .. Size(n2)
        BY <1>1, <1>8
      <4>2. n2.keys[i] = k2 /\ n2.vals[i] = n.vals[i]
        BY <1>10, <1>12, <3>1, <3>2, <4>1
      <4> QED
        BY <1>14, <1>15, <2>2, <3>1, <4>1, <4>2
    <3>3. CASE i >= p
      <4>1. i + 1 \in 1 .. Size(n2) /\ i + 1 > p /\ (i + 1) - 1 = i
            /\ ~(i + 1 < p) /\ i + 1 # p
        BY <1>1, <1>8, <1>12, <3>3
      <4>2. n2.keys[i + 1] = k2 /\ n2.vals[i + 1] = n.vals[i]
        BY <1>10, <3>1, <4>1
      <4> QED
        BY <1>14, <1>15, <2>2, <3>1, <4>1, <4>2
    <3> QED
      BY <1>12, <3>2, <3>3
  <2>3. CASE k2 # k /\ \A i \in 1 .. Size(n) : n.keys[i] # k2
    <3>1. ASSUME NEW j \in 1 .. Size(n2) PROVE n2.keys[j] # k2
      BY <1>10, <2>3
    <3> QED
      BY <1>14, <1>15, <2>3, <3>1
  <2> QED
    BY <2>1, <2>2, <2>3
<1>17. Updated(n, n2, k, v, 1, l, h)
  BY <1>7, <1>8, <1>9, <1>13, <1>16 DEF Updated
<1> QED
  BY <1>17 DEF n2

(* A write to a key that the leaf has changes its value and nothing else.     *)
LEMMA InsertSameUpdates ==
  ASSUME NEW n \in Node, Shape(n), n.kind \in Leaves,
         NEW l \in Nat, NEW h \in Nat, Ordered(n, l, h),
         NEW k \in Keys, NEW p \in 1 .. Size(n), n.keys[p] = k, NEW v \in Values
  PROVE  Updated(n, InsertSame(n, k, v), k, v, 0, l, h)
<1>1. /\ n.keys \in Seq(Keys) /\ n.vals \in Seq(Values)
      /\ Size(n) \in Nat
      /\ Len(n.vals) = Size(n) /\ n.links = <<>>
      /\ \A i \in 1 .. Size(n) : n.keys[i] \in Nat
  BY NodeFields DEF Shape
<1>2. /\ DOMAIN n.vals = 1 .. Size(n)
      /\ \A i \in 1 .. Size(n) : n.vals[i] \in Values
  BY <1>1, LenProperties
<1> DEFINE n2 == InsertSame(n, k, v)
           b == [i \in 1 .. Size(n) |-> IF n.keys[i] = k THEN v ELSE n.vals[i]]
<1>3. n2 = [n EXCEPT !.vals = b]
  BY <1>2 DEF InsertSame
<1>4. /\ b \in Seq(Values) /\ Len(b) = Size(n)
      /\ \A i \in 1 .. Size(n) : b[i] = IF n.keys[i] = k THEN v ELSE n.vals[i]
  <2>1. b \in [1 .. Size(n) -> Values]
    BY <1>2
  <2>2. b \in Seq(Values)
    BY <1>1, <2>1, SeqDef
  <2> QED
    BY <1>1, <2>1, <2>2, LenProperties
<1> HIDE DEF n2, b
<1>5. /\ n2 \in Node /\ n2.keys = n.keys /\ n2.vals = b /\ n2.links = n.links
      /\ n2.kind = n.kind /\ n2.number = n.number /\ n2.parent = n.parent
  BY <1>3, <1>4 DEF Node
<1>6. Size(n2) = Size(n) + 0
  BY <1>1, <1>5 DEF Size
<1>7. Shape(n2) /\ Ordered(n2, l, h)
  <2>1. Size(n2) = Size(n) /\ n2.kind \in Leaves /\ ~(n2.kind \in Interiors)
    BY <1>1, <1>5, <1>6, Kinds
  <2>2. Shape(n2)
    BY <1>1, <1>4, <1>5, <2>1 DEF Shape
  <2> QED
    BY <1>5, <2>1, <2>2 DEF Ordered
<1>8. /\ \A i \in 1 .. Size(n) : ValueIn(n, n.keys[i]) = n.vals[i]
      /\ \A k2 : (\A i \in 1 .. Size(n) : n.keys[i] # k2) => ValueIn(n, k2) = Absent
  BY ValueInIs
<1>9. /\ \A i \in 1 .. Size(n2) : ValueIn(n2, n2.keys[i]) = n2.vals[i]
      /\ \A k2 : (\A i \in 1 .. Size(n2) : n2.keys[i] # k2) => ValueIn(n2, k2) = Absent
  BY <1>5, <1>7, ValueInIs
<1>10. ASSUME NEW k2 \in Keys
       PROVE  ValueIn(n2, k2) = IF k2 = k THEN v ELSE ValueIn(n, k2)
  <2>1. CASE \E i \in 1 .. Size(n) : n.keys[i] = k2
    <3>1. PICK i \in 1 .. Size(n) : n.keys[i] = k2
      BY <2>1
    <3>2. ValueIn(n2, k2) = b[i] /\ ValueIn(n, k2) = n.vals[i]
      BY <1>1, <1>5, <1>6, <1>8, <1>9, <3>1
    <3> QED
      BY <1>4, <3>1, <3>2
  <2>2. CASE \A i \in 1 .. Size(n) : n.keys[i] # k2
    BY <1>1, <1>5, <1>6, <1>8, <1>9, <2>2
  <2> QED
    BY <2>1, <2>2
<1>11. Updated(n, n2, k, v, 0, l, h)
  BY <1>5, <1>6, <1>7, <1>10 DEF Updated
<1> QED
  BY <1>11 DEF n2

(* delete_key_leaf removes the one entry and keeps the order.                 *)
LEMMA DeleteKeyLeafUpdates ==
  ASSUME NEW n \in Node, Shape(n), n.kind \in Leaves,
         NEW l \in Nat, NEW h \in Nat, Ordered(n, l, h),
         NEW k \in Keys, NEW p \in 1 .. Size(n), n.keys[p] = k
  PROVE  Updated(n, DeleteKeyLeaf(n, k), k, Absent, -1, l, h)
<1>1. /\ n.keys \in Seq(Keys) /\ n.keys \in Seq(Nat) /\ n.vals \in Seq(Values)
      /\ Len(n.keys) = Size(n) /\ Size(n) \in Nat
      /\ Len(n.vals) = Size(n) /\ n.links = <<>>
      /\ \A i \in 1 .. Size(n) : n.keys[i] \in Nat /\ n.keys[i] \in Keys
  BY NodeFields DEF Shape, Size
<1>2. /\ \A i, j \in 1 .. Size(n) : i < j => n.keys[i] < n.keys[j]
      /\ \A i \in 1 .. Size(n) : l <= n.keys[i] /\ n.keys[i] < h
      /\ l < h
  BY DEF Ordered
<1>3. \A j \in 1 .. Size(n) : n.keys[j] = n.keys[p] => j = p
  BY <1>1, <1>2
<1>4. IndexIn(n.keys, k) = p
  BY <1>1, <1>3, IndexInIs
<1> DEFINE n2 == DeleteKeyLeaf(n, k)
           a == RemoveAt(n.keys, p)
           b == RemoveAt(n.vals, p)
<1>5. n2 = [n EXCEPT !.keys = a, !.vals = b]
  BY <1>4, DeleteKeyLeafAt
<1>6. /\ a \in Seq(Keys) /\ Len(a) = Size(n) - 1
      /\ \A j \in 1 .. Size(n) - 1 : a[j] = IF j < p THEN n.keys[j] ELSE n.keys[j + 1]
  <2>1. p \in 1 .. Len(n.keys) /\ n.keys \in Seq(Keys)
    BY <1>1
  <2>2. a \in Seq(Keys) /\ Removed(a, n.keys, p)
    BY <2>1, RemoveAtIs
  <2> QED
    BY <1>1, <2>2 DEF Removed
<1>7. /\ b \in Seq(Values) /\ Len(b) = Size(n) - 1
      /\ \A j \in 1 .. Size(n) - 1 : b[j] = IF j < p THEN n.vals[j] ELSE n.vals[j + 1]
  <2>1. p \in 1 .. Len(n.vals) /\ n.vals \in Seq(Values)
    BY <1>1
  <2>2. b \in Seq(Values) /\ Removed(b, n.vals, p)
    BY <2>1, RemoveAtIs
  <2> QED
    BY <1>1, <2>2 DEF Removed
<1> HIDE DEF n2, a, b
<1>8. /\ n2 \in Node /\ n2.keys = a /\ n2.vals = b /\ n2.links = n.links
      /\ n2.kind = n.kind /\ n2.number = n.number /\ n2.parent = n.parent
  <2>1. a \in Seq(Keys) /\ b \in Seq(Values)
    BY <1>6, <1>7
  <2> QED
    BY <1>5, <2>1 DEF Node
<1>9. Size(n2) = Size(n) - 1 /\ Size(n2) = Size(n) + -1
  BY <1>1, <1>6, <1>8 DEF Size
<1>10. Shape(n2)
  BY <1>1, <1>7, <1>8, <1>9, Kinds DEF Shape
(* Where the entries of n2 come from.                                          *)
<1> DEFINE from(j) == IF j < p THEN j ELSE j + 1
<1>11. ASSUME NEW j \in 1 .. Size(n2)
       PROVE  /\ from(j) \in 1 .. Size(n) /\ from(j) # p
              /\ n2.keys[j] = n.keys[from(j)] /\ n2.vals[j] = n.vals[from(j)]
  <2>1. j \in 1 .. Size(n) - 1 /\ p \in Nat /\ Size(n) \in Nat
    BY <1>1, <1>9
  <2>2. CASE j < p
    <3>1. j \in 1 .. Size(n) /\ j # p
      BY <2>1, <2>2
    <3> QED
      BY <1>6, <1>7, <1>8, <2>1, <2>2, <3>1
  <2>3. CASE ~(j < p)
    <3>1. j + 1 \in 1 .. Size(n) /\ j + 1 # p
      BY <2>1, <2>3
    <3> QED
      BY <1>6, <1>7, <1>8, <2>1, <2>3, <3>1
  <2> QED
    BY <2>2, <2>3
<1>12. Size(n2) \in Nat /\ p \in Nat
  BY <1>1, <1>8, NodeFields
<1>13. ASSUME NEW i \in 1 .. Size(n2), NEW j \in 1 .. Size(n2), i < j
       PROVE  from(i) < from(j)
  BY <1>12, <1>13
<1>14. ASSUME NEW i \in 1 .. Size(n), i # p
       PROVE  \E j \in 1 .. Size(n2) : from(j) = i
  <2>1. CASE i < p
    <3>1. i \in 1 .. Size(n2)
      BY <1>1, <1>9, <2>1
    <3> QED
      BY <2>1, <3>1
  <2>2. CASE ~(i < p)
    <3>1. i - 1 \in 1 .. Size(n2) /\ ~(i - 1 < p) /\ (i - 1) + 1 = i
      BY <1>1, <1>9, <1>14, <2>2
    <3> QED
      BY <3>1
  <2> QED
    BY <2>1, <2>2
<1> HIDE DEF from
<1>15. Ordered(n2, l, h)
  <2>1. ASSUME NEW i \in 1 .. Size(n2) PROVE l <= n2.keys[i] /\ n2.keys[i] < h
    BY <1>2, <1>11
  <2>2. ASSUME NEW i \in 1 .. Size(n2), NEW j \in 1 .. Size(n2), i < j
        PROVE  n2.keys[i] < n2.keys[j]
    BY <1>2, <1>11, <1>13, <2>2
  <2> QED
    BY <1>2, <1>8, <2>1, <2>2, Kinds DEF Ordered
<1>16. /\ \A i \in 1 .. Size(n) : ValueIn(n, n.keys[i]) = n.vals[i]
       /\ \A k2 : (\A i \in 1 .. Size(n) : n.keys[i] # k2) => ValueIn(n, k2) = Absent
  BY ValueInIs
<1>17. /\ \A i \in 1 .. Size(n2) : ValueIn(n2, n2.keys[i]) = n2.vals[i]
       /\ \A k2 : (\A i \in 1 .. Size(n2) : n2.keys[i] # k2) => ValueIn(n2, k2) = Absent
  BY <1>8, <1>15, ValueInIs
<1>18. ASSUME NEW k2 \in Keys
       PROVE  ValueIn(n2, k2) = IF k2 = k THEN Absent ELSE ValueIn(n, k2)
  <2>1. CASE k2 = k
    <3>1. ASSUME NEW j \in 1 .. Size(n2) PROVE n2.keys[j] # k
      BY <1>3, <1>11
    <3> QED
      BY <1>17, <2>1, <3>1
  <2>2. CASE k2 # k /\ \E i \in 1 .. Size(n) : n.keys[i] = k2
    <3>1. PICK i \in 1 .. Size(n) : n.keys[i] = k2
      BY <2>2
    <3>2. i # p
      BY <2>2, <3>1
    <3>3. PICK j \in 1 .. Size(n2) : from(j) = i
      BY <1>14, <3>2
    <3>4. n2.keys[j] = k2 /\ n2.vals[j] = n.vals[i]
      BY <1>11, <3>1, <3>3
    <3>5. ValueIn(n2, k2) = n.vals[i] /\ ValueIn(n, k2) = n.vals[i]
      BY <1>16, <1>17, <3>1, <3>4
    <3> QED
      BY <2>2, <3>5
  <2>3. CASE k2 # k /\ \A i \in 1 .. Size(n) : n.keys[i] # k2
    <3>1. ASSUME NEW j \in 1 .. Size(n2) PROVE n2.keys[j] # k2
      BY <1>11, <2>3
    <3> QED
      BY <1>16, <1>17, <2>3, <3>1
  <2> QED
    BY <2>1, <2>2, <2>3
<1>19. Updated(n, n2, k, Absent, -1, l, h)
  BY <1>8, <1>9, <1>10, <1>15, <1>18 DEF Updated
<1> QED
  BY <1>19 DEF n2

-------------------------------------------------------------------------------
(* Splits and redistributions *)

(* A full page has twice the keys of a half-full one.                         *)
LEMMA NodesDownIs ==
  /\ NodesDown \in Nat /\ NodesDown >= 2 /\ NodesUp = 2 * NodesDown
  /\ NodesUp \in Nat /\ (NodesUp + 1) \div 2 = NodesDown
<1>1. NodesDown \in Nat /\ NodesDown >= 2 /\ NodesUp = 2 * NodesDown
  BY BTreeNodeAssumption
<1>2. \A d \in Nat : (2 * d + 1) \div 2 = d
  OBVIOUS
<1> QED
  BY <1>1, <1>2

(* A page under another parent, and as a page below the root.                  *)
Given(n, q) == [n EXCEPT !.parent = q]

(* A node as it is when it is no longer the root: of this kind, under q.      *)
Lowered(n, kind, q) == [n EXCEPT !.kind = kind, !.parent = q]

(* A divided root leaves two pages that differ from those of another page of   *)
(* the same contents in the parent only.                                       *)
LEMMA DivideLeafParent ==
  ASSUME NEW n \in Node, NEW k, NEW v, NEW m, NEW r,
         NEW n0, n0 = Lowered(n, "Leaf", r),
         NEW d, d = DivideLeaf(n, k, v, m), NEW d0, d0 = DivideLeaf(n0, k, v, m)
  PROVE  d0.p = Given(d.p, r) /\ d0.s = Given(d.s, r)
<1>0. n0 = [n EXCEPT !.kind = "Leaf", !.parent = r]
  BY DEF Lowered
<1> USE <1>0
<1>1. /\ n0.keys = n.keys /\ n0.vals = n.vals /\ n0.links = n.links
      /\ n0.kind = "Leaf" /\ n0.number = n.number /\ n0.parent = r
  BY DEF Node
<1> DEFINE na == [n EXCEPT !.kind = "Leaf"]
           i  == FindPos(na, k) + 1
           a  == InsertAt(n.keys, i, k)
           b  == InsertAt(n.vals, i, v)
           c  == (Size(n) + 1) \div 2
           all == [na EXCEPT !.keys = a, !.vals = b]
           all0 == [n0 EXCEPT !.keys = a, !.vals = b]
<1>2. na.keys = n.keys /\ na.vals = n.vals
  BY DEF Node
<1>3. [n0 EXCEPT !.kind = "Leaf"] = n0
  BY DEF Node
<1>4. FindPos(n0, k) = FindPos(na, k) /\ Size(n0) = Size(n)
  BY <1>1, <1>2 DEF FindPos, Size
<1>5. InsertIntoLeaf(na, k, v) = all
  BY <1>2 DEF InsertIntoLeaf
<1>6. InsertIntoLeaf(n0, k, v) = all0
  BY <1>1, <1>4 DEF InsertIntoLeaf
<1>7. Size(all) = Size(all0)
  BY DEF Size, Node
<1>8. DivideLeaf(n, k, v, m) =
        [p |-> LeafPart(all, 1, c),
         s |-> [LeafPart(all, c + 1, Size(all)) EXCEPT !.number = m]]
  BY <1>5 DEF DivideLeaf
<1>9. DivideLeaf(n0, k, v, m) =
        [p |-> LeafPart(all0, 1, c),
         s |-> [LeafPart(all0, c + 1, Size(all)) EXCEPT !.number = m]]
  BY <1>3, <1>4, <1>6, <1>7 DEF DivideLeaf
<1>10. all0 = [all EXCEPT !.parent = r]
  BY DEF Node
<1> HIDE DEF a, b, c
<1>11. \A x, y : LeafPart(all0, x, y) = [LeafPart(all, x, y) EXCEPT !.parent = r]
  BY <1>10 DEF LeafPart, Node
<1>12. LeafPart(all0, 1, c) = [LeafPart(all, 1, c) EXCEPT !.parent = r]
  BY <1>11
<1>13. LeafPart(all0, c + 1, Size(all)) = [LeafPart(all, c + 1, Size(all)) EXCEPT !.parent = r]
  BY <1>11
<1>14. \A x : [[x EXCEPT !.parent = r] EXCEPT !.number = m]
                = [[x EXCEPT !.number = m] EXCEPT !.parent = r]
  OBVIOUS
<1> DEFINE P == LeafPart(all, 1, c)
           S == LeafPart(all, c + 1, Size(all))
           Q == [S EXCEPT !.number = m]
<1>15. DivideLeaf(n, k, v, m).p = P /\ DivideLeaf(n, k, v, m).s = Q
  BY <1>8
<1>16. DivideLeaf(n0, k, v, m) =
         [p |-> [P EXCEPT !.parent = r], s |-> [[S EXCEPT !.parent = r] EXCEPT !.number = m]]
  BY <1>9, <1>12, <1>13
<1>17. [[S EXCEPT !.parent = r] EXCEPT !.number = m] = [Q EXCEPT !.parent = r]
  BY <1>14
<1> DEFINE P0 == Given(P, r)
           S0 == Given(Q, r)
<1>18. d0 = [p |-> P0, s |-> S0]
  BY <1>16, <1>17 DEF Given
<1>19. d.p = P /\ d.s = Q
  BY <1>15
<1> HIDE DEF P, S, Q
<1>20. P0 = Given(d.p, r) /\ S0 = Given(d.s, r)
  BY <1>19
<1> HIDE DEF P0, S0
<1>21. d0.p = P0 /\ d0.s = S0
  BY <1>18
<1> QED
  BY <1>20, <1>21

(* The division looks at keys and links only, not at kind or parent.          *)
LEMMA DivideIntermediateParent ==
  ASSUME NEW n \in Node, NEW k, NEW link, NEW m, NEW r,
         NEW n0, n0 = Lowered(n, "Intermediate", r),
         NEW d, d = DivideIntermediate(n, k, link, m),
         NEW d0, d0 = DivideIntermediate(n0, k, link, m)
  PROVE  d0.p = Given(d.p, r) /\ d0.s = Given(d.s, r) /\ d0.key = d.key
<1>0. n0 = [n EXCEPT !.kind = "Intermediate", !.parent = r]
  BY DEF Lowered
<1> USE <1>0
<1>1. /\ n0.keys = n.keys /\ n0.vals = n.vals /\ n0.links = n.links
      /\ n0.kind = "Intermediate" /\ n0.number = n.number /\ n0.parent = r
  BY DEF Node
<1> DEFINE na == [n EXCEPT !.kind = "Intermediate"]
           i  == FindPos(na, k) + 1
           a  == InsertAt(n.keys, i, k)
           b  == InsertAt(n.links, i + 1, link)
           c  == (Size(n) + 1) \div 2
           all == [na EXCEPT !.keys = a, !.links = b]
           all0 == [n0 EXCEPT !.keys = a, !.links = b]
<1>2. na.keys = n.keys /\ na.links = n.links
  BY DEF Node
<1>3. [n0 EXCEPT !.kind = "Intermediate"] = n0
  BY DEF Node
<1>4. FindPos(n0, k) = FindPos(na, k) /\ Size(n0) = Size(n)
  BY <1>1, <1>2 DEF FindPos, Size
<1>5. InsertIntoIntermediate(na, k, link) = all
  BY <1>2 DEF InsertIntoIntermediate
<1>6. InsertIntoIntermediate(n0, k, link) = all0
  BY <1>1, <1>4 DEF InsertIntoIntermediate
<1>7. Size(all) = Size(all0) /\ all.keys = all0.keys
  BY DEF Size, Node
<1>8. d = [p   |-> NodePart(all, 1, c),
           key |-> all.keys[c + 1],
           s   |-> [NodePart(all, c + 2, Size(all)) EXCEPT !.number = m]]
  BY <1>5 DEF DivideIntermediate
<1>9. DivideIntermediate(n0, k, link, m) =
        [p   |-> NodePart(all0, 1, c),
         key |-> all.keys[c + 1],
         s   |-> [NodePart(all0, c + 2, Size(all)) EXCEPT !.number = m]]
  BY <1>3, <1>4, <1>6, <1>7 DEF DivideIntermediate
<1>10. all0 = [all EXCEPT !.parent = r]
  BY DEF Node
<1> HIDE DEF a, b, c
<1>11. \A x, y : NodePart(all0, x, y) = [NodePart(all, x, y) EXCEPT !.parent = r]
  BY ZenonT(60), <1>10 DEF NodePart, Node
<1>14. \A x : [[x EXCEPT !.parent = r] EXCEPT !.number = m]
                = [[x EXCEPT !.number = m] EXCEPT !.parent = r]
  OBVIOUS
<1> DEFINE P == NodePart(all, 1, c)
           S == NodePart(all, c + 2, Size(all))
           Q == [S EXCEPT !.number = m]
           key == all.keys[c + 1]
<1>12. NodePart(all0, 1, c) = [P EXCEPT !.parent = r]
  BY <1>11
<1>13. NodePart(all0, c + 2, Size(all)) = [S EXCEPT !.parent = r]
  BY <1>11
<1>15. d.p = P /\ d.s = Q /\ d.key = key
  BY <1>8
<1>16. DivideIntermediate(n0, k, link, m) =
         [p |-> [P EXCEPT !.parent = r], key |-> key,
          s |-> [[S EXCEPT !.parent = r] EXCEPT !.number = m]]
  BY <1>9, <1>12, <1>13
<1>17. [[S EXCEPT !.parent = r] EXCEPT !.number = m] = [Q EXCEPT !.parent = r]
  BY <1>14
<1> DEFINE P0 == Given(P, r)
           S0 == Given(Q, r)
<1>18. d0 = [p |-> P0, key |-> key, s |-> S0]
  BY <1>16, <1>17 DEF Given
<1> HIDE DEF P, S, Q, key
<1>20. P0 = Given(d.p, r) /\ S0 = Given(d.s, r) /\ key = d.key
  BY <1>15
<1> HIDE DEF P0, S0
<1>21. d0.p = P0 /\ d0.s = S0 /\ d0.key = key
  BY <1>18
<1> QED
  BY <1>20, <1>21

(* divide_leaf makes halves of the leaf that has the new entry.               *)
LEMMA DivideLeafHalves ==
  ASSUME NEW n \in Node, Shape(n), n.kind = "Leaf", Size(n) = NodesUp,
         NEW l \in Nat, NEW h \in Nat, Ordered(n, l, h),
         NEW k \in Keys, l <= k, k < h, \A i \in 1 .. Size(n) : n.keys[i] # k,
         NEW v \in Values, NEW m \in Numbers,
         NEW N, N = InsertIntoLeaf(n, k, v),
         NEW d, d = DivideLeaf(n, k, v, m)
  PROVE  /\ Updated(n, N, k, v, 1, l, h)
         /\ LeafHalves(N, d.p, d.s, NodesDown, l, Head(d.s.keys), h)
         /\ d.s.number = m
<1>1. n.kind \in Leaves
  BY Kinds
<1>2. Updated(n, N, k, v, 1, l, h)
  BY <1>1, InsertIntoLeafUpdates
<1>3. N \in Node /\ Shape(N) /\ N.kind \in Leaves /\ Ordered(N, l, h)
      /\ Size(N) = NodesUp + 1
  BY <1>1, <1>2 DEF Updated
<1> DEFINE D == NodesDown
           P == LeafPart(N, 1, D)
           S == [LeafPart(N, D + 1, Size(N)) EXCEPT !.number = m]
<1>4. [n EXCEPT !.kind = "Leaf"] = n
  BY DEF Node
<1>5. (Size(n) + 1) \div 2 = D
  BY NodesDownIs
<1>6. DivideLeaf(n, k, v, m) = [p |-> P, s |-> S]
  BY <1>4, <1>5 DEF DivideLeaf
<1>7. d.p = P /\ d.s = S
  BY <1>6
<1>8. D \in 1 .. Size(N) - 1 /\ D \in Nat /\ (D + 1) - 1 = D
  BY <1>3, NodesDownIs
<1>9. LeafHalves(N, P, S, D, l, N.keys[D + 1], h)
  BY <1>3, <1>8, LeafPartHalves
<1>10. N.keys \in Seq(Keys) /\ D + 1 \in 1 .. Len(N.keys) + 1 /\ Size(N) \in D .. Len(N.keys)
       /\ Len(N.keys) = Size(N)
  BY <1>3, <1>8, NodeFields, NodesDownIs DEF Size
<1>11. S.keys = SubSeq(N.keys, D + 1, Size(N))
  BY <1>3 DEF LeafPart, Node
<1>12. Part(S.keys, N.keys, D + 1, Size(N))
  <2>1. (D + 1) - 1 = D /\ Size(N) \in (D + 1) - 1 .. Len(N.keys)
    BY <1>8, <1>10
  <2>2. Part(SubSeq(N.keys, D + 1, Size(N)), N.keys, D + 1, Size(N))
    BY <1>10, <2>1, SubSeqIs
  <2> QED
    BY <1>11, <2>2
<1>13. S.keys[1] = N.keys[D + 1] /\ Len(S.keys) >= 1
  <2>1. 1 \in 1 .. Size(N) - (D + 1) + 1 /\ (D + 1) + 1 - 1 = D + 1
        /\ Size(N) - (D + 1) + 1 >= 1
    BY <1>3, <1>8, NodesDownIs
  <2> HIDE DEF S, D
  <2>2. /\ Len(S.keys) = Size(N) - (D + 1) + 1
        /\ \A j \in 1 .. Size(N) - (D + 1) + 1 : S.keys[j] = N.keys[D + 1 + j - 1]
    BY <1>12 DEF Part
  <2> QED
    BY <2>1, <2>2
<1>14. Head(S.keys) = N.keys[D + 1]
  BY <1>13
<1>15. S.number = m
  BY <1>3 DEF LeafPart, Node
<1> HIDE DEF P, S
<1> QED
  BY <1>2, <1>7, <1>9, <1>14, <1>15

(* divide_intermediate makes halves of the node that has the new key and      *)
(* link.                                                                      *)
LEMMA DivideIntermediateHalves ==
  ASSUME NEW n \in Node, n.kind = "Intermediate", Size(n) = NodesUp,
         NEW k, NEW link, NEW m \in Numbers,
         NEW N \in Node, N = InsertIntoIntermediate(n, k, link),
         Shape(N), N.kind = "Intermediate", Size(N) = NodesUp + 1,
         NEW l \in Nat, NEW h \in Nat, Ordered(N, l, h),
         NEW d, d = DivideIntermediate(n, k, link, m)
  PROVE  InnerHalves(N, d.p, d.s, NodesDown, l, d.key, h) /\ d.s.number = m
<1> DEFINE D == NodesDown
           P == NodePart(N, 1, D)
           S == [NodePart(N, D + 2, Size(N)) EXCEPT !.number = m]
<1>1. N.kind \in Interiors
  BY Kinds
<1>2. [n EXCEPT !.kind = "Intermediate"] = n
  BY DEF Node
<1>3. (Size(n) + 1) \div 2 = D
  BY NodesDownIs
<1>4. DivideIntermediate(n, k, link, m) = [p |-> P, key |-> N.keys[D + 1], s |-> S]
  BY <1>2, <1>3 DEF DivideIntermediate
<1>5. d.p = P /\ d.s = S /\ d.key = N.keys[D + 1]
  BY <1>4
<1>6. D \in 0 .. Size(N) - 1
  BY NodesDownIs
<1>7. InnerHalves(N, P, S, D, l, N.keys[D + 1], h)
  BY <1>1, <1>6, NodePartHalves
<1>8. S.number = m
  BY DEF NodePart, Node
<1> HIDE DEF P, S
<1> QED
  BY <1>5, <1>7, <1>8

(* A page and its right sibling, in whichever order they are given.            *)
Siblings(p, s, L, R) == (p = L /\ s = R) \/ (p = R /\ s = L)

(* The first keys of two neighbours tell which of them is the left one.       *)
LEMMA InorderIs ==
  ASSUME NEW L \in Node, NEW R \in Node, NEW l, NEW h, NEW sep \in Nat,
         Ordered(L, l, sep), Ordered(R, sep, h), Size(L) >= 1, Size(R) >= 1,
         NEW p, NEW s, Siblings(p, s, L, R)
  PROVE  Inorder(p, s) = <<L, R>> /\ SiblingIsRight(p, s) = (p = L /\ s = R)
<1>1. /\ Size(L) \in Nat /\ Size(R) \in Nat
      /\ Size(L) \in 1 .. Size(L) /\ 1 \in 1 .. Size(R) /\ Size(R) \in 1 .. Size(R)
      /\ 1 \in 1 .. Size(L)
      /\ \A i \in 1 .. Size(L) : L.keys[i] \in Nat
      /\ \A i \in 1 .. Size(R) : R.keys[i] \in Nat
  BY NodeFields
<1>2. /\ \A i \in 1 .. Size(L) : L.keys[i] < sep
      /\ \A i \in 1 .. Size(R) : sep <= R.keys[i]
  BY DEF Ordered
<1>3. Last(L.keys) = L.keys[Size(L)] /\ Last(R.keys) = R.keys[Size(R)]
  BY DEF Last, Size
<1>4. Head(L.keys) = L.keys[1] /\ Head(R.keys) = R.keys[1]
  BY <1>1 DEF Size
<1>5. SiblingIsRight(L, R) = TRUE
  BY <1>1, <1>2, <1>3, <1>4 DEF SiblingIsRight
<1>6. SiblingIsRight(R, L) = FALSE
  BY <1>1, <1>2, <1>3, <1>4 DEF SiblingIsRight
<1>7. L # R
  BY <1>5, <1>6
<1>8. CASE p = L /\ s = R
  BY <1>5, <1>8 DEF Inorder
<1>9. CASE p = R /\ s = L
  BY <1>6, <1>7, <1>9 DEF Inorder
<1> QED
  BY <1>8, <1>9 DEF Siblings

(* How two pages share what they hold, when one lacks a key.                   *)
LEMMA LeftShareIs ==
  ASSUME NEW L \in Node, NEW R \in Node, NEW l, NEW h, NEW sep \in Nat,
         Ordered(L, l, sep), Ordered(R, sep, h),
         NEW p \in Node, NEW s \in Node, Siblings(p, s, L, R),
         Size(p) = NodesDown - 1, Size(s) > NodesDown, Size(s) <= NodesUp
  PROVE  /\ LeftShare(p, s) \in NodesDown .. NodesUp
         /\ Size(L) + Size(R) - LeftShare(p, s) \in NodesDown .. NodesUp
         /\ Size(L) >= 1 /\ Size(R) >= 1
<1>1. Size(L) >= 1 /\ Size(R) >= 1 /\ Size(L) + Size(R) = Size(p) + Size(s)
      /\ Size(p) \in Nat /\ Size(s) \in Nat
  BY NodesDownIs, NodeFields DEF Siblings
<1> DEFINE t == Size(p) + Size(s)
           half == t \div 2
<1>2. \A x \in Nat : x \div 2 \in Nat /\ 2 * (x \div 2) <= x /\ x <= 2 * (x \div 2) + 1
  OBVIOUS
<1>3. t \in Nat /\ half \in Nat /\ 2 * half <= t /\ t <= 2 * half + 1
  BY <1>1, <1>2
<1>4. LeftShare(p, s) = half \/ LeftShare(p, s) = t - half
  <2>1. CASE SiblingIsRight(p, s) = TRUE
    BY <2>1 DEF LeftShare
  <2>2. CASE SiblingIsRight(p, s) = FALSE
    <3>1. LeftShare(p, s) = Size(p) + Size(s) - half
      BY <2>2 DEF LeftShare
    <3> QED
      BY <1>1, <1>3, <3>1
  <2>3. SiblingIsRight(p, s) \in BOOLEAN
    BY DEF SiblingIsRight
  <2> QED
    BY <2>1, <2>2, <2>3
<1>5. t = NodesDown - 1 + Size(s)
  OBVIOUS
<1> HIDE DEF half, t
<1>6. half \in NodesDown .. NodesUp /\ t - half \in NodesDown .. NodesUp
  BY <1>1, <1>3, <1>5, NodesDownIs
<1>7. t - (t - half) = half
  BY <1>3
<1>8. Size(L) + Size(R) = t
  BY <1>1 DEF t
<1>9. /\ LeftShare(p, s) \in NodesDown .. NodesUp
      /\ t - LeftShare(p, s) \in NodesDown .. NodesUp
  BY <1>4, <1>6, <1>7
<1>10. Size(L) + Size(R) - LeftShare(p, s) \in NodesDown .. NodesUp
  <2>1. Size(L) \in Nat /\ Size(R) \in Nat /\ LeftShare(p, s) \in Nat
    BY <1>9, NodesDownIs, NodeFields
  <2>2. Size(L) + Size(R) - LeftShare(p, s) = t - LeftShare(p, s)
    BY <1>8, <2>1
  <2> QED
    BY <1>9, <2>2
<1> QED
  BY <1>1, <1>9, <1>10

(* redistribute_keys_leaf makes other halves of what two leaves hold          *)
(* together, both with enough keys, and gives the parent the key between      *)
(* them.                                                                      *)
LEMMA RedistributeKeysLeafHalves ==
  ASSUME NEW L \in Node, Shape(L), L.kind \in Leaves, NEW R \in Node, Shape(R),
         R.kind = L.kind, R.parent = L.parent,
         NEW l \in Nat, NEW h \in Nat, NEW sep \in Keys,
         Ordered(L, l, sep), Ordered(R, sep, h),
         NEW p \in Node, NEW s \in Node, Siblings(p, s, L, R),
         Size(p) = NodesDown - 1, Size(s) > NodesDown, Size(s) <= NodesUp,
         NEW parent,
         NEW N, N = MergeLeaves(L, R),
         NEW q, q = RedistributeKeysLeaf(p, s, parent)
  PROVE  /\ LeafHalves(N, L, R, Size(L), l, sep, h)
         /\ \E c, sep2 :
              /\ LeafHalves(N, q[1], q[2], c, l, sep2, h)
              /\ q[3] = NewSeparator(parent, L.number, R.number, sep2)
         /\ q[2].number = R.number /\ q = <<q[1], q[2], q[3]>>
         /\ Size(q[1]) \in NodesDown .. NodesUp /\ Size(q[2]) \in NodesDown .. NodesUp
<1>0. sep \in Nat
  BY NumbersAreNat
<1>1. LeafHalves(N, L, R, Size(L), l, sep, h)
  BY MergeLeavesHalves
<1>2. N \in Node /\ Shape(N) /\ N.kind \in Leaves /\ Ordered(N, l, h)
      /\ Size(N) \in Nat /\ Size(L) \in Nat /\ Size(R) \in Nat
      /\ Size(R) = Size(N) - Size(L) /\ N.parent = L.parent
  BY <1>1, NodeFields DEF LeafHalves, Halves
<1> DEFINE c == LeftShare(p, s)
           q1 == LeafPart(N, 1, c)
           r0 == LeafPart(N, c + 1, Size(N))
           q2 == [r0 EXCEPT !.number = R.number]
           sep2 == N.keys[c + 1]
<1>3. /\ c \in NodesDown .. NodesUp /\ Size(L) + Size(R) - c \in NodesDown .. NodesUp
      /\ Size(L) >= 1 /\ Size(R) >= 1
  BY <1>0, LeftShareIs
<1>4. Inorder(p, s) = <<L, R>>
  BY <1>0, <1>3, InorderIs
<1>5. q = <<q1, [r0 EXCEPT !.number = R.number, !.parent = R.parent],
            NewSeparator(parent, L.number, R.number, sep2)>>
  <2>1. Inorder(p, s)[1] = L /\ Inorder(p, s)[2] = R
    BY <1>4
  <2> QED
    BY <2>1 DEF RedistributeKeysLeaf
<1>6. c \in 1 .. Size(N) - 1 /\ Size(N) - c \in NodesDown .. NodesUp
  BY <1>2, <1>3, NodesDownIs
<1>7. LeafHalves(N, q1, q2, c, l, sep2, h)
  <2>1. R.number \in Numbers
    BY NodeFields
  <2> QED
    BY <1>2, <1>6, <2>1, LeafPartHalves
<1>8. [r0 EXCEPT !.number = R.number, !.parent = R.parent] = q2
  <2> DEFINE a == SubSeq(N.keys, c + 1, Size(N))
             b == SubSeq(N.vals, c + 1, Size(N))
  <2>1. r0 = [N EXCEPT !.keys = a, !.vals = b]
    BY DEF LeafPart
  <2>2. N.parent = R.parent
    BY <1>2
  <2> HIDE DEF a, b, r0
  <2> QED
    BY <1>2, <2>1, <2>2 DEF Node
<1>9. q2.number = R.number
  BY <1>2 DEF LeafPart, Node
<1>10. Size(q1) = c /\ Size(q2) = Size(N) - c
  BY <1>7 DEF LeafHalves, Halves
<1> HIDE DEF c, q1, q2, sep2, r0
<1>11. q = <<q1, q2, NewSeparator(parent, L.number, R.number, sep2)>>
  BY <1>5, <1>8
<1>12. q[1] = q1 /\ q[2] = q2 /\ q[3] = NewSeparator(parent, L.number, R.number, sep2)
  BY <1>11
<1> QED
  BY <1>1, <1>3, <1>6, <1>7, <1>9, <1>10, <1>11, <1>12

(* redistribute_keys_intermediate likewise, through the key of the parent.    *)
LEMMA RedistributeKeysIntermediateHalves ==
  ASSUME NEW L \in Node, Shape(L), L.kind \in Interiors, NEW R \in Node, Shape(R),
         R.kind = L.kind, R.parent = L.parent,
         NEW l \in Nat, NEW h \in Nat, NEW sep \in Keys,
         Ordered(L, l, sep), Ordered(R, sep, h),
         NEW p \in Node, NEW s \in Node, Siblings(p, s, L, R),
         Size(p) = NodesDown - 1, Size(s) > NodesDown, Size(s) <= NodesUp,
         NEW parent, KeyBehind(parent, L.number) = sep,
         NEW N, N = MergeNodes(L, sep, R),
         NEW q, q = RedistributeKeysIntermediate(p, s, parent)
  PROVE  /\ InnerHalves(N, L, R, Size(L), l, sep, h)
         /\ \E c, sep2 :
              /\ InnerHalves(N, q[1], q[2], c, l, sep2, h)
              /\ q[3] = NewSeparator(parent, L.number, R.number, sep2)
         /\ q[2].number = R.number /\ q = <<q[1], q[2], q[3]>>
         /\ Size(q[1]) \in NodesDown .. NodesUp /\ Size(q[2]) \in NodesDown .. NodesUp
<1>0. sep \in Nat
  BY NumbersAreNat
<1>1. InnerHalves(N, L, R, Size(L), l, sep, h)
  BY MergeNodesHalves
<1>2. N \in Node /\ Shape(N) /\ N.kind \in Interiors /\ Ordered(N, l, h)
      /\ Size(N) \in Nat /\ Size(L) \in Nat /\ Size(R) \in Nat
      /\ Size(R) = Size(N) - Size(L) - 1 /\ N.parent = L.parent
  BY <1>1, NodeFields DEF InnerHalves, Halves
<1> DEFINE c == LeftShare(p, s)
           q1 == NodePart(N, 1, c)
           r0 == NodePart(N, c + 2, Size(N))
           q2 == [r0 EXCEPT !.number = R.number]
           sep2 == N.keys[c + 1]
<1>3. /\ c \in NodesDown .. NodesUp /\ Size(L) + Size(R) - c \in NodesDown .. NodesUp
      /\ Size(L) >= 1 /\ Size(R) >= 1
  BY <1>0, LeftShareIs
<1>4. Inorder(p, s) = <<L, R>>
  BY <1>0, <1>3, InorderIs
<1>5. q = <<q1, [r0 EXCEPT !.number = R.number, !.parent = R.parent],
            NewSeparator(parent, L.number, R.number, sep2)>>
  <2>1. Inorder(p, s)[1] = L /\ Inorder(p, s)[2] = R
    BY <1>4
  <2> QED
    BY <2>1 DEF RedistributeKeysIntermediate
<1>6. c \in 0 .. Size(N) - 1 /\ Size(N) - c - 1 \in NodesDown .. NodesUp
  BY <1>2, <1>3, NodesDownIs
<1>7. InnerHalves(N, q1, q2, c, l, sep2, h)
  <2>1. R.number \in Numbers
    BY NodeFields
  <2> QED
    BY <1>2, <1>6, <2>1, NodePartHalves
<1>8. [r0 EXCEPT !.number = R.number, !.parent = R.parent] = q2
  <2> DEFINE a == SubSeq(N.keys, c + 2, Size(N))
             b == SubSeq(N.links, c + 2, Size(N) + 1)
  <2>1. r0 = [N EXCEPT !.keys = a, !.links = b]
    BY DEF NodePart
  <2>2. N.parent = R.parent
    BY <1>2
  <2> HIDE DEF a, b, r0
  <2> QED
    BY <1>2, <2>1, <2>2 DEF Node
<1>9. q2.number = R.number
  BY <1>2 DEF NodePart, Node
<1>10. Size(q1) = c /\ Size(q2) = Size(N) - c - 1
  BY <1>7 DEF InnerHalves, Halves
<1> HIDE DEF c, q1, q2, sep2, r0
<1>11. q = <<q1, q2, NewSeparator(parent, L.number, R.number, sep2)>>
  BY <1>5, <1>8
<1>12. q[1] = q1 /\ q[2] = q2 /\ q[3] = NewSeparator(parent, L.number, R.number, sep2)
  BY <1>11
<1> QED
  BY <1>1, <1>3, <1>6, <1>7, <1>9, <1>10, <1>11, <1>12
==============================================================================
