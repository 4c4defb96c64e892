--------------------------- MODULE PageLayout_proof ---------------------------
(***************************************************************************)
(* What the loops of PageLayout write, page by page: the comparisons of    *)
(* keys are one total order, a page laid out like its node has its items one *)
(* beside the other and reads back, and each operation on a page leaves the *)
(* layout of the node that it is meant to make.                            *)
(*                                                                         *)
(* A loop that fills a page has, after each turn, the first items of the   *)
(* page it is to write (FillLeafIs, FillIntermediateIs and the like), so each *)
(* operation writes the layout of what BTreeNode computes.                 *)
(***************************************************************************)
EXTENDS PageEdits, BTreeNode_proof, FiniteSetTheorems

(* The byte strings. *)
Strings == Seq(Nat)

(* Two strings share a prefix when they have the same bytes there.             *)
LEMMA SharedPrefix ==
  ASSUME NEW a \in Strings, NEW b \in Strings, NEW n \in Nat,
         n <= Len(a), n <= Len(b)
  PROVE  SubSeq(a, 1, n) = SubSeq(b, 1, n) <=> \A j \in 1 .. n : a[j] = b[j]
  BY SMTT(30) DEF Strings

(* memcmp finds no difference in the common length, or the first there is.     *)
LEMMA MemcmpFindsFirst ==
  ASSUME NEW a \in Strings, NEW b \in Strings
  PROVE  \/ /\ L!Memcmp(a, b) = 0
            /\ \A j \in 1 .. Len(a) : j <= Len(b) => a[j] = b[j]
         \/ \E i \in 1 .. Len(a) :
              /\ i <= Len(b) /\ a[i] # b[i]
              /\ \A j \in 1 .. i - 1 : a[j] = b[j]
              /\ L!Memcmp(a, b) = a[i] - b[i]
<1> DEFINE common == IF Len(a) < Len(b) THEN Len(a) ELSE Len(b)
           differ == {i \in 1 .. common : a[i] # b[i]}
<1>1. Len(a) \in Nat /\ Len(b) \in Nat
  BY DEF Strings
<1>2. L!Memcmp(a, b) = IF differ = {} THEN 0 ELSE a[Min(differ)] - b[Min(differ)]
  BY DEF L!Memcmp, L!Min, Min
<1>3. CASE differ = {}
  BY <1>1, <1>2, <1>3
<1>4. CASE differ # {}
  <2>1. differ \in SUBSET Nat
    BY <1>1
  <2>2. Min(differ) \in differ /\ \A x \in differ : Min(differ) <= x
    BY <1>4, <2>1, MinIsLeast
  <2> DEFINE i == Min(differ)
  <2>3. i \in 1 .. Len(a) /\ i <= Len(b) /\ a[i] # b[i] /\ i <= common
    BY <1>1, <2>2
  <2>4. ASSUME NEW j \in 1 .. i - 1 PROVE a[j] = b[j]
    <3>1. j \in 1 .. common /\ j < i
      BY <1>1, <2>3
    <3>2. j \notin differ
      BY <1>1, <2>2, <2>3, <3>1
    <3> QED
      BY <3>1, <3>2
  <2> QED
    BY <1>2, <1>4, <2>3, <2>4
<1> QED
  BY <1>3, <1>4

(* Precedes, spelt out: b goes on where a ends, or has the greater byte at the *)
(* first place where the two differ.                                           *)
LEMMA PrecedesAtFirst ==
  ASSUME NEW a \in Strings, NEW b \in Strings
  PROVE  L!Precedes(a, b) <=>
           \/ Len(a) < Len(b) /\ \A j \in 1 .. Len(a) : a[j] = b[j]
           \/ \E i \in 1 .. Len(a) :
                /\ i <= Len(b) /\ a[i] < b[i]
                /\ \A j \in 1 .. i - 1 : a[j] = b[j]
<1> USE LenProperties DEF Strings
<1>1. Len(a) < Len(b) =>
        (SubSeq(b, 1, Len(a)) = a <=> \A j \in 1 .. Len(a) : a[j] = b[j])
  <2> SUFFICES ASSUME Len(a) < Len(b)
               PROVE  SubSeq(b, 1, Len(a)) = a <=> \A j \in 1 .. Len(a) : a[j] = b[j]
    OBVIOUS
  <2>1. SubSeq(a, 1, Len(a)) = a
    OBVIOUS
  <2> QED
    BY <2>1, SharedPrefix
<1>2. ASSUME NEW i \in 1 .. Len(a), i <= Len(b)
      PROVE  SubSeq(a, 1, i - 1) = SubSeq(b, 1, i - 1)
               <=> \A j \in 1 .. i - 1 : a[j] = b[j]
  <2>1. i - 1 \in Nat /\ i - 1 <= Len(a) /\ i - 1 <= Len(b)
    BY <1>2
  <2> QED
    BY <2>1, SharedPrefix
<1> QED
  BY <1>1, <1>2 DEF L!Precedes

(* The key equality of b_select and b_delete is equality.                      *)
THEOREM SameIsEquality ==
  ASSUME NEW a \in Strings, NEW b \in Strings
  PROVE  L!Same(a, b) <=> a = b
<1> USE LenProperties DEF Strings
<1>1. ASSUME L!Same(a, b) PROVE a = b
  <2>1. ASSUME NEW i \in 1 .. Len(a), a[i] # b[i],
               L!Memcmp(a, b) = a[i] - b[i], i <= Len(b)
        PROVE  FALSE
    BY <1>1, <2>1 DEF L!Same
  <2>2. Len(a) = Len(b) /\ \A j \in 1 .. Len(a) : a[j] = b[j]
    BY SMTT(30), <1>1, <2>1, MemcmpFindsFirst DEF L!Same
  <2> QED
    BY <2>2, SeqEqual
<1>2. ASSUME a = b PROVE L!Same(a, b)
  BY <1>2, MemcmpFindsFirst DEF L!Same
<1> QED
  BY <1>1, <1>2

(* The test of redistribution and merge, which of two pages is the left one,   *)
(* is the order of a dictionary.                                               *)
THEOREM BeforeIsDictionaryOrder ==
  ASSUME NEW a \in Strings, NEW b \in Strings
  PROVE  L!Before(a, b) <=> L!Precedes(a, b)
<1> USE LenProperties DEF Strings
<1>1. CASE /\ L!Memcmp(a, b) = 0
           /\ \A j \in 1 .. Len(a) : j <= Len(b) => a[j] = b[j]
  <2>1. L!Before(a, b) <=> Len(a) < Len(b)
    BY <1>1 DEF L!Before
  <2> QED
    BY <1>1, <2>1, PrecedesAtFirst
<1>2. CASE \E i \in 1 .. Len(a) :
             /\ i <= Len(b) /\ a[i] # b[i]
             /\ \A j \in 1 .. i - 1 : a[j] = b[j]
             /\ L!Memcmp(a, b) = a[i] - b[i]
  <2>1. PICK i \in 1 .. Len(a) :
          /\ i <= Len(b) /\ a[i] # b[i]
          /\ \A j \in 1 .. i - 1 : a[j] = b[j]
          /\ L!Memcmp(a, b) = a[i] - b[i]
    BY <1>2
  <2>2. a[i] \in Nat /\ b[i] \in Nat
    BY <2>1
  <2>3. L!Before(a, b) <=> a[i] < b[i]
    BY <2>1, <2>2 DEF L!Before
  <2>4. L!Precedes(a, b) <=> a[i] < b[i]
    <3>1. ASSUME NEW m \in 1 .. Len(a), m <= Len(b), a[m] < b[m],
                 \A j \in 1 .. m - 1 : a[j] = b[j]
          PROVE  m = i
      BY <2>1, <2>2, <3>1
    <3> QED
      BY <2>1, <3>1, PrecedesAtFirst
  <2> QED
    BY <2>3, <2>4
<1> QED
  BY <1>1, <1>2, MemcmpFindsFirst

(* memcmp of the strings the other way round.                                  *)
LEMMA MemcmpTurned ==
  ASSUME NEW a \in Strings, NEW b \in Strings
  PROVE  \E d \in Int : L!Memcmp(a, b) = d /\ L!Memcmp(b, a) = 0 - d
<1> USE LenProperties DEF Strings
<1>1. CASE /\ L!Memcmp(a, b) = 0
           /\ \A j \in 1 .. Len(a) : j <= Len(b) => a[j] = b[j]
  <2>1. ~ \E i \in 1 .. Len(b) : i <= Len(a) /\ b[i] # a[i]
    BY <1>1
  <2>2. L!Memcmp(b, a) = 0
    BY <2>1, MemcmpFindsFirst
  <2> QED
    BY <1>1, <2>2
<1>2. CASE \E i \in 1 .. Len(a) :
             /\ i <= Len(b) /\ a[i] # b[i]
             /\ \A j \in 1 .. i - 1 : a[j] = b[j]
             /\ L!Memcmp(a, b) = a[i] - b[i]
  <2>1. PICK i \in 1 .. Len(a) :
          /\ i <= Len(b) /\ a[i] # b[i]
          /\ \A j \in 1 .. i - 1 : a[j] = b[j]
          /\ L!Memcmp(a, b) = a[i] - b[i]
    BY <1>2
  <2>2. a[i] \in Nat /\ b[i] \in Nat /\ i \in 1 .. Len(b) /\ i <= Len(a)
    BY <2>1
  <2>3. PICK m \in 1 .. Len(b) :
          /\ m <= Len(a) /\ b[m] # a[m]
          /\ \A j \in 1 .. m - 1 : b[j] = a[j]
          /\ L!Memcmp(b, a) = b[m] - a[m]
    BY <2>1, <2>2, MemcmpFindsFirst
  <2>4. m = i
    BY <2>1, <2>2, <2>3
  <2> QED
    BY <2>1, <2>2, <2>3, <2>4
<1> QED
  BY <1>1, <1>2, MemcmpFindsFirst

(* The test of bt_search and find_pos is the same order, from the other side.  *)
THEOREM GreaterIsDictionaryOrder ==
  ASSUME NEW a \in Strings, NEW b \in Strings
  PROVE  L!Greater(a, b) <=> L!Precedes(b, a)
<1>1. Len(a) \in Nat /\ Len(b) \in Nat
  BY DEF Strings
<1>2. PICK d \in Int : L!Memcmp(a, b) = d /\ L!Memcmp(b, a) = 0 - d
  BY MemcmpTurned
<1>3. L!Greater(a, b) <=> L!Before(b, a)
  BY <1>1, <1>2 DEF L!Greater, L!Before
<1> QED
  BY <1>3, BeforeIsDictionaryOrder

(* Of two keys that differ exactly one comes first, and of equal ones none: a  *)
(* page never holds a key twice because two comparisons disagree.              *)
THEOREM OrderIsTotal ==
  ASSUME NEW a \in Strings, NEW b \in Strings
  PROVE  /\ ~(L!Greater(a, b) /\ L!Greater(b, a))
         /\ a # b <=> L!Greater(a, b) \/ L!Greater(b, a)
<1>1. Len(a) \in Nat /\ Len(b) \in Nat
  BY DEF Strings
<1>2. L!Same(a, b) <=> a = b
  BY SameIsEquality
<1>3. PICK d \in Int : L!Memcmp(a, b) = d /\ L!Memcmp(b, a) = 0 - d
  BY MemcmpTurned
<1> QED
  BY <1>1, <1>2, <1>3 DEF L!Greater, L!Same

(* The order is transitive, which a search that skips pages relies on.         *)
THEOREM OrderIsTransitive ==
  ASSUME NEW a \in Strings, NEW b \in Strings, NEW c \in Strings,
         L!Greater(a, b), L!Greater(b, c)
  PROVE  L!Greater(a, c)
<1> USE LenProperties DEF Strings
<1>1. L!Precedes(c, b) /\ L!Precedes(b, a)
  BY GreaterIsDictionaryOrder
<1> DEFINE Prefix(x, y) == Len(x) < Len(y) /\ \A j \in 1 .. Len(x) : x[j] = y[j]
           Splits(x, y, i) == /\ i <= Len(y) /\ x[i] < y[i]
                              /\ \A j \in 1 .. i - 1 : x[j] = y[j]
<1>2. CASE Prefix(c, b) /\ Prefix(b, a)
  <2>1. Prefix(c, a)
    BY <1>2
  <2> QED
    BY <2>1, PrecedesAtFirst, GreaterIsDictionaryOrder
<1>3. ASSUME NEW i \in 1 .. Len(b), Splits(b, a, i), Prefix(c, b) PROVE L!Greater(a, c)
  <2>1. CASE i <= Len(c)
    <3>1. i \in 1 .. Len(c) /\ Splits(c, a, i)
      BY <1>3, <2>1
    <3> QED
      BY <3>1, PrecedesAtFirst, GreaterIsDictionaryOrder
  <2>2. CASE i > Len(c)
    <3>1. Prefix(c, a)
      BY <1>3, <2>2
    <3> QED
      BY <3>1, PrecedesAtFirst, GreaterIsDictionaryOrder
  <2> QED
    BY <2>1, <2>2
<1>4. ASSUME NEW i \in 1 .. Len(c), Splits(c, b, i), Prefix(b, a) PROVE L!Greater(a, c)
  <2>1. Splits(c, a, i)
    BY <1>4
  <2> QED
    BY <2>1, PrecedesAtFirst, GreaterIsDictionaryOrder
<1>5. ASSUME NEW i \in 1 .. Len(c), Splits(c, b, i),
             NEW m \in 1 .. Len(b), Splits(b, a, m)
      PROVE  L!Greater(a, c)
  <2>1. PICK n \in 1 .. Len(c) : Splits(c, a, n)
    <3>1. CASE i <= m
      <4>1. i \in 1 .. Len(b) /\ i \in 1 .. Len(a)
        BY <1>5, <3>1
      <4>2. a[i] \in Nat /\ b[i] \in Nat /\ c[i] \in Nat
        BY <4>1
      <4>3. c[i] < b[i] /\ b[i] <= a[i]
        <5>1. CASE i = m
          BY <1>5, <4>2, <5>1
        <5>2. CASE i # m
          <6>1. i \in 1 .. m - 1
            BY <3>1, <5>2
          <6> QED
            BY <1>5, <4>2, <6>1
        <5> QED
          BY <5>1, <5>2
      <4>4. c[i] < a[i] /\ i <= Len(a)
        BY SMTT(30), <4>1, <4>2, <4>3
      <4>5. ASSUME NEW j \in 1 .. i - 1 PROVE c[j] = a[j]
        <5>1. j \in 1 .. m - 1
          BY <3>1
        <5> QED
          BY <1>5, <5>1
      <4> QED
        BY <4>4, <4>5
    <3>2. CASE m < i
      <4>1. m \in 1 .. Len(c) /\ Splits(c, a, m)
        BY SMTT(30), <1>5, <3>2
      <4> QED
        BY <4>1
    <3> QED
      BY <3>1, <3>2
  <2> QED
    BY <2>1, PrecedesAtFirst, GreaterIsDictionaryOrder
<1> QED
  BY <1>1, <1>2, <1>3, <1>4, <1>5, PrecedesAtFirst

(* Keys may be taken for their places in a dictionary, as BTree does: in each  *)
(* comparison of the code the numbers compare as the byte strings do.          *)
THEOREM KeysAreNumbers ==
  ASSUME NEW i \in Keys, NEW j \in Keys
  PROVE  /\ L!Greater(Bytes[i], Bytes[j]) <=> i > j
         /\ L!Same(Bytes[i], Bytes[j]) <=> i = j
         /\ L!Before(Bytes[i], Bytes[j]) <=> i < j
<1>0. /\ i \in Int /\ j \in Int /\ Bytes[i] \in Strings /\ Bytes[j] \in Strings
      /\ i < j <=> L!Precedes(Bytes[i], Bytes[j])
      /\ j < i <=> L!Precedes(Bytes[j], Bytes[i])
  BY PageEditsAssumption, ElementOfSeq DEF Strings
<1>1. L!Greater(Bytes[i], Bytes[j]) <=> i > j
  BY <1>0, GreaterIsDictionaryOrder
<1>2. L!Greater(Bytes[j], Bytes[i]) <=> j > i
  BY <1>0, GreaterIsDictionaryOrder
<1>3. L!Before(Bytes[i], Bytes[j]) <=> i < j
  BY <1>0, BeforeIsDictionaryOrder
<1>4. L!Same(Bytes[i], Bytes[j]) <=> Bytes[i] = Bytes[j]
  BY <1>0, SameIsEquality
<1>5. Bytes[i] # Bytes[j] <=> L!Greater(Bytes[i], Bytes[j]) \/ L!Greater(Bytes[j], Bytes[i])
  BY <1>0, OrderIsTotal
<1> QED
  BY <1>0, <1>1, <1>2, <1>3, <1>4, <1>5

-------------------------------------------------------------------------------
(* How many bytes some strings have *)

(* Induction, over the set of the numbers for which something holds.           *)
LEMMA AllNumbers ==
  ASSUME NEW S \in SUBSET Nat, 0 \in S, \A i \in S : i + 1 \in S
  PROVE  S = Nat
<1>1. SUFFICES ASSUME Nat \ S # {} PROVE FALSE
  OBVIOUS
<1>2. Min(Nat \ S) \in Nat \ S /\ \A x \in Nat \ S : Min(Nat \ S) <= x
  BY <1>1, MinIsLeast
<1> DEFINE m == Min(Nat \ S)
<1> HIDE DEF m
<1>3. m \in Nat /\ m \notin S /\ \A x \in Nat \ S : m <= x
  BY <1>2 DEF m
<1>4. m # 0 /\ m - 1 \in Nat
  BY <1>3
<1>5. m - 1 \in S
  BY <1>3, <1>4
<1>6. (m - 1) + 1 = m
  BY <1>3
<1> QED
  BY <1>3, <1>5, <1>6

(* The bytes of the first strings are numbered by string and place.            *)
PlacesOf(s, i) == UNION {{j} \X (1 .. Len(s[j])) : j \in 1 .. i}

(* The bytes of one more string.                                               *)
LEMMA PlacesGrow ==
  ASSUME NEW s, NEW i \in Nat, Len(s[i + 1]) \in Nat
  PROVE  LET new == {i + 1} \X (1 .. Len(s[i + 1]))
         IN  /\ PlacesOf(s, i + 1) = PlacesOf(s, i) \union new
             /\ PlacesOf(s, i) \intersect new = {}
             /\ IsFiniteSet(new) /\ Cardinality(new) = Len(s[i + 1])
<1> DEFINE new == {i + 1} \X (1 .. Len(s[i + 1]))
<1>1. 1 .. i + 1 = (1 .. i) \union {i + 1}
  OBVIOUS
<1>2. PlacesOf(s, i + 1) = PlacesOf(s, i) \union new
  BY <1>1 DEF PlacesOf
<1>3. PlacesOf(s, i) \intersect new = {}
  <2>1. ASSUME NEW x \in PlacesOf(s, i), x \in new PROVE FALSE
    <3>1. PICK j \in 1 .. i : x \in {j} \X (1 .. Len(s[j]))
      BY DEF PlacesOf
    <3>2. x[1] = j /\ x[1] = i + 1
      BY <2>1, <3>1
    <3> QED
      BY <3>2
  <2> QED
    BY <2>1
<1> DEFINE c == Len(s[i + 1])
           one == {i + 1}
           all == 1 .. c
<1>4. IsFiniteSet(all) /\ Cardinality(all) = c
  <2> HIDE DEF c
  <2>1. c \in Nat
    BY DEF c
  <2>2. /\ IsFiniteSet(1 .. c)
        /\ Cardinality(1 .. c) = IF 1 > c THEN 0 ELSE c - 1 + 1
    <3>1. c \in Int /\ 1 \in Int
      BY <2>1
    <3> QED
      BY <3>1, FS_Interval, Zenon
  <2> QED
    BY <2>1, <2>2
<1>5. IsFiniteSet(one) /\ Cardinality(one) = 1
  BY FS_Singleton
<1>6. IsFiniteSet(new) /\ Cardinality(new) = Len(s[i + 1])
  <2>1. new = one \X all
    OBVIOUS
  <2> HIDE DEF new, one, all
  <2>2. IsFiniteSet(one \X all) /\ Cardinality(one \X all) = Cardinality(one) * Cardinality(all)
    BY <1>4, <1>5, FS_Product
  <2>3. 1 * c = c
    OBVIOUS
  <2> QED
    BY <1>4, <1>5, <2>1, <2>2, <2>3
<1> QED
  BY <1>2, <1>3, <1>6

(* Strings have finitely many bytes.                                           *)
LEMMA PlacesFinite ==
  ASSUME NEW s, NEW m \in Nat, \A i \in 1 .. m : Len(s[i]) \in Nat, NEW i \in 0 .. m
  PROVE  IsFiniteSet(PlacesOf(s, i))
<1> DEFINE S == {j \in Nat : j <= m => IsFiniteSet(PlacesOf(s, j))}
<1>1. 0 \in S
  <2>1. PlacesOf(s, 0) = {}
    BY DEF PlacesOf
  <2> QED
    BY <2>1, FS_EmptySet
<1>2. ASSUME NEW j \in S PROVE j + 1 \in S
  <2>1. SUFFICES ASSUME j + 1 <= m PROVE IsFiniteSet(PlacesOf(s, j + 1))
    OBVIOUS
  <2>2. Len(s[j + 1]) \in Nat /\ IsFiniteSet(PlacesOf(s, j))
    BY <2>1
  <2> DEFINE new == {j + 1} \X (1 .. Len(s[j + 1]))
  <2>3. PlacesOf(s, j + 1) = PlacesOf(s, j) \union new /\ IsFiniteSet(new)
    BY <2>2, PlacesGrow
  <2> HIDE DEF new
  <2> QED
    <3>1. IsFiniteSet(PlacesOf(s, j) \union new)
      BY <2>2, <2>3, FS_Union
    <3> QED
      BY <2>3, <3>1, Zenon
<1>3. S = Nat
  BY <1>1, <1>2, AllNumbers
<1> QED
  BY <1>3

(* The bytes of the first i strings, and of one more.                          *)
LEMMA FirstTotalStep ==
  ASSUME NEW s, NEW m \in Nat, \A i \in 1 .. m : Len(s[i]) \in Nat
  PROVE  /\ FirstTotal(s, 0) = 0
         /\ \A i \in 0 .. m : FirstTotal(s, i) \in Nat
         /\ \A i \in 1 .. m : FirstTotal(s, i) = FirstTotal(s, i - 1) + Len(s[i])
<1>1. \A i \in 0 .. m : FirstTotal(s, i) = Cardinality(PlacesOf(s, i))
  BY DEF FirstTotal, PlacesOf
<1>2. PlacesOf(s, 0) = {}
  BY DEF PlacesOf
<1>3. ASSUME NEW i \in 1 .. m
      PROVE  FirstTotal(s, i) = FirstTotal(s, i - 1) + Len(s[i])
  <2> DEFINE h == i - 1
             new == {h + 1} \X (1 .. Len(s[h + 1]))
  <2>1. h \in Nat /\ h \in 0 .. m /\ h + 1 = i /\ Len(s[h + 1]) \in Nat
    OBVIOUS
  <2>2. /\ PlacesOf(s, h + 1) = PlacesOf(s, h) \union new
        /\ PlacesOf(s, h) \intersect new = {}
        /\ IsFiniteSet(new) /\ Cardinality(new) = Len(s[h + 1])
    BY <2>1, PlacesGrow
  <2>3. IsFiniteSet(PlacesOf(s, h))
    BY <2>1, PlacesFinite
  <2> HIDE DEF new
  <2>4. Cardinality(PlacesOf(s, h + 1)) = Cardinality(PlacesOf(s, h)) + Len(s[h + 1]) - 0
    <3>1. Cardinality({}) = 0
      BY FS_EmptySet
    <3>2. Cardinality(PlacesOf(s, h) \union new)
            = Cardinality(PlacesOf(s, h)) + Cardinality(new) - Cardinality(PlacesOf(s, h) \intersect new)
      BY <2>2, <2>3, FS_Union
    <3> QED
      BY <2>2, <3>1, <3>2
  <2> HIDE DEF h
  <2>5. Cardinality(PlacesOf(s, h)) \in Nat /\ Len(s[i]) \in Nat
    BY <2>3, FS_CardinalityType
  <2> QED
    BY <1>1, <2>1, <2>4, <2>5 DEF h
<1>4. ASSUME NEW i \in 0 .. m PROVE FirstTotal(s, i) \in Nat
  BY <1>1, PlacesFinite, FS_CardinalityType
<1>5. Cardinality({}) = 0
  BY FS_EmptySet
<1>6. FirstTotal(s, 0) = 0
  <2>1. 0 \in 0 .. m
    OBVIOUS
  <2> QED
    BY <1>1, <1>2, <1>5, <2>1, Zenon
<1> QED
  BY <1>3, <1>4, <1>6

(* More strings have no fewer bytes.                                           *)
LEMMA FirstTotalGrows ==
  ASSUME NEW s, NEW m \in Nat, \A i \in 1 .. m : Len(s[i]) \in Nat,
         NEW i \in 0 .. m, NEW j \in i .. m
  PROVE  FirstTotal(s, i) <= FirstTotal(s, j)
<1>1. PlacesOf(s, i) \in SUBSET PlacesOf(s, j)
  BY DEF PlacesOf
<1>2. IsFiniteSet(PlacesOf(s, j))
  BY PlacesFinite
<1> QED
  BY <1>1, <1>2, FS_Subset DEF FirstTotal, PlacesOf

(* Strings of at most c bytes each.                                            *)
LEMMA FirstTotalBounded ==
  ASSUME NEW s, NEW m \in Nat, NEW c \in Nat,
         \A i \in 1 .. m : Len(s[i]) \in Nat /\ Len(s[i]) <= c
  PROVE  FirstTotal(s, m) <= m * c
<1> DEFINE S == {i \in Nat : i <= m => FirstTotal(s, i) <= i * c}
<1>1. /\ FirstTotal(s, 0) = 0
      /\ \A i \in 0 .. m : FirstTotal(s, i) \in Nat
      /\ \A i \in 1 .. m : FirstTotal(s, i) = FirstTotal(s, i - 1) + Len(s[i])
  BY FirstTotalStep
<1>2. 0 \in S
  BY <1>1
<1>3. ASSUME NEW i \in S PROVE i + 1 \in S
  <2>1. SUFFICES ASSUME i + 1 <= m PROVE FirstTotal(s, i + 1) <= (i + 1) * c
    OBVIOUS
  <2>2. /\ i \in 0 .. m /\ i + 1 \in 1 .. m /\ (i + 1) - 1 = i
        /\ FirstTotal(s, i) <= i * c /\ (i + 1) * c = i * c + c /\ i * c \in Nat
    BY <2>1
  <2>3. /\ FirstTotal(s, i) \in Nat /\ Len(s[i + 1]) \in Nat /\ Len(s[i + 1]) <= c
        /\ FirstTotal(s, i + 1) = FirstTotal(s, i) + Len(s[i + 1])
    BY <1>1, <2>2
  <2> QED
    BY <2>2, <2>3
<1>4. S = Nat
  BY <1>2, <1>3, AllNumbers
<1> QED
  BY <1>4

-------------------------------------------------------------------------------
(* Where the keys and the values of a node are *)

(* A node whose keys, values and links are in number what its kind asks for; a *)
(* place that holds no page has none.                                          *)
Shaped(n) ==
  /\ n \in Node
  /\ IsLeaf(n) => Len(n.vals) = Size(n)
  /\ ~IsLeaf(n) => Len(n.links) \in 0 .. Size(n) + 1

(* What the keys and the values of a node are.                                 *)
LEMMA StringsOf ==
  ASSUME NEW n, Shaped(n)
  PROVE  /\ Size(n) \in Nat /\ L!Room \in Nat
         /\ \A i \in 1 .. Size(n) :
              /\ n.keys[i] \in Keys /\ KeyStrings(n)[i] = Bytes[n.keys[i]]
              /\ KeyStrings(n)[i] \in Strings /\ Len(KeyStrings(n)[i]) \in Nat
              /\ IsLeaf(n) => n.vals[i] \in Strings /\ Len(n.vals[i]) \in Nat
<1>1. Size(n) \in Nat /\ DOMAIN n.keys = 1 .. Size(n)
  BY DEF Shaped, Node, Size
<1>2. L!Room \in Nat
  BY PageEditsAssumption DEF L!Room
<1>3. \A k \in Keys : Bytes[k] \in Strings /\ Len(Bytes[k]) \in Nat
  BY PageEditsAssumption, ElementOfSeq DEF Strings
<1>4. ASSUME NEW i \in 1 .. Size(n), IsLeaf(n)
      PROVE  n.vals[i] \in Strings /\ Len(n.vals[i]) \in Nat
  BY <1>4, PageEditsAssumption DEF Shaped, Node, Strings
<1>5. ASSUME NEW i \in 1 .. Size(n) PROVE n.keys[i] \in Keys
  BY <1>1 DEF Shaped, Node, Size
<1> QED
  BY <1>1, <1>2, <1>3, <1>4, <1>5 DEF KeyStrings

(* Each key starts behind the one before it and what follows that one.         *)
LEMMA KeyStarts ==
  ASSUME NEW n, Shaped(n)
  PROVE  /\ KeyStart(n, 1) = 12 + 4 * Size(n) + (IF IsLeaf(n) THEN 0 ELSE 4)
         /\ \A i \in 1 .. Size(n) + 1 : KeyStart(n, i) \in Nat
         /\ \A i \in 1 .. Size(n) :
              KeyStart(n, i + 1) = KeyStart(n, i) + 8 + Len(KeyStrings(n)[i])
         /\ \A i, j \in 1 .. Size(n) + 1 :
              i < j => KeyStart(n, i) + 8 <= KeyStart(n, j)
         /\ \A i \in 1 .. Size(n), j \in 1 .. Size(n) + 1 :
              i < j => KeyStart(n, i) + 8 + Len(KeyStrings(n)[i]) <= KeyStart(n, j)
<1> DEFINE s == KeyStrings(n)
           N == Size(n)
<1>1. N \in Nat /\ \A i \in 1 .. N : Len(s[i]) \in Nat
  BY StringsOf
<1> HIDE DEF s, N
<1>2. /\ FirstTotal(s, 0) = 0
      /\ \A i \in 0 .. N : FirstTotal(s, i) \in Nat
      /\ \A i \in 1 .. N : FirstTotal(s, i) = FirstTotal(s, i - 1) + Len(s[i])
  BY <1>1, FirstTotalStep
<1>3. \A i \in 1 .. N + 1 :
        KeyStart(n, i) = 12 + 4 * N + (IF IsLeaf(n) THEN 0 ELSE 4)
                           + 8 * (i - 1) + FirstTotal(s, i - 1)
  BY DEF KeyStart, s, N
<1>4. KeyStart(n, 1) = 12 + 4 * N + (IF IsLeaf(n) THEN 0 ELSE 4)
  BY <1>1, <1>2, <1>3
<1>5. ASSUME NEW i \in 1 .. N + 1 PROVE KeyStart(n, i) \in Nat
  <2>1. i - 1 \in 0 .. N
    BY <1>1
  <2> QED
    BY <1>1, <1>2, <1>3, <2>1
<1>6. ASSUME NEW i \in 1 .. N
      PROVE  KeyStart(n, i + 1) = KeyStart(n, i) + 8 + Len(s[i])
  <2>1. /\ i \in 1 .. N + 1 /\ i + 1 \in 1 .. N + 1 /\ i - 1 \in 0 .. N /\ i \in 0 .. N
        /\ (i + 1) - 1 = i /\ 8 * i = 8 * (i - 1) + 8
    BY <1>1
  <2> QED
    BY <1>1, <1>2, <1>3, <2>1
<1>7. ASSUME NEW i \in 1 .. N, NEW j \in 1 .. N + 1, i < j
      PROVE  KeyStart(n, i) + 8 + Len(s[i]) <= KeyStart(n, j)
  <2>1. /\ i + 1 \in 1 .. N + 1 /\ i \in 0 .. N /\ j - 1 \in i .. N /\ j - 1 \in 0 .. N
        /\ (i + 1) - 1 = i /\ 8 * i <= 8 * (j - 1)
    BY <1>1, <1>7
  <2>2. FirstTotal(s, i) <= FirstTotal(s, j - 1)
    BY <1>1, <2>1, FirstTotalGrows
  <2>3. KeyStart(n, i + 1) <= KeyStart(n, j)
    BY <1>1, <1>2, <1>3, <2>1, <2>2
  <2> QED
    BY <1>6, <2>3
<1>8. ASSUME NEW i \in 1 .. N + 1, NEW j \in 1 .. N + 1, i < j
      PROVE  KeyStart(n, i) + 8 <= KeyStart(n, j)
  <2>1. i \in 1 .. N
    BY <1>1, <1>8
  <2> QED
    BY <1>1, <1>5, <1>7, <1>8, <2>1
<1> QED
  BY <1>4, <1>5, <1>6, <1>7, <1>8 DEF s, N

(* Each value starts in front of the one before it.                            *)
LEMMA ValueStarts ==
  ASSUME NEW n, Shaped(n), IsLeaf(n)
  PROVE  /\ ValueStart(n, 0) = L!Room
         /\ \A i \in 0 .. Size(n) : ValueStart(n, i) \in Int
         /\ \A i \in 1 .. Size(n) :
              ValueStart(n, i) = ValueStart(n, i - 1) - (4 + Len(n.vals[i]))
         /\ \A i, j \in 0 .. Size(n) : i <= j => ValueStart(n, j) <= ValueStart(n, i)
<1> DEFINE s == n.vals
           N == Size(n)
<1>1. N \in Nat /\ L!Room \in Nat /\ \A i \in 1 .. N : Len(s[i]) \in Nat
  BY StringsOf
<1> HIDE DEF s, N
<1>2. /\ FirstTotal(s, 0) = 0
      /\ \A i \in 0 .. N : FirstTotal(s, i) \in Nat
      /\ \A i \in 1 .. N : FirstTotal(s, i) = FirstTotal(s, i - 1) + Len(s[i])
  BY <1>1, FirstTotalStep
<1>3. \A i \in 0 .. N : ValueStart(n, i) = L!Room - 4 * i - FirstTotal(s, i)
  BY DEF ValueStart, s, N
<1>4. ASSUME NEW i \in 0 .. N, NEW j \in 0 .. N, i <= j
      PROVE  ValueStart(n, j) <= ValueStart(n, i)
  <2>1. FirstTotal(s, i) <= FirstTotal(s, j)
    <3>1. j \in i .. N
      BY <1>1, <1>4
    <3> QED
      BY <1>1, <3>1, FirstTotalGrows
  <2> QED
    BY <1>1, <1>2, <1>3, <1>4, <2>1
<1>5. ASSUME NEW i \in 1 .. N
      PROVE  ValueStart(n, i) = ValueStart(n, i - 1) - (4 + Len(s[i]))
  <2>1. i \in 0 .. N /\ i - 1 \in 0 .. N /\ 4 * i = 4 * (i - 1) + 4
    BY <1>1
  <2> QED
    BY <1>1, <1>2, <1>3, <2>1
<1>6. ASSUME NEW i \in 0 .. N PROVE ValueStart(n, i) \in Int
  BY <1>1, <1>2, <1>3
<1>7. ValueStart(n, 0) = L!Room
  BY <1>1, <1>2, <1>3
<1> QED
  BY <1>4, <1>5, <1>6, <1>7 DEF s, N

-------------------------------------------------------------------------------
(* The items of a page do not overlap *)

(* Items that start and end between two offsets, and overlap nowhere.          *)
Zone(A, lo, hi) ==
  /\ \A x \in A : /\ x[1] \in Int /\ x[2].len \in Nat \ {0}
                  /\ lo <= x[1] /\ x[1] + x[2].len <= hi
  /\ \A x, y \in A : x = y \/ x[1] + x[2].len <= y[1] \/ y[1] + y[2].len <= x[1]

(* Two zones, one behind the other, make one.                                  *)
LEMMA ZonesJoin ==
  ASSUME NEW A, NEW B, NEW a \in Int, NEW b \in Int, NEW c \in Int, NEW d \in Int,
         Zone(A, a, b), Zone(B, c, d), a <= c, b <= c, b <= d
  PROVE  Zone(A \union B, a, d)
<1>1. ASSUME NEW x \in A \union B
      PROVE  /\ x[1] \in Int /\ x[2].len \in Nat \ {0}
             /\ a <= x[1] /\ x[1] + x[2].len <= d
  BY DEF Zone
<1>2. ASSUME NEW x \in A, NEW y \in B PROVE x[1] + x[2].len <= y[1]
  BY DEF Zone
<1>3. ASSUME NEW x \in A \union B, NEW y \in A \union B
      PROVE  x = y \/ x[1] + x[2].len <= y[1] \/ y[1] + y[2].len <= x[1]
  BY <1>2 DEF Zone
<1> QED
  BY <1>1, <1>3 DEF Zone

(* Words and strings have a length.                                            *)
LEMMA ItemLengths ==
  /\ \A x : L!Word(x).len = 4 /\ L!Short(x).len = 2
  /\ \A b \in Strings : L!Entry(b).len = 4 + Len(b) /\ Len(b) \in Nat
  BY DEF L!Word, L!Short, L!Entry, Strings

(* The header is in front, the offsets of the keys are behind it ...           *)
LEMMA HeaderZone ==
  ASSUME NEW n
  PROVE  Zone(Header(n), 0, 12)
  BY ItemLengths DEF Zone, Header

LEMMA SlotsZone ==
  ASSUME NEW n, Shaped(n)
  PROVE  Zone(Slots(n), 12, 12 + 4 * Size(n))
<1>1. Size(n) \in Nat
  BY StringsOf
<1>2. ASSUME NEW x \in Slots(n)
      PROVE  \E i \in 1 .. Size(n) : x = <<8 + 4 * i, L!Word(KeyStart(n, i))>>
                                       /\ x[1] = 8 + 4 * i /\ x[2].len = 4
  BY ItemLengths DEF Slots
<1>3. ASSUME NEW i \in 1 .. Size(n)
      PROVE  /\ 8 + 4 * i \in Int /\ 12 <= 8 + 4 * i
             /\ 8 + 4 * i + 4 <= 12 + 4 * Size(n)
  BY <1>1
<1>4. ASSUME NEW i \in 1 .. Size(n), NEW j \in 1 .. Size(n)
      PROVE  i = j \/ 8 + 4 * i + 4 <= 8 + 4 * j \/ 8 + 4 * j + 4 <= 8 + 4 * i
  BY <1>1
<1>5. ASSUME NEW x \in Slots(n)
      PROVE  /\ x[1] \in Int /\ x[2].len \in Nat \ {0}
             /\ 12 <= x[1] /\ x[1] + x[2].len <= 12 + 4 * Size(n)
  BY <1>2, <1>3
<1>6. ASSUME NEW x \in Slots(n), NEW y \in Slots(n)
      PROVE  x = y \/ x[1] + x[2].len <= y[1] \/ y[1] + y[2].len <= x[1]
  <2>1. PICK i \in 1 .. Size(n) : x = <<8 + 4 * i, L!Word(KeyStart(n, i))>>
                                    /\ x[1] = 8 + 4 * i /\ x[2].len = 4
    BY <1>2
  <2>2. PICK j \in 1 .. Size(n) : y = <<8 + 4 * j, L!Word(KeyStart(n, j))>>
                                    /\ y[1] = 8 + 4 * j /\ y[2].len = 4
    BY <1>2
  <2>3. i = j => x = y
    BY <2>1, <2>2
  <2> QED
    BY <1>4, <2>1, <2>2, <2>3
<1> QED
  BY <1>5, <1>6 DEF Zone

(* The keys of a leaf, each with the place of its value behind it.             *)
LeafKeys(n) ==
  KeyItems(n) \union
    {<<KeyStart(n, i + 1) - 4, L!Word(ValueStart(n, i))>> : i \in 1 .. Size(n)}

LeafValues(n) == {<<ValueStart(n, i), L!Entry(n.vals[i])>> : i \in 1 .. Size(n)}

(* ... and the keys of a leaf behind those.                                    *)
LEMMA LeafKeysZone ==
  ASSUME NEW n, Shaped(n), IsLeaf(n)
  PROVE  Zone(LeafKeys(n), KeyStart(n, 1), Begining(n))
<1> DEFINE N == Size(n)
           K(i) == KeyStart(n, i)
           c(i) == Len(KeyStrings(n)[i])
           IsKey(x, i) == x = <<K(i), L!Entry(KeyStrings(n)[i])>>
                            /\ x[1] = K(i) /\ x[2].len = 4 + c(i)
           IsPlace(x, i) == x = <<K(i + 1) - 4, L!Word(ValueStart(n, i))>>
                              /\ x[1] = K(i + 1) - 4 /\ x[2].len = 4
<1>1. N \in Nat /\ \A i \in 1 .. N : c(i) \in Nat /\ KeyStrings(n)[i] \in Strings
  BY StringsOf
<1>2. ASSUME NEW x \in LeafKeys(n)
      PROVE  \E i \in 1 .. N : IsKey(x, i) \/ IsPlace(x, i)
  BY <1>1, ItemLengths DEF LeafKeys, KeyItems
<1>3. \A i \in 1 .. N + 1 : K(i) \in Nat
  BY KeyStarts
<1>4. \A i \in 1 .. N : K(i + 1) = K(i) + 8 + c(i) /\ K(i + 1) <= K(N + 1) /\ K(1) <= K(i)
                          /\ i \in 1 .. N + 1 /\ i + 1 \in 1 .. N + 1
  <2>1. ASSUME NEW i \in 1 .. N PROVE K(i + 1) <= K(N + 1) /\ K(1) <= K(i)
    <3>1. /\ i + 1 \in 1 .. N + 1 /\ N + 1 \in 1 .. N + 1 /\ 1 \in 1 .. N + 1
          /\ i \in 1 .. N + 1
      BY <1>1
    <3>2. \A a, b \in 1 .. N + 1 : a < b => K(a) + 8 <= K(b)
      BY KeyStarts
    <3>3. K(i) \in Nat /\ K(i + 1) \in Nat /\ K(N + 1) \in Nat /\ K(1) \in Nat
      BY <1>3, <3>1
    <3> HIDE DEF K
    <3>4. i + 1 = N + 1 \/ i + 1 < N + 1
      BY <1>1
    <3>5. i = 1 \/ 1 < i
      BY <1>1
    <3> QED
      BY <3>1, <3>2, <3>3, <3>4, <3>5
  <2> QED
    BY <1>1, <2>1, KeyStarts
<1>5. \A i, j \in 1 .. N : i < j => K(i + 1) <= K(j)
  <2>1. ASSUME NEW i \in 1 .. N, NEW j \in 1 .. N, i < j PROVE K(i) + 8 + c(i) <= K(j)
    BY <1>1, <2>1, KeyStarts
  <2> QED
    BY <1>4, <2>1
<1> HIDE DEF K, c
<1>6. ASSUME NEW x \in LeafKeys(n)
      PROVE  /\ x[1] \in Int /\ x[2].len \in Nat \ {0}
             /\ K(1) <= x[1] /\ x[1] + x[2].len <= K(N + 1)
  <2>1. PICK i \in 1 .. N : IsKey(x, i) \/ IsPlace(x, i)
    BY <1>2
  <2>2. K(i) \in Nat /\ K(i + 1) \in Nat /\ c(i) \in Nat /\ K(1) \in Nat /\ K(N + 1) \in Nat
    BY <1>1, <1>3, <1>4, <2>1
  <2> QED
    BY <1>4, <2>1, <2>2
<1>7. ASSUME NEW x \in LeafKeys(n), NEW y \in LeafKeys(n)
      PROVE  x = y \/ x[1] + x[2].len <= y[1] \/ y[1] + y[2].len <= x[1]
  <2>1. PICK i \in 1 .. N : IsKey(x, i) \/ IsPlace(x, i)
    BY <1>2
  <2>2. PICK j \in 1 .. N : IsKey(y, j) \/ IsPlace(y, j)
    BY <1>2
  <2>3. /\ K(i) \in Nat /\ K(i + 1) \in Nat /\ c(i) \in Nat
        /\ K(j) \in Nat /\ K(j + 1) \in Nat /\ c(j) \in Nat
    BY <1>1, <1>3, <1>4
  <2>4. CASE i = j
    BY <1>4, <2>1, <2>2, <2>3, <2>4
  <2>5. CASE i < j
    BY <1>4, <1>5, <2>1, <2>2, <2>3, <2>5
  <2>6. CASE j < i
    BY <1>4, <1>5, <2>1, <2>2, <2>3, <2>6
  <2> QED
    BY <2>4, <2>5, <2>6
<1> QED
  BY <1>6, <1>7 DEF Zone, Begining, K, N

(* The keys of an inner page, with a link in front of each and one at the end. *)
LEMMA InnerZone ==
  ASSUME NEW n, Shaped(n), ~IsLeaf(n)
  PROVE  Zone(KeyItems(n) \union LinkItems(n), 12 + 4 * Size(n), Begining(n))
<1> DEFINE N == Size(n)
           K(i) == KeyStart(n, i)
           c(i) == Len(KeyStrings(n)[i])
           A == KeyItems(n) \union LinkItems(n)
           IsKey(x, i) == x = <<K(i), L!Entry(KeyStrings(n)[i])>>
                            /\ x[1] = K(i) /\ x[2].len = 4 + c(i) /\ i # N + 1
           IsLink(x, i) == x = <<K(i) - 4, L!Word(n.links[i])>>
                             /\ x[1] = K(i) - 4 /\ x[2].len = 4
<1>1. N \in Nat /\ \A i \in 1 .. N : c(i) \in Nat /\ KeyStrings(n)[i] \in Strings
  BY StringsOf
<1>2. ASSUME NEW x \in A PROVE \E i \in 1 .. N + 1 : IsKey(x, i) \/ IsLink(x, i)
  <2>1. CASE x \in KeyItems(n)
    <3>1. PICK i \in 1 .. N : x = <<K(i), L!Entry(KeyStrings(n)[i])>>
      BY <2>1 DEF KeyItems
    <3>2. i \in 1 .. N + 1 /\ i # N + 1
      BY <1>1
    <3>3. x[1] = K(i) /\ x[2].len = 4 + c(i)
      BY <1>1, <3>1, ItemLengths
    <3> QED
      BY <3>1, <3>2, <3>3
  <2>2. CASE x \in LinkItems(n)
    <3>1. PICK i \in DOMAIN n.links : x = <<K(i) - 4, L!Word(n.links[i])>>
      BY <2>2 DEF LinkItems
    <3>2. i \in 1 .. N + 1
      BY <1>1 DEF Shaped, Node
    <3>3. x[1] = K(i) - 4 /\ x[2].len = 4
      BY <3>1, ItemLengths
    <3> QED
      BY <3>1, <3>2, <3>3
  <2> QED
    BY <2>1, <2>2
<1>3. K(1) = 12 + 4 * N + 4 /\ \A i \in 1 .. N + 1 : K(i) \in Nat
  BY KeyStarts
<1>4. \A i, j \in 1 .. N + 1 : i < j => K(i) + 8 <= K(j)
  BY KeyStarts
<1>5. \A i \in 1 .. N, j \in 1 .. N + 1 : i < j => K(i) + 8 + c(i) <= K(j)
  BY KeyStarts
<1>6. 1 \in 1 .. N + 1 /\ N + 1 \in 1 .. N + 1
  BY <1>1
<1> HIDE DEF K, c, A
<1>7. ASSUME NEW x \in A
      PROVE  /\ x[1] \in Int /\ x[2].len \in Nat \ {0}
             /\ 12 + 4 * N <= x[1] /\ x[1] + x[2].len <= K(N + 1)
  <2>1. PICK i \in 1 .. N + 1 : IsKey(x, i) \/ IsLink(x, i)
    BY <1>2
  <2>2. K(i) \in Nat /\ K(1) \in Nat /\ K(N + 1) \in Nat /\ K(1) <= K(i) /\ K(i) <= K(N + 1)
    <3>1. (i = 1 \/ 1 < i) /\ (i = N + 1 \/ i < N + 1)
      BY <1>1
    <3> QED
      BY <1>3, <1>4, <1>6, <3>1
  <2>3. CASE IsKey(x, i)
    <3>1. i \in 1 .. N /\ i < N + 1
      BY <1>1, <2>3
    <3> QED
      BY <1>1, <1>3, <1>5, <1>6, <2>2, <2>3, <3>1
  <2>4. CASE IsLink(x, i)
    BY <1>1, <1>3, <2>2, <2>4
  <2> QED
    BY <2>1, <2>3, <2>4
<1>8. ASSUME NEW x \in A, NEW y \in A, NEW i \in 1 .. N + 1, NEW j \in 1 .. N + 1,
             IsKey(x, i) \/ IsLink(x, i), IsKey(y, j) \/ IsLink(y, j), i < j
      PROVE  x[1] + x[2].len <= y[1]
  <2>1. K(i) \in Nat /\ K(j) \in Nat /\ K(i) + 8 <= K(j) /\ i \in 1 .. N
    BY <1>1, <1>3, <1>4, <1>8
  <2>2. c(i) \in Nat /\ K(i) + 8 + c(i) <= K(j)
    BY <1>1, <1>5, <1>8, <2>1
  <2> QED
    BY <1>8, <2>1, <2>2
<1>9. ASSUME NEW x \in A, NEW y \in A, NEW i \in 1 .. N + 1,
             IsKey(x, i) \/ IsLink(x, i), IsKey(y, i) \/ IsLink(y, i)
      PROVE  x = y \/ x[1] + x[2].len <= y[1] \/ y[1] + y[2].len <= x[1]
  <2>1. K(i) \in Nat
    BY <1>3
  <2> QED
    BY <1>9, <2>1
<1>10. ASSUME NEW x \in A, NEW y \in A
       PROVE  x = y \/ x[1] + x[2].len <= y[1] \/ y[1] + y[2].len <= x[1]
  <2>1. PICK i \in 1 .. N + 1 : IsKey(x, i) \/ IsLink(x, i)
    BY <1>2
  <2>2. PICK j \in 1 .. N + 1 : IsKey(y, j) \/ IsLink(y, j)
    BY <1>2
  <2>3. i = j \/ i < j \/ j < i
    BY <1>1
  <2>4. CASE i = j
    BY <1>9, <2>1, <2>2, <2>4
  <2>5. CASE i < j
    BY <1>8, <2>1, <2>2, <2>5
  <2>6. CASE j < i
    BY <1>8, <2>1, <2>2, <2>6
  <2> QED
    BY <2>3, <2>4, <2>5, <2>6
<1> QED
  BY <1>7, <1>10 DEF Zone, Begining, K, N, A

(* The values end where the page does.                                         *)
LEMMA LeafValuesZone ==
  ASSUME NEW n, Shaped(n), IsLeaf(n)
  PROVE  Zone(LeafValues(n), Ending(n), L!Room)
<1> DEFINE N == Size(n)
           V(i) == ValueStart(n, i)
           c(i) == Len(n.vals[i])
           IsValue(x, i) == x = <<V(i), L!Entry(n.vals[i])>>
                              /\ x[1] = V(i) /\ x[2].len = 4 + c(i)
<1>1. N \in Nat /\ \A i \in 1 .. N : c(i) \in Nat /\ n.vals[i] \in Strings
  BY StringsOf
<1>2. ASSUME NEW x \in LeafValues(n) PROVE \E i \in 1 .. N : IsValue(x, i)
  <2>1. PICK i \in 1 .. N : x = <<V(i), L!Entry(n.vals[i])>>
    BY DEF LeafValues
  <2>2. n.vals[i] \in Strings
    BY <1>1
  <2>3. x[1] = V(i) /\ x[2].len = 4 + c(i)
    BY <2>1, <2>2, ItemLengths
  <2> QED
    BY <2>1, <2>3
<1>3. V(0) = L!Room /\ \A i \in 0 .. N : V(i) \in Int
  BY ValueStarts
<1>4. \A i \in 1 .. N : V(i) = V(i - 1) - (4 + c(i))
  BY ValueStarts
<1>5. \A i, j \in 0 .. N : i <= j => V(j) <= V(i)
  BY ValueStarts
<1> HIDE DEF V, c
<1>6. ASSUME NEW x \in LeafValues(n)
      PROVE  /\ x[1] \in Int /\ x[2].len \in Nat \ {0}
             /\ V(N) <= x[1] /\ x[1] + x[2].len <= V(0)
  <2>1. PICK i \in 1 .. N : IsValue(x, i)
    BY <1>2
  <2>2. i \in 0 .. N /\ i - 1 \in 0 .. N /\ N \in 0 .. N /\ 0 \in 0 .. N /\ i <= N /\ 0 <= i - 1
    BY <1>1
  <2>3. V(N) <= V(i) /\ V(i - 1) <= V(0)
    BY <1>5, <2>2
  <2> QED
    BY <1>1, <1>3, <1>4, <2>1, <2>2, <2>3
<1>7. ASSUME NEW i \in 1 .. N, NEW j \in 1 .. N, NEW x, NEW y, IsValue(x, i), IsValue(y, j), i < j
      PROVE  y[1] + y[2].len <= x[1]
  <2>1. i \in 0 .. N /\ j - 1 \in 0 .. N /\ i <= j - 1 /\ j \in 0 .. N
    BY <1>1, <1>7
  <2>2. V(j - 1) <= V(i)
    BY <1>5, <2>1
  <2> QED
    BY <1>1, <1>3, <1>4, <1>7, <2>1, <2>2
<1>8. ASSUME NEW x \in LeafValues(n), NEW y \in LeafValues(n)
      PROVE  x = y \/ x[1] + x[2].len <= y[1] \/ y[1] + y[2].len <= x[1]
  <2>1. PICK i \in 1 .. N : IsValue(x, i)
    BY <1>2
  <2>2. PICK j \in 1 .. N : IsValue(y, j)
    BY <1>2
  <2>3. i = j \/ i < j \/ j < i
    BY <1>1
  <2> QED
    BY <1>7, <2>1, <2>2, <2>3
<1> QED
  BY <1>3, <1>6, <1>8 DEF Zone, Ending, V, N

(* The items of a node that fits lie in the page, one beside the other.        *)
LEMMA ItemsZone ==
  ASSUME NEW n, Shaped(n), Fits(n)
  PROVE  Zone(Items(n), 0, L!Room)
<1> DEFINE N == Size(n)
<1>1. N \in Nat /\ L!Room \in Nat
  BY StringsOf
<1>2. Zone(Header(n) \union Slots(n), 0, 12 + 4 * N)
  <2>1. 12 + 4 * N \in Int /\ 12 <= 12 + 4 * N
    BY <1>1
  <2> QED
    BY <2>1, HeaderZone, SlotsZone, ZonesJoin
<1>3. KeyStart(n, 1) \in Nat /\ Begining(n) \in Nat /\ KeyStart(n, 1) <= Begining(n)
  <2>1. 1 \in 1 .. N + 1 /\ N + 1 \in 1 .. N + 1 /\ (1 = N + 1 \/ 1 < N + 1)
    BY <1>1
  <2>2. /\ \A i \in 1 .. N + 1 : KeyStart(n, i) \in Nat
        /\ \A i, j \in 1 .. N + 1 : i < j => KeyStart(n, i) + 8 <= KeyStart(n, j)
    BY KeyStarts
  <2> QED
    BY <2>1, <2>2 DEF Begining
<1>4. CASE IsLeaf(n)
  <2>1. KeyStart(n, 1) = 12 + 4 * N
    BY <1>1, <1>4, KeyStarts
  <2>2. Zone((Header(n) \union Slots(n)) \union LeafKeys(n), 0, Begining(n))
    BY <1>1, <1>2, <1>3, <1>4, <2>1, LeafKeysZone, ZonesJoin
  <2>3. Ending(n) \in Int /\ Begining(n) <= Ending(n) /\ Ending(n) <= L!Room
    <3>1. N \in 0 .. N /\ 0 \in 0 .. N /\ 0 <= N
      BY <1>1
    <3>2. /\ \A i \in 0 .. N : ValueStart(n, i) \in Int
          /\ \A i, j \in 0 .. N : i <= j => ValueStart(n, j) <= ValueStart(n, i)
          /\ ValueStart(n, 0) = L!Room
      BY <1>4, ValueStarts
    <3> QED
      BY <1>4, <3>1, <3>2 DEF Ending, Fits
  <2>4. Zone(((Header(n) \union Slots(n)) \union LeafKeys(n)) \union LeafValues(n), 0, L!Room)
    BY <1>1, <1>3, <1>4, <2>2, <2>3, LeafValuesZone, ZonesJoin
  <2>5. Items(n) = ((Header(n) \union Slots(n)) \union LeafKeys(n)) \union LeafValues(n)
    BY <1>4 DEF Items, LeafKeys, LeafValues, ValueItems
  <2> QED
    BY <2>4, <2>5
<1>5. CASE ~IsLeaf(n)
  <2>1. Begining(n) <= L!Room /\ 12 + 4 * N <= Begining(n)
    <3>1. KeyStart(n, 1) = 12 + 4 * N + 4
      BY <1>5, KeyStarts
    <3> QED
      BY <1>1, <1>3, <1>5, <3>1 DEF Fits
  <2>2. Zone((Header(n) \union Slots(n)) \union (KeyItems(n) \union LinkItems(n)), 0, Begining(n))
    <3> DEFINE A == Header(n) \union Slots(n)
               B == KeyItems(n) \union LinkItems(n)
               b == 12 + 4 * N
               d == Begining(n)
    <3>1. b \in Int /\ d \in Int /\ 0 <= b /\ b <= d
      BY <1>1, <1>3, <2>1
    <3>2. Zone(A, 0, b) /\ Zone(B, b, d)
      BY <1>2, <1>5, InnerZone
    <3> HIDE DEF A, B, b, d
    <3>3. Zone(A \union B, 0, d)
      BY <3>1, <3>2, ZonesJoin
    <3> QED
      BY <3>3 DEF A, B, d
  <2>3. Zone(Items(n), 0, Begining(n))
    <3>1. Items(n) = (Header(n) \union Slots(n)) \union (KeyItems(n) \union LinkItems(n))
      BY <1>5 DEF Items
    <3> QED
      BY <2>2, <3>1
  <2> QED
    BY <1>1, <1>3, <2>1, <2>3 DEF Zone
<1> QED
  BY <1>4, <1>5

(* What a page of zones has at the place of an item.                           *)
LEMMA ItemAt ==
  ASSUME NEW n, Shaped(n), Fits(n), n # Blank
  PROVE  /\ DOMAIN PageOf(n).mem = {x[1] : x \in Items(n)}
         /\ \A x \in Items(n) : PageOf(n).mem[x[1]] = x[2] /\ L!At(PageOf(n), x[1]) = x[2]
<1>1. \A x, y \in Items(n) : x = y \/ x[1] + x[2].len <= y[1] \/ y[1] + y[2].len <= x[1]
  BY ItemsZone DEF Zone
<1>2. \A x \in Items(n) : x[1] \in Int /\ x[2].len \in Nat \ {0}
  BY ItemsZone DEF Zone
<1>3. \A x, y \in Items(n) : x[1] = y[1] => x = y
  BY <1>1, <1>2
<1>4. PageOf(n).mem = [a \in {x[1] : x \in Items(n)} |->
                         (CHOOSE x \in Items(n) : x[1] = a)[2]]
  BY DEF PageOf, Mem
<1>5. ASSUME NEW x \in Items(n) PROVE PageOf(n).mem[x[1]] = x[2]
  <2>1. (CHOOSE y \in Items(n) : y[1] = x[1]) = x
    BY <1>3
  <2> DEFINE G(a) == (CHOOSE y \in Items(n) : y[1] = a)[2]
             D == {y[1] : y \in Items(n)}
  <2>2. PageOf(n).mem = [a \in D |-> G(a)] /\ x[1] \in D /\ G(x[1]) = x[2]
    BY <1>4, <2>1
  <2> HIDE DEF G, D
  <2> QED
    BY <2>2
<1> QED
  BY <1>4, <1>5 DEF L!At

-------------------------------------------------------------------------------
(* What the code reads in the page of a node *)

(* The numbers in front.                                                       *)
LEMMA HeaderReads ==
  ASSUME NEW n, Shaped(n), Fits(n), n # Blank
  PROVE  /\ L!VertNum(PageOf(n)) = Size(n)
         /\ L!Cast(PageOf(n), 4) = n.parent
         /\ L!Cast(PageOf(n), 0) = Begining(n) % HalfWord
<1>1. /\ <<0, L!Short(Begining(n))>> \in Items(n)
      /\ <<4, L!Word(n.parent)>> \in Items(n)
      /\ <<8, L!Word(Size(n))>> \in Items(n)
  BY DEF Items, Header
<1>2. /\ L!At(PageOf(n), 0) = L!Short(Begining(n))
      /\ L!At(PageOf(n), 4) = L!Word(n.parent)
      /\ L!At(PageOf(n), 8) = L!Word(Size(n))
  <2>1. \A x \in Items(n) : L!At(PageOf(n), x[1]) = x[2]
    BY ItemAt
  <2> QED
    BY <1>1, <2>1
<1> QED
  BY <1>2 DEF L!VertNum, L!Cast, L!Word, L!Short

(* The i-th key, which the code counts from 0.                                 *)
LEMMA KeyReads ==
  ASSUME NEW n, Shaped(n), Fits(n), n # Blank, NEW i \in 1 .. Size(n)
  PROVE  /\ L!KeyOffset(PageOf(n), i - 1) = KeyStart(n, i)
         /\ L!KeyAt(PageOf(n), i - 1) = L!Entry(KeyStrings(n)[i])
         /\ L!KeyAt(PageOf(n), i - 1).bytes = Bytes[n.keys[i]]
<1>1. /\ <<8 + 4 * i, L!Word(KeyStart(n, i))>> \in Items(n)
      /\ <<KeyStart(n, i), L!Entry(KeyStrings(n)[i])>> \in Items(n)
  BY DEF Items, Slots, KeyItems
<1>2. \A x \in Items(n) : L!At(PageOf(n), x[1]) = x[2]
  BY ItemAt
<1>3. /\ L!At(PageOf(n), 8 + 4 * i) = L!Word(KeyStart(n, i))
      /\ L!At(PageOf(n), KeyStart(n, i)) = L!Entry(KeyStrings(n)[i])
  BY <1>1, <1>2
<1>4. L!Slot(i - 1) = 8 + 4 * i
  BY StringsOf DEF L!Slot
<1>5. L!KeyOffset(PageOf(n), i - 1) = KeyStart(n, i)
  BY <1>3, <1>4 DEF L!KeyOffset, L!Cast, L!Word
<1>6. L!KeyAt(PageOf(n), i - 1) = L!Entry(KeyStrings(n)[i])
  BY <1>3, <1>5 DEF L!KeyAt
<1>7. L!KeyAt(PageOf(n), i - 1).bytes = Bytes[n.keys[i]]
  BY <1>6, StringsOf DEF L!Entry
<1> QED
  BY <1>5, <1>6, <1>7

(* The value of the i-th key, through its offset.                              *)
LEMMA ValueReads ==
  ASSUME NEW n, Shaped(n), Fits(n), IsLeaf(n), NEW i \in 1 .. Size(n)
  PROVE  /\ L!LinkAfter(PageOf(n), i - 1) = ValueStart(n, i)
         /\ L!DataAt(PageOf(n), i - 1) = L!Entry(n.vals[i])
<1>0. n # Blank
  BY DEF IsLeaf, Blank, Leaves
<1>1. /\ <<KeyStart(n, i + 1) - 4, L!Word(ValueStart(n, i))>> \in Items(n)
      /\ <<ValueStart(n, i), L!Entry(n.vals[i])>> \in Items(n)
  BY DEF Items, ValueItems
<1>2. \A x \in Items(n) : L!At(PageOf(n), x[1]) = x[2]
  BY <1>0, ItemAt
<1>3. /\ L!At(PageOf(n), KeyStart(n, i + 1) - 4) = L!Word(ValueStart(n, i))
      /\ L!At(PageOf(n), ValueStart(n, i)) = L!Entry(n.vals[i])
  BY <1>1, <1>2
<1>4. KeyStart(n, i) + L!Entry(KeyStrings(n)[i]).len = KeyStart(n, i + 1) - 4
  <2>1. /\ KeyStart(n, i + 1) = KeyStart(n, i) + 8 + Len(KeyStrings(n)[i])
        /\ KeyStart(n, i) \in Nat
    BY StringsOf, KeyStarts
  <2>2. L!Entry(KeyStrings(n)[i]).len = 4 + Len(KeyStrings(n)[i]) /\ Len(KeyStrings(n)[i]) \in Nat
    BY StringsOf, ItemLengths
  <2> QED
    BY <2>1, <2>2
<1>5. L!LinkAfter(PageOf(n), i - 1) = ValueStart(n, i)
  BY <1>0, <1>3, <1>4, KeyReads DEF L!LinkAfter, L!Cast, L!Word
<1> QED
  BY <1>3, <1>5 DEF L!DataAt

(* The links on both sides of a key, and the last one, through begining.       *)
LEMMA LinkReads ==
  ASSUME NEW n, Shaped(n), Fits(n), n # Blank, ~IsLeaf(n), Len(n.links) = Size(n) + 1
  PROVE  /\ \A i \in 1 .. Size(n) : /\ L!LinkBefore(PageOf(n), i - 1) = n.links[i]
                                    /\ L!LinkAfter(PageOf(n), i - 1) = n.links[i + 1]
         /\ Begining(n) < HalfWord => L!LastLink(PageOf(n)) = n.links[Size(n) + 1]
<1>1. ASSUME NEW i \in 1 .. Size(n) + 1
      PROVE  L!Cast(PageOf(n), KeyStart(n, i) - 4) = n.links[i]
  <2>1. <<KeyStart(n, i) - 4, L!Word(n.links[i])>> \in Items(n)
    BY DEF Items, LinkItems, Shaped, Node
  <2>2. \A x \in Items(n) : L!At(PageOf(n), x[1]) = x[2]
    BY ItemAt
  <2>3. L!At(PageOf(n), KeyStart(n, i) - 4) = L!Word(n.links[i])
    BY <2>1, <2>2
  <2> QED
    BY <2>3 DEF L!Cast, L!Word
<1>2. Size(n) \in Nat
  BY StringsOf
<1>3. ASSUME NEW i \in 1 .. Size(n)
      PROVE  /\ L!LinkBefore(PageOf(n), i - 1) = n.links[i]
             /\ L!LinkAfter(PageOf(n), i - 1) = n.links[i + 1]
  <2>1. i \in 1 .. Size(n) + 1 /\ i + 1 \in 1 .. Size(n) + 1
    BY <1>2
  <2>2. KeyStart(n, i) + L!Entry(KeyStrings(n)[i]).len = KeyStart(n, i + 1) - 4
    <3>1. /\ KeyStart(n, i + 1) = KeyStart(n, i) + 8 + Len(KeyStrings(n)[i])
          /\ KeyStart(n, i) \in Nat
      BY <2>1, StringsOf, KeyStarts
    <3>2. L!Entry(KeyStrings(n)[i]).len = 4 + Len(KeyStrings(n)[i]) /\ Len(KeyStrings(n)[i]) \in Nat
      BY StringsOf, ItemLengths
    <3> QED
      BY <3>1, <3>2
  <2>3. L!LinkBefore(PageOf(n), i - 1) = n.links[i]
    BY <1>1, <2>1, KeyReads DEF L!LinkBefore
  <2>4. L!LinkAfter(PageOf(n), i - 1) = n.links[i + 1]
    BY <1>1, <2>1, <2>2, KeyReads DEF L!LinkAfter
  <2> QED
    BY <2>3, <2>4
<1>4. ASSUME Begining(n) < HalfWord PROVE L!LastLink(PageOf(n)) = n.links[Size(n) + 1]
  <2>1. Size(n) + 1 \in 1 .. Size(n) + 1
    BY <1>2
  <2>2. Begining(n) \in Nat /\ HalfWord \in Nat \ {0}
    BY <2>1, KeyStarts, PageEditsAssumption DEF Begining
  <2>3. Begining(n) % HalfWord = Begining(n)
    BY <1>4, <2>2
  <2>4. L!Cast(PageOf(n), 0) = KeyStart(n, Size(n) + 1)
    BY <2>3, HeaderReads DEF Begining
  <2> QED
    BY <1>1, <2>1, <2>4 DEF L!LastLink
<1> QED
  BY <1>3, <1>4

-------------------------------------------------------------------------------
(* Searches in a page and in its node *)

(* The first of some places, counted from 0 as the code does and from 1.       *)
LEMMA FirstIs ==
  ASSUME NEW N \in Nat, NEW I \in SUBSET (1 .. N),
         NEW J, J = {j \in 0 .. N - 1 : j + 1 \in I}
  PROVE  /\ I = {} => Min(J \union {N}) = N
         /\ I # {} => Min(J \union {N}) = Min(I) - 1 /\ Min(I) \in I
<1>1. J \union {N} \in SUBSET Nat /\ J \union {N} # {}
  OBVIOUS
<1>2. Min(J \union {N}) \in J \union {N} /\ \A x \in J \union {N} : Min(J \union {N}) <= x
  BY <1>1, MinIsLeast
<1>3. ASSUME I = {} PROVE Min(J \union {N}) = N
  <2>1. J = {}
    BY <1>3
  <2> QED
    BY <1>2, <2>1
<1>4. ASSUME I # {} PROVE Min(J \union {N}) = Min(I) - 1 /\ Min(I) \in I
  <2>1. I \in SUBSET Nat
    OBVIOUS
  <2>2. Min(I) \in I /\ \A x \in I : Min(I) <= x
    BY <1>4, <2>1, MinIsLeast
  <2> DEFINE m == Min(I)
             q == Min(J \union {N})
  <2> HIDE DEF m, q
  <2>3. m \in 1 .. N /\ m \in I /\ \A x \in I : m <= x
    BY <2>2 DEF m
  <2>4. q \in J \union {N} /\ \A x \in J \union {N} : q <= x
    BY <1>2 DEF q
  <2>5. m - 1 \in 0 .. N - 1 /\ (m - 1) + 1 = m
    BY <2>3
  <2>6. q <= m - 1
    BY <2>3, <2>4, <2>5
  <2>7. q \in 0 .. N - 1 /\ q + 1 \in I
    BY <2>3, <2>4, <2>6
  <2>8. m <= q + 1
    BY <2>3, <2>7
  <2>9. q = m - 1
    BY <2>3, <2>6, <2>7, <2>8
  <2> QED
    BY <2>2, <2>9 DEF m, q
<1> QED
  BY <1>3, <1>4

LEMMA MinIsMin == \A S : L!Min(S) = Min(S)
  BY DEF L!Min, Min

(* find_pos on the bytes and on the node.                                      *)
LEMMA FindPosReads ==
  ASSUME NEW n, Shaped(n), Fits(n), n # Blank, NEW k \in Keys
  PROVE  /\ L!FindPos(PageOf(n), Bytes[k]) = FindPos(n, k)
         /\ FindPos(n, k) \in 0 .. Size(n)
<1> DEFINE N == Size(n)
           pg == PageOf(n)
           I == {i \in 1 .. N : n.keys[i] > k}
           J == {j \in 0 .. N - 1 : L!Greater(L!KeyAt(pg, j).bytes, Bytes[k])}
<1>1. N \in Nat /\ L!VertNum(pg) = N
  BY StringsOf, HeaderReads
<1>2. L!FindPos(pg, Bytes[k]) = Min(J \union {N})
  BY <1>1, MinIsMin DEF L!FindPos, L!FirstOf, L!Indexes
<1>3. J = {j \in 0 .. N - 1 : j + 1 \in I}
  <2>1. ASSUME NEW j \in 0 .. N - 1
        PROVE  L!Greater(L!KeyAt(pg, j).bytes, Bytes[k]) <=> j + 1 \in I
    <3>1. j + 1 \in 1 .. N /\ (j + 1) - 1 = j
      BY <1>1
    <3>2. L!KeyAt(pg, j).bytes = Bytes[n.keys[j + 1]] /\ n.keys[j + 1] \in Keys
      <4> DEFINE i == j + 1
      <4>1. i \in 1 .. N /\ i - 1 = j
        BY <3>1
      <4> HIDE DEF i
      <4>2. L!KeyAt(pg, i - 1).bytes = Bytes[n.keys[i]] /\ n.keys[i] \in Keys
        BY <4>1, KeyReads, StringsOf
      <4> QED
        BY <4>1, <4>2 DEF i
    <3>3. L!Greater(L!KeyAt(pg, j).bytes, Bytes[k]) <=> n.keys[j + 1] > k
      BY <3>2, KeysAreNumbers
    <3> QED
      BY <3>1, <3>3
  <2> QED
    BY <2>1
<1>4. FindPos(n, k) = LET i == IF I # {} THEN Min(I) ELSE 0
                      IN  IF i = 0 THEN N ELSE i - 1
  BY DEF FindPos, SelectInSeq, Size
<1>5. /\ I = {} => Min(J \union {N}) = N
      /\ I # {} => Min(J \union {N}) = Min(I) - 1 /\ Min(I) \in I
  <2>1. I \in SUBSET (1 .. N)
    OBVIOUS
  <2> HIDE DEF I, J, N
  <2> QED
    BY <1>1, <1>3, <2>1, FirstIs
<1>6. CASE I = {}
  BY <1>1, <1>2, <1>4, <1>5, <1>6
<1>7. CASE I # {}
  <2>1. Min(I) \in 1 .. N
    BY <1>5, <1>7
  <2> HIDE DEF I, J, N
  <2> QED
    BY <1>1, <1>2, <1>4, <1>5, <1>7, <2>1 DEF N
<1> QED
  BY <1>6, <1>7

(* The loop that looks for a key itself.                                       *)
LEMMA KeyIndexReads ==
  ASSUME NEW n, Shaped(n), Fits(n), n # Blank, NEW k \in Keys
  PROVE  LET i == SelectInSeq(n.keys, LAMBDA y : y = k)
         IN  /\ i = 0 => L!KeyIndex(PageOf(n), Bytes[k]) = Size(n)
             /\ i # 0 => L!KeyIndex(PageOf(n), Bytes[k]) = i - 1 /\ i \in 1 .. Size(n)
<1> DEFINE N == Size(n)
           pg == PageOf(n)
           I == {i \in 1 .. N : n.keys[i] = k}
           J == {j \in 0 .. N - 1 : L!Same(L!KeyAt(pg, j).bytes, Bytes[k])}
<1>1. N \in Nat /\ L!VertNum(pg) = N
  BY StringsOf, HeaderReads
<1>2. L!KeyIndex(pg, Bytes[k]) = Min(J \union {N})
  BY <1>1, MinIsMin DEF L!KeyIndex, L!FirstOf, L!Indexes
<1>3. J = {j \in 0 .. N - 1 : j + 1 \in I}
  <2>1. ASSUME NEW j \in 0 .. N - 1
        PROVE  L!Same(L!KeyAt(pg, j).bytes, Bytes[k]) <=> j + 1 \in I
    <3>1. j + 1 \in 1 .. N /\ (j + 1) - 1 = j
      BY <1>1
    <3>2. L!KeyAt(pg, j).bytes = Bytes[n.keys[j + 1]] /\ n.keys[j + 1] \in Keys
      <4> DEFINE i == j + 1
      <4>1. i \in 1 .. N /\ i - 1 = j
        BY <3>1
      <4> HIDE DEF i
      <4>2. L!KeyAt(pg, i - 1).bytes = Bytes[n.keys[i]] /\ n.keys[i] \in Keys
        BY <4>1, KeyReads, StringsOf
      <4> QED
        BY <4>1, <4>2 DEF i
    <3>3. L!Same(L!KeyAt(pg, j).bytes, Bytes[k]) <=> n.keys[j + 1] = k
      BY <3>2, KeysAreNumbers
    <3> QED
      BY <3>1, <3>3
  <2> QED
    BY <2>1
<1>4. SelectInSeq(n.keys, LAMBDA y : y = k) = IF I # {} THEN Min(I) ELSE 0
  BY DEF SelectInSeq, Size
<1>5. /\ I = {} => Min(J \union {N}) = N
      /\ I # {} => Min(J \union {N}) = Min(I) - 1 /\ Min(I) \in I
  <2>1. I \in SUBSET (1 .. N)
    OBVIOUS
  <2> HIDE DEF I, J, N
  <2> QED
    BY <1>1, <1>3, <2>1, FirstIs
<1>6. I # {} => Min(I) \in 1 .. N
  BY <1>5
<1> HIDE DEF I, J
<1> QED
  BY <1>1, <1>2, <1>4, <1>5, <1>6

(* The value of b_select.                                                      *)
LEMMA SelectReads ==
  ASSUME NEW n, Shaped(n), Fits(n), IsLeaf(n), NEW k \in Keys
  PROVE  L!Select(PageOf(n), Bytes[k]) =
           LET i == SelectInSeq(n.keys, LAMBDA y : y = k)
           IN  IF i = 0 THEN <<>> ELSE <<n.vals[i]>>
<1> DEFINE i == SelectInSeq(n.keys, LAMBDA y : y = k)
           q == L!KeyIndex(PageOf(n), Bytes[k])
<1>1. n # Blank
  BY DEF IsLeaf, Blank, Leaves
<1>2. /\ i = 0 => q = Size(n)
      /\ i # 0 => q = i - 1 /\ i \in 1 .. Size(n)
  BY <1>1, KeyIndexReads
<1>3. L!VertNum(PageOf(n)) = Size(n) /\ Size(n) \in Nat
  BY <1>1, HeaderReads, StringsOf
<1>4. L!Select(PageOf(n), Bytes[k]) =
        IF q < Size(n) THEN <<L!DataAt(PageOf(n), q).bytes>> ELSE <<>>
  BY <1>3 DEF L!Select
<1> HIDE DEF i, q
<1>5. CASE i = 0
  BY <1>2, <1>3, <1>4, <1>5 DEF i
<1>6. CASE i # 0
  <2>1. q = i - 1 /\ i \in 1 .. Size(n) /\ q < Size(n)
    BY <1>2, <1>3, <1>6
  <2>2. L!DataAt(PageOf(n), i - 1) = L!Entry(n.vals[i])
    BY <2>1, ValueReads
  <2>3. L!DataAt(PageOf(n), q).bytes = n.vals[i]
    BY <2>1, <2>2 DEF L!Entry
  <2> QED
    BY <1>4, <1>6, <2>1, <2>3 DEF i
<1> QED
  BY <1>5, <1>6

(* The link that a search follows, and find_links.                             *)
LEMMA LinksRead ==
  ASSUME NEW n, Shaped(n), Fits(n), n # Blank, ~IsLeaf(n), Len(n.links) = Size(n) + 1,
         Begining(n) < HalfWord
  PROVE  /\ L!FindLinks(PageOf(n)) = n.links
         /\ \A k \in Keys : L!LinkFor(PageOf(n), Bytes[k]) = LinkFor(n, k)
<1> DEFINE N == Size(n)
           pg == PageOf(n)
<1>1. N \in Nat /\ L!VertNum(pg) = N
  BY StringsOf, HeaderReads
<1>2. /\ \A i \in 1 .. N : L!LinkBefore(pg, i - 1) = n.links[i]
      /\ L!LastLink(pg) = n.links[N + 1]
  BY LinkReads
<1>3. L!FindLinks(pg) = n.links
  <2> DEFINE f == [i \in 1 .. N |-> L!LinkBefore(pg, i - 1)]
             g == <<L!LastLink(pg)>>
  <2>1. L!FindLinks(pg) = f \o g
    BY <1>1 DEF L!FindLinks
  <2>2. n.links \in Seq(Nat) /\ Len(n.links) = N + 1
    <3>1. n.links \in Seq(Numbers)
      BY NodeFields DEF Shaped
    <3> QED
      BY <3>1, NumbersAreNat, SeqMonotonic
  <2>3. f \in Seq(Nat) /\ Len(f) = N /\ \A i \in 1 .. N : f[i] = n.links[i]
    <3>1. \A i \in 1 .. N : f[i] = n.links[i] /\ n.links[i] \in Nat
      BY <1>1, <1>2, <2>2
    <3>2. f \in [1 .. N -> Nat]
      BY <3>1
    <3> HIDE DEF f
    <3>3. f \in Seq(Nat) /\ Len(f) = N
      BY <1>1, <3>2, LenProperties
    <3> QED
      BY <3>1, <3>3
  <2>4. g \in Seq(Nat) /\ Len(g) = 1 /\ g[1] = n.links[N + 1]
    <3>1. n.links[N + 1] \in Nat
      BY <1>1, <2>2
    <3> QED
      BY <1>2, <3>1
  <2> HIDE DEF f, g, pg
  <2>5. /\ f \o g \in Seq(Nat) /\ Len(f \o g) = N + 1
        /\ \A i \in 1 .. N : (f \o g)[i] = f[i]
        /\ (f \o g)[N + 1] = g[1]
    <3>1. /\ f \o g \in Seq(Nat) /\ Len(f \o g) = Len(f) + Len(g)
          /\ \A i \in 1 .. Len(f) + Len(g) :
               (f \o g)[i] = IF i <= Len(f) THEN f[i] ELSE g[i - Len(f)]
      BY <2>3, <2>4, ConcatProperties
    <3>2. /\ \A i \in 1 .. N : i \in 1 .. N + 1 /\ i <= N
          /\ N + 1 \in 1 .. N + 1 /\ ~(N + 1 <= N) /\ (N + 1) - N = 1
      BY <1>1
    <3>3. Len(f) = N /\ Len(g) = 1
      BY <2>3, <2>4
    <3>4. ASSUME NEW i \in 1 .. N PROVE (f \o g)[i] = f[i]
      BY <3>1, <3>2, <3>3
    <3>5. (f \o g)[N + 1] = g[1]
      BY <3>1, <3>2, <3>3
    <3> QED
      BY <3>1, <3>3, <3>4, <3>5
  <2>6. ASSUME NEW i \in 1 .. N + 1 PROVE (f \o g)[i] = n.links[i]
    <3>1. i \in 1 .. N \/ i = N + 1
      BY <1>1
    <3> QED
      BY <2>3, <2>4, <2>5, <3>1
  <2>7. f \o g = n.links
    BY <2>2, <2>5, <2>6, SeqEqual
  <2> QED
    BY <2>1, <2>7 DEF pg
<1>4. ASSUME NEW k \in Keys PROVE L!LinkFor(pg, Bytes[k]) = LinkFor(n, k)
  <2> DEFINE p == FindPos(n, k)
  <2>1. L!FindPos(pg, Bytes[k]) = p /\ p \in 0 .. N
    BY FindPosReads
  <2>2. L!LinkFor(pg, Bytes[k]) =
          IF p < N THEN L!LinkBefore(pg, p) ELSE L!LastLink(pg)
    BY <1>1, <2>1 DEF L!LinkFor
  <2> HIDE DEF p
  <2>3. p < N => L!LinkBefore(pg, p) = n.links[p + 1]
    <3>1. ASSUME NEW i \in 1 .. N, p = i - 1 PROVE L!LinkBefore(pg, p) = n.links[p + 1]
      BY <1>2, <3>1
    <3>2. p < N => p + 1 \in 1 .. N /\ p = (p + 1) - 1
      BY <1>1, <2>1
    <3> QED
      BY <3>1, <3>2
  <2>4. ~(p < N) => p = N
    BY <1>1, <2>1
  <2> QED
    BY <1>2, <2>2, <2>3, <2>4 DEF LinkFor, p
<1> QED
  BY <1>3, <1>4

-------------------------------------------------------------------------------
(* A page that is laid out as its node is sound *)

(* A place without a page.                                                     *)
LEMMA BlankReads ==
  /\ Shaped(Blank) /\ (Fits(Blank) => L!Room >= 12)
  /\ DOMAIN None.mem = {4, 8} /\ None.mem[4].len = 4 /\ None.mem[8].len = 4
  /\ L!VertNum(None) = 0 /\ Size(Blank) = 0 /\ ~IsLeaf(Blank) /\ Blank.kind \notin Interiors
  /\ \A k \in Keys : L!FindPos(None, Bytes[k]) = 0 /\ FindPos(Blank, k) = 0
<1>1. DOMAIN None.mem = {4, 8} /\ None.mem = [a \in {4, 8} |-> L!Word(0)]
  BY DEF None, L!Create
<1>2. None.mem[4].len = 4 /\ None.mem[8].len = 4 /\ L!VertNum(None) = 0
  BY <1>1 DEF L!VertNum, L!Cast, L!At, L!Word
<1>3. Size(Blank) = 0 /\ ~IsLeaf(Blank) /\ Blank.kind \notin Interiors
  BY DEF Size, Blank, IsLeaf, Leaves, Interiors
<1>4. Shaped(Blank)
  <2>1. 0 \in Numbers /\ <<>> \in Seq(Keys) /\ <<>> \in Seq(Values) /\ <<>> \in Seq(Numbers)
    BY DEF Numbers
  <2>2. Blank \in Node
    BY <2>1 DEF Blank, Node
  <2>3. Len(Blank.links) = 0
    BY DEF Blank
  <2> QED
    BY <1>3, <2>2, <2>3 DEF Shaped
<1>5. ASSUME Fits(Blank) PROVE L!Room >= 12
  <2>1. /\ KeyStart(Blank, 1) = 12 + 4 * Size(Blank) + (IF IsLeaf(Blank) THEN 0 ELSE 4)
        /\ L!Room \in Nat
    BY <1>4, KeyStarts, StringsOf
  <2>2. KeyStart(Blank, 1) <= L!Room
    BY <1>3, <1>5 DEF Fits, Begining
  <2> QED
    BY <1>3, <2>1, <2>2
<1>6. ASSUME NEW k \in Keys PROVE L!FindPos(None, Bytes[k]) = 0 /\ FindPos(Blank, k) = 0
  <2>1. L!Indexes(None) = 0 .. 0 - 1
    BY <1>2 DEF L!Indexes
  <2>2. L!FindPos(None, Bytes[k]) = Min({0})
    <3>1. {i \in 0 .. 0 - 1 : L!Greater(L!KeyAt(None, i).bytes, Bytes[k])} \union {0} = {0}
      OBVIOUS
    <3> QED
      BY <1>2, <2>1, <3>1, MinIsMin DEF L!FindPos, L!FirstOf
  <2>3. Min({0}) = 0
    BY MinIsLeast
  <2>4. {i \in 1 .. Len(Blank.keys) : Blank.keys[i] > k} = {}
    BY <1>3 DEF Size
  <2>5. FindPos(Blank, k) = 0
    BY <1>3, <2>4 DEF FindPos, SelectInSeq
  <2> QED
    BY <2>2, <2>3, <2>5
<1> QED
  BY <1>1, <1>2, <1>3, <1>4, <1>5, <1>6

(* What TypeOK says of a page.                                                 *)
LEMMA TypeShapes ==
  ASSUME TypeOK, NEW x \in DOMAIN nodes
  PROVE  /\ Shaped(nodes[x])
         /\ nodes[x] = Blank \/ nodes[x].kind \in Leaves \union Interiors
         /\ ~IsLeaf(nodes[x]) /\ nodes[x] # Blank =>
              nodes[x].kind \in Interiors /\ Len(nodes[x].links) = Size(nodes[x]) + 1
<1> DEFINE n == nodes[x]
<1>1. n \in Node /\ (n # Blank => Shape(n))
  BY DEF TypeOK
<1> HIDE DEF n
<1>2. Size(n) \in Nat
  BY <1>1, NodeFields
<1>3. Shaped(Blank)
  BY BlankReads
<1>4. ASSUME n # Blank
      PROVE  /\ n.kind \in Leaves \union Interiors
             /\ ~IsLeaf(n) => n.kind \in Interiors /\ Len(n.links) = Size(n) + 1
             /\ IsLeaf(n) => Len(n.vals) = Size(n)
  BY <1>1, <1>4 DEF Shape, IsLeaf
<1>5. ASSUME n # Blank PROVE Shaped(n)
  BY <1>1, <1>2, <1>4, <1>5 DEF Shaped
<1>6. /\ Shaped(n)
      /\ n = Blank \/ n.kind \in Leaves \union Interiors
      /\ ~IsLeaf(n) /\ n # Blank => n.kind \in Interiors /\ Len(n.links) = Size(n) + 1
  BY <1>3, <1>4, <1>5
<1> QED
  BY <1>6 DEF n

(* As many small entries as a page gets have room.                             *)
LEMMA RoomForEntries ==
  ASSUME EntryRoom \in Nat, NEW N \in 0 .. NodesUp
  PROVE  12 + N * (EntryRoom + 16) <= L!Room /\ 16 <= L!Room
<1> DEFINE a == L!Room - 12
           q == a \div NodesUp
<1>1. a \in Int /\ NodesUp \in Nat \ {0}
  BY PageEditsAssumption, BTreeNodeAssumption DEF L!Room
<1>2. q = EntryRoom + 16
  <2>1. q \in Int
    BY <1>1
  <2> QED
    BY <2>1 DEF EntryRoom
<1>3. NodesUp * q <= a
  <2> HIDE DEF a
  <2> QED
    BY <1>1
<1> HIDE DEF q
<1>4. q \in Nat /\ 16 <= q
  BY <1>2
<1>5. N * q <= NodesUp * q /\ 1 * q <= NodesUp * q
  BY <1>1, <1>4
<1>6. N * q \in Nat /\ NodesUp * q \in Nat /\ 1 * q = q
  BY <1>1, <1>4
<1>7. 12 + N * q <= L!Room /\ 12 + q <= L!Room
  <2>1. L!Room \in Nat
    BY PageEditsAssumption DEF L!Room
  <2> QED
    BY <1>3, <1>4, <1>5, <1>6, <2>1
<1>8. L!Room \in Nat
  BY PageEditsAssumption DEF L!Room
<1> QED
  BY <1>2, <1>4, <1>7, <1>8

(* A node of small entries fits, whatever number of them it has.               *)
LEMMA SmallNodeFits ==
  ASSUME NEW n, Shaped(n), Size(n) <= NodesUp, EntryRoom \in Nat, NEW k \in 0 .. EntryRoom,
         \A i \in DOMAIN n.keys : Len(KeyStrings(n)[i]) <= k,
         \A i \in DOMAIN n.vals : Len(n.vals[i]) <= EntryRoom - k
  PROVE  Fits(n)
<1> DEFINE N == Size(n)
           E == EntryRoom
           s == KeyStrings(n)
<1>1. /\ N \in 0 .. NodesUp /\ N \in Nat /\ L!Room \in Nat
      /\ \A i \in 1 .. N : Len(s[i]) \in Nat
      /\ IsLeaf(n) => \A i \in 1 .. N : Len(n.vals[i]) \in Nat
  BY StringsOf, BTreeNodeAssumption
<1>2. DOMAIN n.keys = 1 .. N /\ (IsLeaf(n) => DOMAIN n.vals = 1 .. N)
  BY DEF Shaped, Node, Size
<1>3. E \in Nat /\ k \in Nat /\ E - k \in Nat
  OBVIOUS
<1>4. FirstTotal(s, N) <= N * k /\ FirstTotal(s, N) \in Nat
  <2>1. \A i \in 1 .. N : Len(s[i]) \in Nat /\ Len(s[i]) <= k
    BY <1>1, <1>2
  <2>2. N \in Nat /\ k \in Nat /\ N \in 0 .. N
    BY <1>1, <1>3
  <2> HIDE DEF N, s
  <2>3. FirstTotal(s, N) <= N * k
    BY <2>1, <2>2, FirstTotalBounded
  <2>4. \A i \in 0 .. N : FirstTotal(s, i) \in Nat
    BY <2>1, <2>2, FirstTotalStep
  <2> QED
    BY <2>2, <2>3, <2>4
<1>5. 12 + N * (E + 16) <= L!Room /\ 16 <= L!Room
  BY <1>1, RoomForEntries
<1>6. Begining(n) = 12 + 4 * N + (IF IsLeaf(n) THEN 0 ELSE 4) + 8 * N + FirstTotal(s, N)
  BY <1>1 DEF Begining, KeyStart
<1>7. /\ N * (E + 16) = N * k + N * (E - k) + 16 * N
      /\ N * k \in Nat /\ N * (E - k) \in Nat
  <2> HIDE DEF N, E
  <2> QED
    BY <1>1, <1>3
<1>8. CASE IsLeaf(n)
  <2>1. FirstTotal(n.vals, N) <= N * (E - k) /\ FirstTotal(n.vals, N) \in Nat
    <3>1. \A i \in 1 .. N : Len(n.vals[i]) \in Nat /\ Len(n.vals[i]) <= E - k
      BY <1>1, <1>2, <1>8
    <3> DEFINE v == n.vals
               c == E - k
    <3>2. N \in Nat /\ c \in Nat /\ N \in 0 .. N
      BY <1>1, <1>3
    <3>3. \A i \in 1 .. N : Len(v[i]) \in Nat /\ Len(v[i]) <= c
      BY <3>1
    <3> HIDE DEF N, E, v, c
    <3>4. FirstTotal(v, N) <= N * c
      BY <3>2, <3>3, FirstTotalBounded
    <3>5. \A i \in 0 .. N : FirstTotal(v, i) \in Nat
      BY <3>2, <3>3, FirstTotalStep
    <3> QED
      BY <3>2, <3>4, <3>5 DEF v, c
  <2>2. Ending(n) = L!Room - 4 * N - FirstTotal(n.vals, N)
    BY <1>8 DEF Ending, ValueStart
  <2> HIDE DEF N, E
  <2> QED
    BY <1>1, <1>4, <1>5, <1>6, <1>7, <1>8, <2>1, <2>2 DEF Fits
<1>9. CASE ~IsLeaf(n)
  <2> HIDE DEF N, E
  <2>1. N = 0 \/ 1 <= N
    BY <1>1
  <2>2. N = 0 => N * k = 0
    BY <1>3
  <2> QED
    BY <1>1, <1>4, <1>5, <1>6, <1>7, <1>9, <2>1, <2>2 DEF Fits
<1> QED
  BY <1>8, <1>9

(* A page laid out like its node has nothing behind its end, and its values    *)
(* are behind its keys.                                                        *)
LEMMA LaidOutHasRoom ==
  ASSUME NEW n, Shaped(n), Fits(n)
  PROVE  HasRoom(PageOf(n))
<1>1. CASE n = Blank
  <2>1. PageOf(n) = None /\ None.kind \notin Leaves
    BY <1>1 DEF PageOf, None, L!Create, Leaves
  <2>2. L!Room >= 12 /\ L!Room \in Nat
    BY <1>1, BlankReads, StringsOf
  <2> QED
    BY <2>1, <2>2, BlankReads DEF HasRoom
<1>2. CASE n # Blank
  <2> DEFINE pg == PageOf(n)
             N == Size(n)
  <2>1. ASSUME NEW a \in DOMAIN pg.mem PROVE a + pg.mem[a].len <= L!Room
    <3>1. PICK y \in Items(n) : a = y[1] /\ pg.mem[a] = y[2]
      BY <1>2, ItemAt
    <3> QED
      BY <3>1, ItemsZone DEF Zone
  <2>2. ASSUME pg.kind \in Leaves, NEW i \in L!Indexes(pg), NEW j \in L!Indexes(pg)
        PROVE  L!KeyOffset(pg, i) + L!KeyAt(pg, i).len + 4 <= L!LinkAfter(pg, j)
    <3>1. IsLeaf(n)
      BY <1>2, <2>2 DEF PageOf, IsLeaf
    <3>2. N \in Nat /\ L!Indexes(pg) = 0 .. N - 1
      BY <1>2, HeaderReads, StringsOf DEF L!Indexes
    <3> DEFINE f == i + 1
               g == j + 1
    <3>3. f \in 1 .. N /\ f - 1 = i /\ g \in 1 .. N /\ g - 1 = j
      BY <2>2, <3>2
    <3> HIDE DEF f, g
    <3>4. L!LinkAfter(pg, g - 1) = ValueStart(n, g)
      BY <3>1, <3>3, ValueReads
    <3>5. L!KeyOffset(pg, f - 1) = KeyStart(n, f)
          /\ L!KeyAt(pg, f - 1).len = 4 + Len(KeyStrings(n)[f])
      <4>1. KeyStrings(n)[f] \in Strings
        BY <3>3, StringsOf
      <4> QED
        BY <1>2, <3>3, <4>1, KeyReads, ItemLengths
    <3>6. /\ KeyStart(n, f) \in Nat /\ Begining(n) \in Nat /\ Len(KeyStrings(n)[f]) \in Nat
          /\ KeyStart(n, f) + 8 + Len(KeyStrings(n)[f]) <= Begining(n)
      <4>1. f < N + 1 /\ N + 1 \in 1 .. N + 1 /\ f \in 1 .. N + 1
        BY <3>2, <3>3
      <4> QED
        BY <3>3, <4>1, KeyStarts, StringsOf DEF Begining
    <3>7. Begining(n) <= ValueStart(n, N) /\ ValueStart(n, N) \in Int
          /\ ValueStart(n, g) \in Int /\ ValueStart(n, N) <= ValueStart(n, g)
      <4>1. g \in 0 .. N /\ N \in 0 .. N /\ g <= N
        BY <3>2, <3>3
      <4> QED
        BY <3>1, <4>1, ValueStarts DEF Fits, Ending
    <3> QED
      BY <3>3, <3>4, <3>5, <3>6, <3>7
  <2> QED
    BY <2>1, <2>2 DEF HasRoom
<1> QED
  BY <1>1, <1>2

(* Small entries always have room: pages are divided in time.                  *)
LEMMA CanonicalSmallFits ==
  ASSUME TypeOK, Canonical
  PROVE  SmallEntriesFit
<1> SUFFICES ASSUME AllSmall
             PROVE  AllFit /\ \A x \in DOMAIN nodes : HasRoom(pages[x])
  BY DEF SmallEntriesFit
<1>1. PICK k \in 0 .. EntryRoom : \A x \in DOMAIN nodes :
        /\ \A i \in DOMAIN nodes[x].keys : Len(KeyStrings(nodes[x])[i]) <= k
        /\ \A i \in DOMAIN nodes[x].vals : Len(nodes[x].vals[i]) <= EntryRoom - k
  BY DEF AllSmall
<1>2. EntryRoom \in Nat
  <2>1. EntryRoom \in Int
    BY PageEditsAssumption, BTreeNodeAssumption DEF EntryRoom, L!Room
  <2> QED
    BY <1>1, <2>1
<1>3. ASSUME NEW x \in DOMAIN nodes PROVE Shaped(nodes[x]) /\ Fits(nodes[x])
  <2>1. Size(nodes[x]) <= NodesUp
    BY BlankReads, BTreeNodeAssumption DEF TypeOK
  <2> QED
    BY <1>1, <1>2, <2>1, TypeShapes, SmallNodeFits
<1>4. AllFit
  BY <1>3 DEF AllFit
<1>5. ASSUME NEW x \in DOMAIN nodes PROVE HasRoom(pages[x])
  BY <1>3, <1>4, LaidOutHasRoom DEF Canonical
<1> QED
  BY <1>4, <1>5

(* Every search of the code finds in it what BTree finds in the node.          *)
LEMMA CanonicalReadsBack ==
  ASSUME TypeOK, Canonical
  PROVE  ReadsBack
<1> SUFFICES ASSUME AllFit, NEW x \in DOMAIN nodes, Readable(nodes[x])
             PROVE  LET n == nodes[x]
                        pg == pages[x]
                    IN  /\ \A k \in Keys : L!FindPos(pg, Bytes[k]) = FindPos(n, k)
                        /\ IsLeaf(n) =>
                             \A k \in Keys :
                               L!Select(pg, Bytes[k]) =
                                 LET i == SelectInSeq(n.keys, LAMBDA y : y = k)
                                 IN  IF i = 0 THEN <<>> ELSE <<n.vals[i]>>
                        /\ n.kind \in Interiors =>
                             /\ L!FindLinks(pg) = n.links
                             /\ \A k \in Keys : L!LinkFor(pg, Bytes[k]) = LinkFor(n, k)
  BY DEF ReadsBack
<1> DEFINE n == nodes[x]
<1>1. /\ Shaped(n) /\ Fits(n) /\ pages[x] = PageOf(n)
      /\ n = Blank \/ n.kind \in Leaves \union Interiors
      /\ ~IsLeaf(n) => Begining(n) < HalfWord
      /\ ~IsLeaf(n) /\ n # Blank => Len(n.links) = Size(n) + 1
  BY TypeShapes DEF Canonical, AllFit, Readable
<1> HIDE DEF n
<1>2. CASE n = Blank
  <2>1. pages[x] = None
    BY <1>1, <1>2 DEF PageOf
  <2> QED
    BY <1>2, <2>1, BlankReads DEF n
<1>3. CASE n # Blank
  <2>1. \A k \in Keys : L!FindPos(pages[x], Bytes[k]) = FindPos(n, k)
    BY <1>1, <1>3, FindPosReads
  <2>2. ASSUME IsLeaf(n)
        PROVE  \A k \in Keys :
                 L!Select(pages[x], Bytes[k]) =
                   LET i == SelectInSeq(n.keys, LAMBDA y : y = k)
                   IN  IF i = 0 THEN <<>> ELSE <<n.vals[i]>>
    BY <1>1, <2>2, SelectReads
  <2>3. ASSUME n.kind \in Interiors
        PROVE  /\ L!FindLinks(pages[x]) = n.links
               /\ \A k \in Keys : L!LinkFor(pages[x], Bytes[k]) = LinkFor(n, k)
    <3>1. ~IsLeaf(n)
      BY <2>3 DEF IsLeaf, Leaves, Interiors
    <3> QED
      BY <1>1, <1>3, <3>1, LinksRead
  <2> QED
    BY <2>1, <2>2, <2>3 DEF n
<1> QED
  BY <1>2, <1>3

-------------------------------------------------------------------------------
(* Writing a page *)

(* Items that do not overlap are found at their offsets.                       *)
LEMMA MemIs ==
  ASSUME NEW A, NEW lo, NEW hi, Zone(A, lo, hi)
  PROVE  /\ Mem(A) = [a \in {x[1] : x \in A} |-> Mem(A)[a]]
         /\ \A x \in A : Mem(A)[x[1]] = x[2]
         /\ \A x, y \in A : x[1] = y[1] => x = y
<1>1. \A x \in A : x[1] \in Int /\ x[2].len \in Nat \ {0}
  BY DEF Zone
<1>2. \A x, y \in A : x[1] = y[1] => x = y
  BY <1>1 DEF Zone
<1>3. ASSUME NEW x \in A PROVE Mem(A)[x[1]] = x[2]
  <2>1. (CHOOSE y \in A : y[1] = x[1]) = x
    BY <1>2
  <2> QED
    BY <2>1 DEF Mem
<1>4. Mem(A) = [a \in {x[1] : x \in A} |-> Mem(A)[a]]
  BY DEF Mem
<1> QED
  BY <1>2, <1>3, <1>4

(* A write replaces what is at its place, and nothing else.                    *)
Rewritten(A, B, o, item) ==
  /\ <<o, item>> \in B
  /\ \A x \in B : x = <<o, item>> \/ x \in A
  /\ \A x \in A : x[1] = o \/ x \in B

LEMMA PutWrites ==
  ASSUME NEW A, NEW o, NEW item, NEW B, NEW lo, NEW hi, Zone(A, lo, hi), Zone(B, lo, hi),
         Rewritten(A, B, o, item)
  PROVE  L!Put(Mem(A), o, item) = Mem(B)
<1>1. /\ <<o, item>> \in B /\ \A x \in B : x = <<o, item>> \/ x \in A
      /\ \A x \in A : x[1] = o \/ x \in B
  BY DEF Rewritten
<1>2. /\ DOMAIN Mem(A) = {x[1] : x \in A}
      /\ \A x \in A : Mem(A)[x[1]] = x[2]
  <2>1. DOMAIN Mem(A) = {x[1] : x \in A}
    BY DEF Mem
  <2>2. \A x \in A : Mem(A)[x[1]] = x[2]
    BY MemIs
  <2> QED
    BY <2>1, <2>2
<1>3. /\ Mem(B) = [a \in {x[1] : x \in B} |-> Mem(B)[a]]
      /\ \A x \in B : Mem(B)[x[1]] = x[2]
      /\ \A x, y \in B : x[1] = y[1] => x = y
  BY MemIs
<1> DEFINE w == <<o, item>>
           kept == {a \in DOMAIN Mem(A) : a + Mem(A)[a].len <= o \/ o + item.len <= a}
<1>4. w \in B /\ w[1] = o /\ w[2] = item /\ Mem(B)[o] = item
  <2>1. w \in B /\ w[1] = o /\ w[2] = item
    BY <1>1
  <2> QED
    BY <1>3, <2>1
<1>5. ASSUME NEW x \in B PROVE x = w \/ x[1] \in kept
  <2>1. x = w \/ x[1] + x[2].len <= w[1] \/ w[1] + w[2].len <= x[1]
    BY <1>4 DEF Zone
  <2> QED
    BY <1>1, <1>2, <1>4, <2>1
<1>6. kept \union {o} = {x[1] : x \in B}
  <2>1. ASSUME NEW a \in kept PROVE a \in {x[1] : x \in B}
    BY <1>1, <1>2, <1>4
  <2>2. ASSUME NEW x \in B PROVE x[1] \in kept \union {o}
    BY <1>4, <1>5
  <2> QED
    BY <1>4, <2>1, <2>2
<1>7. ASSUME NEW a \in kept \union {o}
      PROVE  (IF a = o THEN item ELSE Mem(A)[a]) = Mem(B)[a]
  <2>1. CASE a = o
    BY <1>4, <2>1
  <2>2. CASE a # o
    <3>1. PICK x \in A : x[1] = a
      BY <1>2, <2>2
    <3> QED
      BY <1>1, <1>2, <1>3, <2>2, <3>1
  <2> QED
    BY <2>1, <2>2
<1>8. L!Put(Mem(A), o, item) = [a \in kept \union {o} |-> IF a = o THEN item ELSE Mem(A)[a]]
  BY DEF L!Put
<1> HIDE DEF kept
<1>9. L!Put(Mem(A), o, item) = [a \in kept \union {o} |-> Mem(B)[a]]
  BY <1>7, <1>8
<1> QED
  BY <1>3, <1>6, <1>9

(* A write beside all that is there adds an item.                              *)
LEMMA PutAdds ==
  ASSUME NEW A, NEW o, NEW item, NEW B, B = A \union {<<o, item>>},
         NEW lo, NEW hi, Zone(B, lo, hi)
  PROVE  L!Put(Mem(A), o, item) = Mem(B)
<1>1. Zone(A, lo, hi)
  BY DEF Zone
<1>2. Rewritten(A, B, o, item)
  BY DEF Rewritten
<1> QED
  BY <1>1, <1>2, PutWrites

(* Some of the items of a zone.                                                *)
LEMMA ZoneOfPart ==
  ASSUME NEW A, NEW lo, NEW hi, Zone(A, lo, hi), NEW B \in SUBSET A
  PROVE  Zone(B, lo, hi)
  BY DEF Zone

(* A loop that fills a leaf, when it has written the first entries.            *)
LeafTo(m, j) ==
  {<<4, L!Word(m.parent)>>, <<8, L!Word(Size(m))>>}
    \union {<<8 + 4 * i, L!Word(KeyStart(m, i))>> : i \in 1 .. j}
    \union {<<KeyStart(m, i), L!Entry(KeyStrings(m)[i])>> : i \in 1 .. j}
    \union {<<KeyStart(m, i + 1) - 4, L!Word(ValueStart(m, i))>> : i \in 1 .. j}
    \union {<<ValueStart(m, i), L!Entry(m.vals[i])>> : i \in 1 .. j}

LeafLoop(m, j, old) ==
  [mem |-> Mem(LeafTo(m, j)),
   begining |-> KeyStart(m, j + 1), ending |-> ValueStart(m, j), new |-> j, old |-> old]

(* What such a loop has written is there in the end.                           *)
LEMMA LeafToItems ==
  ASSUME NEW m, Shaped(m), IsLeaf(m), NEW j \in 0 .. Size(m)
  PROVE  LeafTo(m, j) \subseteq Items(m)
<1>1. 1 .. j \subseteq 1 .. Size(m)
  BY StringsOf
<1> QED
  BY <1>1 DEF LeafTo, Items, Header, Slots, KeyItems, ValueItems

(* A turn that writes the next entry.                                          *)
LEMMA AddLeafIs ==
  ASSUME NEW m, Shaped(m), Fits(m), IsLeaf(m), NEW j \in 0 .. Size(m) - 1, NEW old
  PROVE  L!AddLeaf(LeafLoop(m, j, old), L!Entry(KeyStrings(m)[j + 1]), L!Entry(m.vals[j + 1]))
           = LeafLoop(m, j + 1, old)
<1> DEFINE key == L!Entry(KeyStrings(m)[j + 1])
           data == L!Entry(m.vals[j + 1])
           b == KeyStart(m, j + 1)
           b2 == KeyStart(m, j + 2)
           e == ValueStart(m, j + 1)
           A == LeafTo(m, j)
           A1 == A \union {<<8 + 4 * (j + 1), L!Word(b)>>}
           A2 == A1 \union {<<b, key>>}
           A3 == A2 \union {<<b2 - 4, L!Word(e)>>}
           A4 == A3 \union {<<e, data>>}
<1>1. /\ j + 1 \in 1 .. Size(m) /\ j \in 0 .. Size(m) /\ j + 1 \in 0 .. Size(m) /\ j \in Nat
      /\ (j + 1) - 1 = j /\ (j + 1) + 1 = j + 2 /\ j + 1 \in 1 .. Size(m) + 1
      /\ 1 .. j + 1 = (1 .. j) \union {j + 1}
  BY StringsOf
<1>2. LeafTo(m, j + 1) = A4
  BY <1>1 DEF LeafTo
<1>3. Zone(LeafTo(m, j + 1), 0, L!Room)
  BY <1>1, LeafToItems, ItemsZone, ZoneOfPart
<1>4. /\ key.len = 4 + Len(KeyStrings(m)[j + 1]) /\ data.len = 4 + Len(m.vals[j + 1])
      /\ Len(KeyStrings(m)[j + 1]) \in Nat /\ Len(m.vals[j + 1]) \in Nat
  BY <1>1, StringsOf, ItemLengths
<1>5. b2 = b + 8 + Len(KeyStrings(m)[j + 1]) /\ b \in Nat
  BY <1>1, KeyStarts
<1>6. e = ValueStart(m, j) - data.len /\ ValueStart(m, j) \in Int
  BY <1>1, <1>4, ValueStarts
<1>7. b + key.len = b2 - 4 /\ b + key.len + 4 = b2
  <2> DEFINE c == Len(KeyStrings(m)[j + 1])
  <2>1. c \in Nat /\ b \in Nat /\ key.len = 4 + c /\ b2 = b + 8 + c
    BY <1>4, <1>5
  <2> HIDE DEF c, key, b, b2
  <2> QED
    BY <2>1
<1>8. L!Slot(j) = 8 + 4 * (j + 1)
  BY <1>1 DEF L!Slot
<1> HIDE DEF key, data, b, b2, e, A
<1>9. Zone(A1, 0, L!Room) /\ Zone(A2, 0, L!Room) /\ Zone(A3, 0, L!Room) /\ Zone(A4, 0, L!Room)
  BY <1>2, <1>3, ZoneOfPart
<1> HIDE DEF A1, A2, A3, A4
<1>10. /\ L!Put(Mem(A), L!Slot(j), L!Word(b)) = Mem(A1)
       /\ L!Put(Mem(A1), b, key) = Mem(A2)
       /\ L!Put(Mem(A2), b + key.len, L!Word(e)) = Mem(A3)
       /\ L!Put(Mem(A3), e, data) = Mem(A4)
  <2>1. L!Put(Mem(A), L!Slot(j), L!Word(b)) = Mem(A1)
    BY <1>8, <1>9, PutAdds DEF A1
  <2>2. L!Put(Mem(A1), b, key) = Mem(A2)
    BY <1>9, PutAdds DEF A2
  <2>3. L!Put(Mem(A2), b + key.len, L!Word(e)) = Mem(A3)
    BY <1>7, <1>9, PutAdds DEF A3
  <2>4. L!Put(Mem(A3), e, data) = Mem(A4)
    BY <1>9, PutAdds DEF A4
  <2> QED
    BY <2>1, <2>2, <2>3, <2>4
<1>11. LeafLoop(m, j, old) =
         [mem |-> Mem(A),
          begining |-> b, ending |-> ValueStart(m, j), new |-> j, old |-> old]
  BY DEF LeafLoop, A, b
<1>12. LeafLoop(m, j + 1, old) =
         [mem |-> Mem(A4),
          begining |-> b2, ending |-> e, new |-> j + 1, old |-> old]
  BY <1>1, <1>2 DEF LeafLoop, b2, e
<1>13. L!AddLeaf(LeafLoop(m, j, old), key, data) = LeafLoop(m, j + 1, old)
  <2> DEFINE x == LeafLoop(m, j, old)
  <2>1. /\ x.mem = Mem(A) /\ x.begining = b /\ x.new = j /\ x.ending - data.len = e
        /\ x.old = old
    BY <1>6, <1>11
  <2> HIDE DEF x
  <2>2. L!AddLeaf(x, key, data) = L!Filled(Mem(A4), b + key.len + 4, e, j + 1, old)
    BY <1>10, <2>1, Zenon DEF L!AddLeaf
  <2> QED
    BY <1>7, <1>12, <2>2 DEF x, L!Filled
<1> QED
  BY <1>13 DEF key, data

(* A loop that does what is expected in each turn ends as expected.            *)
LEMMA ForIs ==
  ASSUME NEW l \in Int, NEW r \in Int, l <= r, NEW f, NEW T, f[l] = T[l],
         \A i \in l + 1 .. r : f[i - 1] = T[i - 1] => f[i] = T[i]
  PROVE  f[r] = T[r]
<1> DEFINE S == {d \in Nat : l + d <= r => f[l + d] = T[l + d]}
<1>1. 0 \in S
  OBVIOUS
<1>2. ASSUME NEW d \in S PROVE d + 1 \in S
  <2> SUFFICES ASSUME l + (d + 1) <= r PROVE f[l + (d + 1)] = T[l + (d + 1)]
    OBVIOUS
  <2> DEFINE i == l + (d + 1)
  <2>1. i \in l + 1 .. r /\ i - 1 = l + d /\ l + d <= r
    OBVIOUS
  <2>2. f[l + d] = T[l + d]
    BY <2>1
  <2> QED
    BY <2>1, <2>2
<1>3. S = Nat
  <2> HIDE DEF S
  <2>1. S \in SUBSET Nat
    BY DEF S
  <2> QED
    BY <1>1, <1>2, <2>1, AllNumbers
<1> DEFINE d == r - l
<1>4. d \in Nat /\ l + d = r
  OBVIOUS
<1>5. l + d <= r => f[l + d] = T[l + d]
  BY <1>3, <1>4
<1> HIDE DEF d
<1> QED
  BY <1>4, <1>5

(* The page that a loop starts with.                                           *)
NewPage(m) == L!Create(m.kind, m.number, m.parent, Size(m))

(* page_create, with the number of keys and the parent.                        *)
LEMMA NewPageIs ==
  ASSUME NEW m, Shaped(m), Fits(m)
  PROVE  NewPage(m).mem = Mem({<<4, L!Word(m.parent)>>, <<8, L!Word(Size(m))>>})
<1> DEFINE A == {<<4, L!Word(m.parent)>>, <<8, L!Word(Size(m))>>}
<1>1. A \in SUBSET Items(m)
  BY DEF Items, Header
<1>2. Zone(A, 0, L!Room)
  BY <1>1, ItemsZone, ZoneOfPart
<1>3. /\ Mem(A) = [a \in {x[1] : x \in A} |-> Mem(A)[a]]
      /\ \A x \in A : Mem(A)[x[1]] = x[2]
  <2> HIDE DEF A
  <2> QED
    BY <1>2, MemIs
<1>4. {x[1] : x \in A} = {4, 8} /\ Mem(A)[4] = L!Word(m.parent) /\ Mem(A)[8] = L!Word(Size(m))
  <2>1. <<4, L!Word(m.parent)>> \in A /\ <<8, L!Word(Size(m))>> \in A
    OBVIOUS
  <2> QED
    BY <1>3, <2>1
<1>5. NewPage(m).mem = [a \in {4, 8} |-> L!Word(IF a = 4 THEN m.parent ELSE Size(m))]
  BY DEF NewPage, L!Create
<1> HIDE DEF A
<1>6. \A a \in {4, 8} : L!Word(IF a = 4 THEN m.parent ELSE Size(m)) = Mem(A)[a]
  BY <1>4
<1>7. NewPage(m).mem = [a \in {4, 8} |-> Mem(A)[a]]
  BY <1>5, <1>6
<1> QED
  BY <1>3, <1>4, <1>7 DEF A

(* A loop that fills a leaf starts with no entry ...                           *)
LEMMA LeafStarts ==
  ASSUME NEW m, Shaped(m), Fits(m), IsLeaf(m), NEW from
  PROVE  L!Loop(NewPage(m), Size(m), from) = LeafLoop(m, 0, from)
<1>1. LeafTo(m, 0) = {<<4, L!Word(m.parent)>>, <<8, L!Word(Size(m))>>}
  BY DEF LeafTo
<1>2. L!Slot(Size(m)) = KeyStart(m, 0 + 1) /\ L!Room = ValueStart(m, 0)
  <2>1. KeyStart(m, 1) = 12 + 4 * Size(m) + 0 /\ Size(m) \in Nat
    BY KeyStarts, StringsOf
  <2> QED
    BY <2>1, ValueStarts DEF L!Slot
<1>3. NewPage(m).mem = Mem(LeafTo(m, 0))
  BY <1>1, NewPageIs
<1> QED
  BY <1>2, <1>3 DEF L!Loop, L!Filled, LeafLoop

(* What a finished loop leaves, with begining and ending written.              *)
LEMMA PageFinished ==
  ASSUME NEW m, Shaped(m), Fits(m), m # Blank, NEW A, NEW x,
         Items(m) = A \union {<<0, L!Short(Begining(m))>>, <<2, L!Short(Ending(m))>>},
         x.mem = Mem(A), x.begining = Begining(m)
  PROVE  L!Finished(NewPage(m), x, Ending(m)) = PageOf(m)
<1> DEFINE A1 == A \union {<<0, L!Short(Begining(m))>>}
           A2 == A1 \union {<<2, L!Short(Ending(m))>>}
<1>1. A2 = Items(m) /\ A1 \in SUBSET Items(m)
  OBVIOUS
<1>2. Zone(A2, 0, L!Room) /\ Zone(A1, 0, L!Room)
  BY <1>1, ItemsZone, ZoneOfPart
<1> HIDE DEF A1, A2
<1>3. L!Put(Mem(A), 0, L!Short(Begining(m))) = Mem(A1)
  BY <1>2, PutAdds DEF A1
<1>4. L!Put(Mem(A1), 2, L!Short(Ending(m))) = Mem(A2)
  BY <1>2, PutAdds DEF A2
<1>5. L!Finished(NewPage(m), x, Ending(m)) = [NewPage(m) EXCEPT !.mem = Mem(Items(m))]
  BY <1>1, <1>3, <1>4, Zenon DEF L!Finished
<1> DEFINE t == NewPage(m)
<1>6. t = [kind |-> m.kind, number |-> m.number, mem |-> t.mem]
  BY DEF NewPage, L!Create
<1> HIDE DEF t
<1>7. [t EXCEPT !.mem = Mem(Items(m))] = [kind |-> m.kind, number |-> m.number, mem |-> Mem(Items(m))]
  BY <1>6
<1> QED
  BY <1>5, <1>7 DEF t, PageOf

(* ... and ends with all.                                                      *)
LEMMA LeafFinished ==
  ASSUME NEW m, Shaped(m), Fits(m), IsLeaf(m), NEW old, NEW x, x = LeafLoop(m, Size(m), old)
  PROVE  L!Finished(NewPage(m), x, x.ending) = PageOf(m)
<1>1. x.mem = Mem(LeafTo(m, Size(m))) /\ x.begining = Begining(m) /\ x.ending = Ending(m)
  BY DEF LeafLoop, Begining, Ending
<1>2. Items(m) = LeafTo(m, Size(m)) \union {<<0, L!Short(Begining(m))>>, <<2, L!Short(Ending(m))>>}
  BY DEF Items, LeafTo, Header, Slots, KeyItems, ValueItems
<1>3. m # Blank
  BY DEF IsLeaf, Blank, Leaves
<1> QED
  BY <1>1, <1>2, <1>3, PageFinished

(* A loop goes past an entry of the old page.                                  *)
LEMMA PastLeaf ==
  ASSUME NEW m, NEW j, NEW i
  PROVE  L!Past(LeafLoop(m, j, i)) = LeafLoop(m, j, i + 1)
<1> DEFINE x == LeafLoop(m, j, i)
<1>1. x = [mem |-> x.mem, begining |-> x.begining, ending |-> x.ending, new |-> x.new, old |-> i]
  BY DEF LeafLoop
<1>2. LeafLoop(m, j, i + 1) =
        [mem |-> x.mem, begining |-> x.begining, ending |-> x.ending, new |-> x.new, old |-> i + 1]
  BY DEF LeafLoop
<1> HIDE DEF x
<1>3. L!Past(x) = LeafLoop(m, j, i + 1)
  BY <1>1, <1>2 DEF L!Past
<1> QED
  BY <1>3 DEF x

(* A turn that copies an entry.                                                *)
LEMMA CopyLeafIs ==
  ASSUME NEW n, Shaped(n), Fits(n), IsLeaf(n), NEW m, Shaped(m), Fits(m), IsLeaf(m),
         NEW j \in 0 .. Size(m) - 1, NEW i \in 0 .. Size(n) - 1,
         m.keys[j + 1] = n.keys[i + 1], m.vals[j + 1] = n.vals[i + 1]
  PROVE  L!CopyLeaf(LeafLoop(m, j, i), PageOf(n)) = LeafLoop(m, j + 1, i + 1)
<1>1. i + 1 \in 1 .. Size(n) /\ (i + 1) - 1 = i /\ j + 1 \in 1 .. Size(m)
  BY StringsOf
<1>2. n # Blank
  BY DEF IsLeaf, Blank, Leaves
<1>3. KeyStrings(m)[j + 1] = KeyStrings(n)[i + 1]
  <2>1. /\ KeyStrings(m)[j + 1] = Bytes[m.keys[j + 1]]
        /\ KeyStrings(n)[i + 1] = Bytes[n.keys[i + 1]]
    BY <1>1, StringsOf
  <2> QED
    BY <2>1
<1>4. /\ L!KeyAt(PageOf(n), i) = L!Entry(KeyStrings(m)[j + 1])
      /\ L!DataAt(PageOf(n), i) = L!Entry(m.vals[j + 1])
  <2> DEFINE h == i + 1
  <2>1. h \in 1 .. Size(n) /\ h - 1 = i
    BY <1>1
  <2> HIDE DEF h
  <2>2. L!KeyAt(PageOf(n), h - 1) = L!Entry(KeyStrings(n)[h]) /\ L!DataAt(PageOf(n), h - 1) = L!Entry(n.vals[h])
    BY <1>2, <2>1, KeyReads, ValueReads
  <2> QED
    BY <1>3, <2>1, <2>2 DEF h
<1>5. LeafLoop(m, j, i).old = i
  BY DEF LeafLoop
<1>6. L!CopyLeaf(LeafLoop(m, j, i), PageOf(n)) = L!Past(LeafLoop(m, j + 1, i))
  BY <1>4, <1>5, AddLeafIs, Zenon DEF L!CopyLeaf
<1> QED
  BY <1>6, PastLeaf

(* The loops of fill_leaf: m has the entries of n in their order, but k and v  *)
(* at pos.                                                                     *)
Entries(m, n, l, r, pos, k, v) ==
  /\ Size(m) = r - l
  /\ \A i \in l .. r - 1 :
       LET j == i - l + 1
           o == IF i < pos THEN i + 1 ELSE i
       IN  IF i = pos THEN m.keys[j] = k /\ m.vals[j] = v
           ELSE o \in 1 .. Size(n) /\ m.keys[j] = n.keys[o] /\ m.vals[j] = n.vals[o]

LEMMA FillLeafIs ==
  ASSUME NEW n, Shaped(n), Fits(n), IsLeaf(n), NEW m, Shaped(m), Fits(m), IsLeaf(m),
         NEW l \in Nat, NEW r \in Nat, l <= r, NEW pos \in Nat,
         NEW k \in Keys, NEW v \in Values, Entries(m, n, l, r, pos, k, v)
  PROVE  L!FillLeaf(PageOf(n), NewPage(m), l, r, pos, Bytes[k], v) = PageOf(m)
<1> DEFINE p == PageOf(n)
           t == NewPage(m)
           start == L!Loop(t, r - l, IF pos < l THEN l - 1 ELSE l)
           Turn(x, i) == IF i = pos THEN L!AddLeaf(x, L!Entry(Bytes[k]), L!Entry(v))
                         ELSE L!CopyLeaf(x, p)
           Old(i) == IF pos < i THEN i - 1 ELSE i
           T == [i \in l .. r |-> LeafLoop(m, i - l, Old(i))]
           f == CHOOSE f : f = [i \in l .. r |-> IF i = l THEN start ELSE Turn(f[i - 1], i - 1)]
<1>1. start = LeafLoop(m, 0, Old(l))
  BY LeafStarts DEF Entries
<1>2. ASSUME NEW i \in l .. r - 1
      PROVE  Turn(LeafLoop(m, i - l, Old(i)), i) = LeafLoop(m, i - l + 1, Old(i + 1))
  <2> DEFINE j == i - l
  <2>1. j \in 0 .. Size(m) - 1 /\ j + 1 \in 1 .. Size(m) /\ i \in Nat
    BY DEF Entries
  <2>2. CASE i = pos
    <3>1. m.keys[j + 1] = k /\ m.vals[j + 1] = v /\ Old(i + 1) = Old(i)
      BY <2>1, <2>2 DEF Entries
    <3>2. KeyStrings(m)[j + 1] = Bytes[k]
      BY <2>1, <3>1, StringsOf
    <3> HIDE DEF j, Old
    <3>3. L!AddLeaf(LeafLoop(m, j, Old(i)), L!Entry(Bytes[k]), L!Entry(v)) = LeafLoop(m, j + 1, Old(i))
      BY <2>1, <3>1, <3>2, AddLeafIs
    <3> QED
      BY <2>2, <3>1, <3>3 DEF j
  <2>3. CASE i # pos
    <3> DEFINE h == Old(i)
    <3>1. /\ h + 1 = (IF i < pos THEN i + 1 ELSE i) /\ Old(i + 1) = h + 1
          /\ h \in Int
      BY <2>1, <2>3
    <3>2. /\ h + 1 \in 1 .. Size(n)
          /\ m.keys[j + 1] = n.keys[h + 1] /\ m.vals[j + 1] = n.vals[h + 1]
      BY <2>1, <2>3, <3>1 DEF Entries
    <3> HIDE DEF h, j, Old
    <3>3. h \in 0 .. Size(n) - 1
      BY <3>1, <3>2, StringsOf
    <3>4. L!CopyLeaf(LeafLoop(m, j, h), p) = LeafLoop(m, j + 1, h + 1)
      BY <2>1, <3>2, <3>3, CopyLeafIs
    <3> QED
      BY <2>3, <3>1, <3>4 DEF h, j
  <2> QED
    BY <2>2, <2>3
<1>3. T = [i \in l .. r |-> IF i = l THEN start ELSE Turn(T[i - 1], i - 1)]
  <2>1. ASSUME NEW i \in l .. r, i # l PROVE T[i] = Turn(T[i - 1], i - 1)
    <3>1. i - 1 \in l .. r - 1 /\ i - 1 \in l .. r /\ (i - 1) - l + 1 = i - l /\ (i - 1) + 1 = i
      BY <2>1
    <3> HIDE DEF Turn, Old
    <3>2. T[i] = LeafLoop(m, (i - 1) - l + 1, Old((i - 1) + 1)) /\ T[i - 1] = LeafLoop(m, (i - 1) - l, Old(i - 1))
      BY <3>1
    <3> QED
      BY <1>2, <3>1, <3>2
  <2>2. T[l] = start
    <3>1. l \in l .. r /\ l - l = 0
      OBVIOUS
    <3> QED
      BY <1>1, <3>1
  <2> HIDE DEF start, Turn, Old
  <2> QED
    BY <2>1, <2>2
<1> HIDE DEF start, Turn, T
<1>4. f = [i \in l .. r |-> IF i = l THEN start ELSE Turn(f[i - 1], i - 1)]
  BY <1>3
<1> HIDE DEF f
<1>5. f[r] = T[r]
  <2>1. f[l] = T[l]
    BY <1>3, <1>4
  <2>2. ASSUME NEW i \in l + 1 .. r, f[i - 1] = T[i - 1] PROVE f[i] = T[i]
    BY <1>3, <1>4, <2>2
  <2> QED
    BY <2>1, <2>2, ForIs
<1>6. T[r] = LeafLoop(m, Size(m), Old(r))
  BY DEF T, Entries
<1>7. L!FillLeaf(p, t, l, r, pos, Bytes[k], v) = L!Finished(t, f[r], f[r].ending)
  BY DEF L!FillLeaf, L!For, f, start, Turn
<1> QED
  BY <1>5, <1>6, <1>7, LeafFinished

(* The loop of fill_leaf_same: m has v as the value of k.                      *)
LEMMA FillLeafSameIs ==
  ASSUME NEW n, Shaped(n), Fits(n), IsLeaf(n), NEW m, Shaped(m), Fits(m), IsLeaf(m),
         NEW k \in Keys, NEW v \in Values, Size(m) = Size(n),
         \A i \in 1 .. Size(n) :
           m.keys[i] = n.keys[i] /\ m.vals[i] = IF n.keys[i] = k THEN v ELSE n.vals[i]
  PROVE  L!FillLeafSame(PageOf(n), NewPage(m), Bytes[k], v) = PageOf(m)
<1> DEFINE p == PageOf(n)
           t == NewPage(m)
           N == Size(n)
           start == L!Loop(t, N, 0)
           Turn(x, i) == IF L!Same(Bytes[k], L!KeyAt(p, i).bytes)
                         THEN L!Past(L!AddLeaf(x, L!KeyAt(p, i), L!Entry(v)))
                         ELSE L!CopyLeaf(x, p)
           T == [i \in 0 .. N |-> LeafLoop(m, i, i)]
           f == CHOOSE f : f = [i \in 0 .. N |-> IF i = 0 THEN start ELSE Turn(f[i - 1], i - 1)]
<1>0. N \in Nat /\ L!VertNum(p) = N
  <2>1. n # Blank
    BY DEF IsLeaf, Blank, Leaves
  <2> QED
    BY <2>1, StringsOf, HeaderReads
<1>1. start = LeafLoop(m, 0, 0)
  BY LeafStarts
<1>2. ASSUME NEW i \in 0 .. N - 1
      PROVE  Turn(LeafLoop(m, i, i), i) = LeafLoop(m, i + 1, i + 1)
  <2> DEFINE h == i + 1
  <2>1. h \in 1 .. N /\ h - 1 = i /\ i \in 0 .. Size(m) - 1
    BY <1>0
  <2>2. n # Blank
    BY DEF IsLeaf, Blank, Leaves
  <2> HIDE DEF h
  <2>3. /\ L!KeyAt(p, i) = L!Entry(KeyStrings(n)[h]) /\ L!KeyAt(p, i).bytes = Bytes[n.keys[h]]
        /\ n.keys[h] \in Keys /\ KeyStrings(n)[h] = Bytes[n.keys[h]]
    BY <2>1, <2>2, KeyReads, StringsOf
  <2>4. KeyStrings(m)[h] = KeyStrings(n)[h]
    <3>1. KeyStrings(m)[h] = Bytes[m.keys[h]]
      BY <2>1, StringsOf
    <3> QED
      BY <2>1, <2>3, <3>1
  <2>5. L!Same(Bytes[k], L!KeyAt(p, i).bytes) <=> n.keys[h] = k
    BY <2>3, KeysAreNumbers
  <2>6. CASE n.keys[h] = k
    <3>1. m.vals[i + 1] = v /\ KeyStrings(m)[i + 1] = KeyStrings(n)[h]
      BY <2>1, <2>4, <2>6 DEF h
    <3>2. L!AddLeaf(LeafLoop(m, i, i), L!KeyAt(p, i), L!Entry(v)) = LeafLoop(m, i + 1, i)
      BY <2>1, <2>3, <3>1, AddLeafIs
    <3> QED
      BY <2>5, <2>6, <3>2, PastLeaf
  <2>7. CASE n.keys[h] # k
    <3>1. m.vals[i + 1] = n.vals[i + 1] /\ m.keys[i + 1] = n.keys[i + 1]
      BY <2>1, <2>7 DEF h
    <3>2. L!CopyLeaf(LeafLoop(m, i, i), p) = LeafLoop(m, i + 1, i + 1)
      BY <2>1, <3>1, CopyLeafIs
    <3> QED
      BY <2>5, <2>7, <3>2
  <2> QED
    BY <2>6, <2>7
<1>3. T = [i \in 0 .. N |-> IF i = 0 THEN start ELSE Turn(T[i - 1], i - 1)]
  <2>1. ASSUME NEW i \in 0 .. N, i # 0 PROVE T[i] = Turn(T[i - 1], i - 1)
    <3>1. i - 1 \in 0 .. N - 1 /\ i - 1 \in 0 .. N /\ (i - 1) + 1 = i
      BY <1>0, <2>1
    <3> HIDE DEF Turn
    <3>2. T[i] = LeafLoop(m, (i - 1) + 1, (i - 1) + 1) /\ T[i - 1] = LeafLoop(m, i - 1, i - 1)
      BY <3>1
    <3> QED
      BY <1>2, <3>1, <3>2
  <2>2. T[0] = start
    BY <1>0, <1>1
  <2> HIDE DEF start, Turn
  <2> QED
    BY <2>1, <2>2
<1> HIDE DEF start, Turn, T, N
<1>4. f = [i \in 0 .. N |-> IF i = 0 THEN start ELSE Turn(f[i - 1], i - 1)]
  BY <1>3
<1> HIDE DEF f
<1>5. f[N] = T[N]
  <2>1. f[0] = T[0]
    BY <1>0, <1>3, <1>4
  <2>2. ASSUME NEW i \in 0 + 1 .. N, f[i - 1] = T[i - 1] PROVE f[i] = T[i]
    BY <1>0, <1>3, <1>4, <2>2
  <2> QED
    BY <1>0, <2>1, <2>2, ForIs
<1>6. T[N] = LeafLoop(m, Size(m), N)
  BY <1>0 DEF T, N
<1>7. L!FillLeafSame(p, t, Bytes[k], v) = L!Finished(t, f[N], f[N].ending)
  BY <1>0 DEF L!FillLeafSame, L!For, f, start, Turn, N
<1> QED
  BY <1>5, <1>6, <1>7, LeafFinished

(* The loop of fill_leaf_delete: m lacks the entry at q.                       *)
LEMMA FillLeafDeleteIs ==
  ASSUME NEW n, Shaped(n), Fits(n), IsLeaf(n), NEW m, Shaped(m), Fits(m), IsLeaf(m),
         NEW q \in 1 .. Size(n), \A i \in 1 .. Size(n) : n.keys[i] = n.keys[q] => i = q,
         Size(m) = Size(n) - 1,
         \A i \in 1 .. Size(n) - 1 :
           LET o == IF i < q THEN i ELSE i + 1
           IN  m.keys[i] = n.keys[o] /\ m.vals[i] = n.vals[o]
  PROVE  L!FillLeafDelete(PageOf(n), NewPage(m), Bytes[n.keys[q]]) = PageOf(m)
<1> DEFINE p == PageOf(n)
           t == NewPage(m)
           N == Size(n)
           k == n.keys[q]
           start == L!Loop(t, N - 1, 0)
           Turn(x, i) == IF L!Same(Bytes[k], L!KeyAt(p, i).bytes)
                         THEN L!Past(x) ELSE L!CopyLeaf(x, p)
           New(i) == IF i < q THEN i ELSE i - 1
           T == [i \in 0 .. N |-> LeafLoop(m, New(i), i)]
           f == CHOOSE f : f = [i \in 0 .. N |-> IF i = 0 THEN start ELSE Turn(f[i - 1], i - 1)]
<1>0. N \in Nat /\ L!VertNum(p) = N /\ n # Blank /\ k \in Keys
  <2>1. n # Blank
    BY DEF IsLeaf, Blank, Leaves
  <2> QED
    BY <2>1, StringsOf, HeaderReads
<1>1. start = LeafLoop(m, 0, 0)
  BY LeafStarts
<1>2. ASSUME NEW i \in 0 .. N - 1
      PROVE  Turn(LeafLoop(m, New(i), i), i) = LeafLoop(m, New(i + 1), i + 1)
  <2> DEFINE h == i + 1
  <2>1. h \in 1 .. N /\ h - 1 = i
    BY <1>0
  <2> HIDE DEF h
  <2>2. L!KeyAt(p, i).bytes = Bytes[n.keys[h]] /\ n.keys[h] \in Keys
    BY <1>0, <2>1, KeyReads, StringsOf
  <2>3. L!Same(Bytes[k], L!KeyAt(p, i).bytes) <=> h = q
    BY <1>0, <2>1, <2>2, KeysAreNumbers
  <2>4. CASE h = q
    <3>1. New(i + 1) = New(i)
      BY <2>1, <2>4 DEF h
    <3> HIDE DEF New
    <3> QED
      BY <2>3, <2>4, <3>1, PastLeaf
  <2>5. CASE h # q
    <3> DEFINE j == New(i)
    <3>1. /\ New(i + 1) = j + 1 /\ j \in 0 .. Size(m) - 1
          /\ (IF j + 1 < q THEN j + 1 ELSE (j + 1) + 1) = i + 1 /\ j + 1 \in 1 .. N - 1
      BY <1>0, <2>1, <2>5 DEF h
    <3> HIDE DEF New, j
    <3>2. m.keys[j + 1] = n.keys[i + 1] /\ m.vals[j + 1] = n.vals[i + 1]
      BY <3>1
    <3>3. L!CopyLeaf(LeafLoop(m, j, i), p) = LeafLoop(m, j + 1, i + 1)
      BY <3>1, <3>2, CopyLeafIs
    <3> QED
      BY <2>3, <2>5, <3>1, <3>3 DEF j
  <2> QED
    BY <2>4, <2>5
<1>3. T = [i \in 0 .. N |-> IF i = 0 THEN start ELSE Turn(T[i - 1], i - 1)]
  <2>1. ASSUME NEW i \in 0 .. N, i # 0 PROVE T[i] = Turn(T[i - 1], i - 1)
    <3>1. i - 1 \in 0 .. N - 1 /\ i - 1 \in 0 .. N /\ (i - 1) + 1 = i
      BY <1>0, <2>1
    <3> HIDE DEF Turn, New
    <3>2. T[i] = LeafLoop(m, New((i - 1) + 1), (i - 1) + 1) /\ T[i - 1] = LeafLoop(m, New(i - 1), i - 1)
      BY <3>1
    <3> QED
      BY <1>2, <3>1, <3>2
  <2>2. T[0] = start
    BY <1>0, <1>1
  <2> HIDE DEF start, Turn, New
  <2> QED
    BY <2>1, <2>2
<1> HIDE DEF start, Turn, T, N
<1>4. f = [i \in 0 .. N |-> IF i = 0 THEN start ELSE Turn(f[i - 1], i - 1)]
  BY <1>3
<1> HIDE DEF f
<1>5. f[N] = T[N]
  <2>1. f[0] = T[0]
    BY <1>0, <1>3, <1>4
  <2>2. ASSUME NEW i \in 0 + 1 .. N, f[i - 1] = T[i - 1] PROVE f[i] = T[i]
    BY <1>0, <1>3, <1>4, <2>2
  <2> QED
    BY <1>0, <2>1, <2>2, ForIs
<1>6. T[N] = LeafLoop(m, Size(m), N)
  BY <1>0 DEF T, N
<1>7. L!FillLeafDelete(p, t, Bytes[k]) = L!Finished(t, f[N], f[N].ending)
  BY <1>0 DEF L!FillLeafDelete, L!For, f, start, Turn, N
<1> QED
  BY <1>5, <1>6, <1>7, LeafFinished

-------------------------------------------------------------------------------
(* What the operations on a leaf write *)

(* A page takes its kind, its number and its parent from the one before it.    *)
SameHead(n, m) == m.kind = n.kind /\ m.number = n.number /\ m.parent = n.parent

(* The page that an operation writes in the place of another.                  *)
LEMMA SuccessorIs ==
  ASSUME NEW n, Shaped(n), Fits(n), n # Blank, NEW m, SameHead(n, m)
  PROVE  L!Successor(PageOf(n), Size(m)) = NewPage(m)
<1>1. L!Cast(PageOf(n), 4) = m.parent
  BY HeaderReads DEF SameHead
<1>2. PageOf(n).kind = m.kind /\ PageOf(n).number = m.number
  BY DEF PageOf, SameHead
<1> QED
  BY <1>1, <1>2, Zenon DEF L!Successor, NewPage

(* A leaf is a page.                                                           *)
LEMMA LeavesAreThere ==
  ASSUME NEW n, IsLeaf(n)
  PROVE  n # Blank
  BY DEF IsLeaf, Blank, Leaves

(* insert_into_leaf, insert_same and delete_key_leaf, with their loops.        *)
LEMMA InsertIntoLeafWrites ==
  ASSUME NEW n, Shaped(n), Fits(n), IsLeaf(n), NEW m, Shaped(m), Fits(m), SameHead(n, m),
         NEW k \in Keys, NEW v \in Values, Entries(m, n, 0, Size(n) + 1, FindPos(n, k), k, v)
  PROVE  L!InsertIntoLeaf(PageOf(n), Bytes[k], v) = PageOf(m)
<1> DEFINE p == PageOf(n)
           pos == FindPos(n, k)
           N == Size(n) + 1
<1>1. n # Blank /\ IsLeaf(m)
  BY LeavesAreThere DEF SameHead, IsLeaf
<1>2. L!VertNum(p) = Size(n) /\ Size(n) \in Nat
  BY <1>1, HeaderReads, StringsOf
<1>3. L!FindPos(p, Bytes[k]) = pos /\ pos \in Nat
  BY <1>1, <1>2, FindPosReads
<1>4. Size(m) = N /\ N \in Nat /\ 0 <= N
  BY <1>2 DEF Entries
<1>5. L!Successor(p, N) = NewPage(m)
  BY <1>1, <1>4, SuccessorIs
<1>6. L!FillLeaf(p, NewPage(m), 0, N, pos, Bytes[k], v) = PageOf(m)
  BY <1>1, <1>3, <1>4, FillLeafIs
<1> HIDE DEF p, pos
<1> QED
  BY <1>2, <1>3, <1>5, <1>6 DEF L!InsertIntoLeaf, p

LEMMA InsertSameWrites ==
  ASSUME NEW n, Shaped(n), Fits(n), IsLeaf(n), NEW m, Shaped(m), Fits(m), SameHead(n, m),
         NEW k \in Keys, NEW v \in Values, Size(m) = Size(n),
         \A i \in 1 .. Size(n) :
           m.keys[i] = n.keys[i] /\ m.vals[i] = IF n.keys[i] = k THEN v ELSE n.vals[i]
  PROVE  L!InsertSame(PageOf(n), Bytes[k], v) = PageOf(m)
<1>1. n # Blank /\ IsLeaf(m)
  BY LeavesAreThere DEF SameHead, IsLeaf
<1>2. L!VertNum(PageOf(n)) = Size(m)
  BY <1>1, HeaderReads
<1>3. L!Successor(PageOf(n), Size(m)) = NewPage(m)
  BY <1>1, SuccessorIs
<1> QED
  BY <1>1, <1>2, <1>3, FillLeafSameIs DEF L!InsertSame

(* The entries of n without the one at q.                                      *)
Lacks(m, n, q) ==
  /\ Size(m) = Size(n) - 1
  /\ \A i \in 1 .. Size(n) - 1 :
       LET o == IF i < q THEN i ELSE i + 1
       IN  m.keys[i] = n.keys[o] /\ m.vals[i] = n.vals[o]

LEMMA DeleteKeyLeafWrites ==
  ASSUME NEW n, Shaped(n), Fits(n), IsLeaf(n), NEW m, Shaped(m), Fits(m), SameHead(n, m),
         NEW q \in 1 .. Size(n), \A i \in 1 .. Size(n) : n.keys[i] = n.keys[q] => i = q,
         Lacks(m, n, q)
  PROVE  L!DeleteKeyLeaf(PageOf(n), Bytes[n.keys[q]]) = PageOf(m)
<1>1. n # Blank /\ IsLeaf(m)
  BY LeavesAreThere DEF SameHead, IsLeaf
<1>2. L!VertNum(PageOf(n)) - 1 = Size(m)
  BY <1>1, HeaderReads DEF Lacks
<1>3. L!Successor(PageOf(n), Size(m)) = NewPage(m)
  BY <1>1, SuccessorIs
<1>4. L!FillLeafDelete(PageOf(n), NewPage(m), Bytes[n.keys[q]]) = PageOf(m)
  BY <1>1, FillLeafDeleteIs DEF Lacks
<1> QED
  BY <1>2, <1>3, <1>4 DEF L!DeleteKeyLeaf

(* create_root_leaf.                                                           *)
LEMMA CreateRootLeafWrites ==
  ASSUME NEW m, Shaped(m), Fits(m), m.kind = "RootLeaf", m.parent = 0, Size(m) = 1
  PROVE  L!CreateRootLeaf(m.number, Bytes[m.keys[1]], m.vals[1]) = PageOf(m)
<1>1. IsLeaf(m) /\ NewPage(m) = L!Create("RootLeaf", m.number, 0, 1)
  BY DEF IsLeaf, Leaves, NewPage
<1>2. L!Loop(NewPage(m), 1, 0) = LeafLoop(m, 0, 0)
  BY <1>1, LeafStarts
<1>3. KeyStrings(m)[1] = Bytes[m.keys[1]]
  BY StringsOf
<1>4. L!AddLeaf(LeafLoop(m, 0, 0), L!Entry(KeyStrings(m)[0 + 1]), L!Entry(m.vals[0 + 1]))
        = LeafLoop(m, 0 + 1, 0)
  BY <1>1, AddLeafIs
<1> DEFINE x == LeafLoop(m, 1, 0)
<1>5. L!CreateRootLeaf(m.number, Bytes[m.keys[1]], m.vals[1]) = L!Finished(NewPage(m), x, x.ending)
  BY <1>1, <1>2, <1>3, <1>4 DEF L!CreateRootLeaf
<1>6. x = LeafLoop(m, Size(m), 0)
  OBVIOUS
<1> HIDE DEF x
<1> QED
  BY <1>1, <1>5, <1>6, LeafFinished

-------------------------------------------------------------------------------
(* The loops that fill an inner page *)

(* An inner page whose bytes have room.                                        *)
InnerPage(n) ==
  Shaped(n) /\ Fits(n) /\ n # Blank /\ ~IsLeaf(n) /\ Len(n.links) = Size(n) + 1

(* A loop that has written the first link, and the first keys each with the    *)
(* link behind it.                                                             *)
InnerTo(m, j) ==
  {<<4, L!Word(m.parent)>>, <<8, L!Word(Size(m))>>}
    \union {<<8 + 4 * i, L!Word(KeyStart(m, i))>> : i \in 1 .. j}
    \union {<<KeyStart(m, i), L!Entry(KeyStrings(m)[i])>> : i \in 1 .. j}
    \union {<<KeyStart(m, i) - 4, L!Word(m.links[i])>> : i \in 1 .. j + 1}

InnerLoop(m, j, old) ==
  [mem |-> Mem(InnerTo(m, j)),
   begining |-> KeyStart(m, j + 1), ending |-> L!Room, new |-> j, old |-> old]

(* What such a loop has written is there in the end.                           *)
LEMMA InnerToItems ==
  ASSUME NEW m, InnerPage(m), NEW j \in 0 .. Size(m)
  PROVE  InnerTo(m, j) \subseteq Items(m)
<1>1. 1 .. j \subseteq 1 .. Size(m) /\ 1 .. j + 1 \subseteq DOMAIN m.links
  BY StringsOf, NodeFields, LenProperties DEF InnerPage, Shaped
<1> QED
  BY <1>1 DEF InnerTo, Items, Header, Slots, KeyItems, LinkItems, InnerPage

(* A turn that writes a key and the link behind it.                            *)
LEMMA AddPairIs ==
  ASSUME NEW m, InnerPage(m), NEW j \in 0 .. Size(m) - 1, NEW old
  PROVE  L!AddLink(L!AddKey(InnerLoop(m, j, old), L!Entry(KeyStrings(m)[j + 1])), m.links[j + 2])
           = InnerLoop(m, j + 1, old)
<1> DEFINE key == L!Entry(KeyStrings(m)[j + 1])
           link == m.links[j + 2]
           b == KeyStart(m, j + 1)
           b2 == KeyStart(m, j + 2)
           A == InnerTo(m, j)
           A1 == A \union {<<8 + 4 * (j + 1), L!Word(b)>>}
           A2 == A1 \union {<<b, key>>}
           A3 == A2 \union {<<b2 - 4, L!Word(link)>>}
<1>0. Shaped(m) /\ Fits(m)
  BY DEF InnerPage
<1>1. /\ j + 1 \in 1 .. Size(m) /\ j \in 0 .. Size(m) /\ j + 1 \in 0 .. Size(m) /\ j \in Nat
      /\ (j + 1) - 1 = j /\ (j + 1) + 1 = j + 2 /\ j + 1 \in 1 .. Size(m) + 1
      /\ 1 .. j + 1 = (1 .. j) \union {j + 1}
      /\ 1 .. (j + 1) + 1 = (1 .. j + 1) \union {j + 2}
  BY <1>0, StringsOf
<1>2. InnerTo(m, j + 1) = A3
  BY <1>1 DEF InnerTo
<1>3. Zone(InnerTo(m, j + 1), 0, L!Room)
  BY <1>0, <1>1, InnerToItems, ItemsZone, ZoneOfPart
<1>4. /\ key.len = 4 + Len(KeyStrings(m)[j + 1]) /\ Len(KeyStrings(m)[j + 1]) \in Nat
  BY <1>0, <1>1, StringsOf, ItemLengths
<1>5. b2 = b + 8 + Len(KeyStrings(m)[j + 1]) /\ b \in Nat
  BY <1>0, <1>1, KeyStarts
<1>7. b + key.len = b2 - 4 /\ b + key.len + 4 = b2
  <2> DEFINE c == Len(KeyStrings(m)[j + 1])
  <2>1. c \in Nat /\ b \in Nat /\ key.len = 4 + c /\ b2 = b + 8 + c
    BY <1>4, <1>5
  <2> HIDE DEF c, key, b, b2
  <2> QED
    BY <2>1
<1>8. L!Slot(j) = 8 + 4 * (j + 1)
  BY <1>1 DEF L!Slot
<1> HIDE DEF key, link, b, b2, A
<1>9. Zone(A1, 0, L!Room) /\ Zone(A2, 0, L!Room) /\ Zone(A3, 0, L!Room)
  BY <1>2, <1>3, ZoneOfPart
<1> HIDE DEF A1, A2, A3
<1>10. /\ L!Put(Mem(A), L!Slot(j), L!Word(b)) = Mem(A1)
       /\ L!Put(Mem(A1), b, key) = Mem(A2)
       /\ L!Put(Mem(A2), b + key.len, L!Word(link)) = Mem(A3)
  <2>2. L!Put(Mem(A), L!Slot(j), L!Word(b)) = Mem(A1)
    BY <1>8, <1>9, PutAdds DEF A1
  <2>3. L!Put(Mem(A1), b, key) = Mem(A2)
    BY <1>9, PutAdds DEF A2
  <2>4. L!Put(Mem(A2), b + key.len, L!Word(link)) = Mem(A3)
    BY <1>7, <1>9, PutAdds DEF A3
  <2> QED
    BY <2>2, <2>3, <2>4
<1>11. InnerLoop(m, j, old) =
         [mem |-> Mem(A), begining |-> b, ending |-> L!Room, new |-> j, old |-> old]
  BY DEF InnerLoop, A, b
<1>12. InnerLoop(m, j + 1, old) =
         [mem |-> Mem(A3), begining |-> b2, ending |-> L!Room, new |-> j + 1, old |-> old]
  BY <1>1, <1>2 DEF InnerLoop, b2
<1>13. L!AddLink(L!AddKey(InnerLoop(m, j, old), key), link) = InnerLoop(m, j + 1, old)
  <2> DEFINE x == InnerLoop(m, j, old)
             y == L!AddKey(x, key)
  <2>1. /\ x.mem = Mem(A) /\ x.begining = b /\ x.new = j /\ x.ending = L!Room
        /\ x.old = old
    BY <1>11
  <2> HIDE DEF x
  <2>2. y = L!Filled(Mem(A2), b + key.len, L!Room, j + 1, old)
    BY <1>10, <2>1, Zenon DEF L!AddKey
  <2>3. /\ y.mem = Mem(A2) /\ y.begining = b + key.len /\ y.new = j + 1 /\ y.ending = L!Room
        /\ y.old = old
    BY <2>2 DEF L!Filled
  <2> HIDE DEF y
  <2>4. L!AddLink(y, link) = L!Filled(Mem(A3), b + key.len + 4, L!Room, j + 1, old)
    BY <1>10, <2>3, Zenon DEF L!AddLink
  <2> QED
    BY <1>7, <1>12, <2>4 DEF x, y, L!Filled
<1> QED
  BY <1>13 DEF key, link

(* The first link, with which a loop starts.                                   *)
LEMMA InnerStarts ==
  ASSUME NEW m, InnerPage(m), NEW from
  PROVE  L!AddLink(L!Loop(NewPage(m), Size(m), from), m.links[1]) = InnerLoop(m, 0, from)
<1> DEFINE A == {<<4, L!Word(m.parent)>>, <<8, L!Word(Size(m))>>}
           b == KeyStart(m, 1)
           B == A \union {<<b - 4, L!Word(m.links[1])>>}
<1>0. Shaped(m) /\ Fits(m) /\ ~IsLeaf(m) /\ Size(m) \in Nat
  BY StringsOf DEF InnerPage
<1>1. InnerTo(m, 0) = B
  BY DEF InnerTo
<1>2. Zone(B, 0, L!Room)
  <2>1. 0 \in 0 .. Size(m)
    BY <1>0
  <2> QED
    BY <1>0, <1>1, <2>1, InnerToItems, ItemsZone, ZoneOfPart
<1>3. b = 12 + 4 * Size(m) + 4
  BY <1>0, KeyStarts
<1>4. L!Slot(Size(m)) = b - 4 /\ L!Slot(Size(m)) + 4 = b
  BY <1>0, <1>3 DEF L!Slot
<1>5. NewPage(m).mem = Mem(A)
  BY <1>0, NewPageIs
<1> DEFINE x == L!Loop(NewPage(m), Size(m), from)
<1>6. /\ x.mem = Mem(A) /\ x.begining = b - 4 /\ x.ending = L!Room /\ x.new = 0 /\ x.old = from
  BY <1>4, <1>5 DEF L!Loop, L!Filled
<1> HIDE DEF A, b, x
<1>7. L!Put(Mem(A), b - 4, L!Word(m.links[1])) = Mem(B)
  <2> HIDE DEF B
  <2> QED
    BY <1>2, PutAdds DEF B
<1> HIDE DEF B
<1>8. L!AddLink(x, m.links[1]) = L!Filled(Mem(B), (b - 4) + 4, L!Room, 0, from)
  BY <1>6, <1>7, Zenon DEF L!AddLink
<1>9. (b - 4) + 4 = b
  BY <1>0, <1>3
<1>10. InnerLoop(m, 0, from) =
         [mem |-> Mem(B), begining |-> b, ending |-> L!Room, new |-> 0, old |-> from]
  BY <1>1 DEF InnerLoop, b
<1> QED
  BY <1>8, <1>9, <1>10 DEF x, L!Filled

(* A loop goes past a key of the old page.                                     *)
LEMMA PastPair ==
  ASSUME NEW m, NEW j, NEW i
  PROVE  L!Past(InnerLoop(m, j, i)) = InnerLoop(m, j, i + 1)
<1> DEFINE x == InnerLoop(m, j, i)
<1>1. x = [mem |-> x.mem, begining |-> x.begining, ending |-> x.ending, new |-> x.new, old |-> i]
  BY DEF InnerLoop
<1>2. InnerLoop(m, j, i + 1) =
        [mem |-> x.mem, begining |-> x.begining, ending |-> x.ending, new |-> x.new, old |-> i + 1]
  BY DEF InnerLoop
<1> HIDE DEF x
<1>3. L!Past(x) = InnerLoop(m, j, i + 1)
  BY <1>1, <1>2 DEF L!Past
<1> QED
  BY <1>3 DEF x

(* A turn that copies a key and the link behind it.                            *)
LEMMA CopyPairIs ==
  ASSUME NEW n, InnerPage(n), NEW m, InnerPage(m),
         NEW j \in 0 .. Size(m) - 1, NEW i \in 0 .. Size(n) - 1,
         m.keys[j + 1] = n.keys[i + 1], m.links[j + 2] = n.links[i + 2]
  PROVE  L!CopyKey(InnerLoop(m, j, i), PageOf(n)) = InnerLoop(m, j + 1, i + 1)
<1>0. /\ Shaped(n) /\ Fits(n) /\ n # Blank /\ ~IsLeaf(n) /\ Len(n.links) = Size(n) + 1
      /\ Shaped(m)
  BY DEF InnerPage
<1>1. i + 1 \in 1 .. Size(n) /\ (i + 1) - 1 = i /\ (i + 1) + 1 = i + 2 /\ j + 1 \in 1 .. Size(m)
  BY <1>0, StringsOf
<1>3. KeyStrings(m)[j + 1] = KeyStrings(n)[i + 1]
  <2>1. /\ KeyStrings(m)[j + 1] = Bytes[m.keys[j + 1]]
        /\ KeyStrings(n)[i + 1] = Bytes[n.keys[i + 1]]
    BY <1>0, <1>1, StringsOf
  <2> QED
    BY <2>1
<1>4. /\ L!KeyAt(PageOf(n), i) = L!Entry(KeyStrings(m)[j + 1])
      /\ L!LinkAfter(PageOf(n), i) = m.links[j + 2]
  <2> DEFINE h == i + 1
  <2>1. h \in 1 .. Size(n) /\ h - 1 = i
    BY <1>1
  <2> HIDE DEF h
  <2>2. L!KeyAt(PageOf(n), h - 1) = L!Entry(KeyStrings(n)[h]) /\ L!LinkAfter(PageOf(n), h - 1) = n.links[h + 1]
    BY <1>0, <2>1, KeyReads, LinkReads
  <2> QED
    BY <1>1, <1>3, <2>1, <2>2 DEF h
<1>5. InnerLoop(m, j, i).old = i
  BY DEF InnerLoop
<1>6. L!CopyKey(InnerLoop(m, j, i), PageOf(n)) = L!Past(InnerLoop(m, j + 1, i))
  BY <1>4, <1>5, AddPairIs, Zenon DEF L!CopyKey
<1> QED
  BY <1>6, PastPair

(* A loop ends with all keys.                                                  *)
LEMMA InnerFinished ==
  ASSUME NEW m, InnerPage(m), NEW old, NEW x, x = InnerLoop(m, Size(m), old)
  PROVE  L!Finished(NewPage(m), x, 0) = PageOf(m)
<1>0. Shaped(m) /\ Fits(m) /\ m # Blank /\ ~IsLeaf(m) /\ Len(m.links) = Size(m) + 1
  BY DEF InnerPage
<1>1. x.mem = Mem(InnerTo(m, Size(m))) /\ x.begining = Begining(m) /\ Ending(m) = 0
  BY <1>0 DEF InnerLoop, Begining, Ending
<1>2. DOMAIN m.links = 1 .. Size(m) + 1
  BY <1>0, NodeFields, LenProperties DEF Shaped
<1>3. Items(m) = InnerTo(m, Size(m)) \union {<<0, L!Short(Begining(m))>>, <<2, L!Short(Ending(m))>>}
  BY <1>0, <1>2 DEF Items, InnerTo, Header, Slots, KeyItems, LinkItems
<1> QED
  BY <1>0, <1>1, <1>3, PageFinished

(* The loop of fill_intermediate: m has the keys of n from l in their order,   *)
(* each with the link behind it, but k and a new link at pos.                  *)
InnerEntries(m, n, l, r, pos, k, link) ==
  /\ Size(m) = r - l /\ m.links[1] = n.links[l + 1]
  /\ \A i \in l .. r - 1 :
       LET j == i - l + 1
           o == IF l <= pos /\ pos < i THEN i ELSE i + 1
       IN  IF i = pos THEN m.keys[j] = k /\ m.links[j + 1] = link
           ELSE o \in 1 .. Size(n) /\ m.keys[j] = n.keys[o] /\ m.links[j + 1] = n.links[o + 1]

LEMMA FillIntermediateIs ==
  ASSUME NEW n, InnerPage(n), NEW m, InnerPage(m),
         NEW l \in 0 .. Size(n) - 1, NEW r \in Nat, l <= r, NEW pos \in Nat,
         NEW k \in Keys, NEW link, InnerEntries(m, n, l, r, pos, k, link)
  PROVE  L!FillIntermediate(PageOf(n), NewPage(m), l, r, pos, Bytes[k], link) = PageOf(m)
<1> DEFINE p == PageOf(n)
           t == NewPage(m)
           start == L!AddLink(L!Loop(t, r - l, l), L!LinkBefore(p, l))
           Turn(x, i) == IF i = pos THEN L!AddLink(L!AddKey(x, L!Entry(Bytes[k])), link)
                         ELSE L!CopyKey(x, p)
           Old(i) == IF l <= pos /\ pos < i THEN i - 1 ELSE i
           T == [i \in l .. r |-> InnerLoop(m, i - l, Old(i))]
           f == CHOOSE f : f = [i \in l .. r |-> IF i = l THEN start ELSE Turn(f[i - 1], i - 1)]
<1>0. /\ Shaped(n) /\ Fits(n) /\ n # Blank /\ ~IsLeaf(n) /\ Len(n.links) = Size(n) + 1
      /\ Shaped(m) /\ Size(n) \in Nat /\ l \in Nat
  BY StringsOf DEF InnerPage
<1>1. start = InnerLoop(m, 0, Old(l))
  <2> DEFINE h == l + 1
  <2>1. h \in 1 .. Size(n) /\ h - 1 = l /\ Old(l) = l
    BY <1>0
  <2> HIDE DEF h, Old
  <2>2. L!LinkBefore(p, h - 1) = n.links[h]
    BY <1>0, <2>1, LinkReads
  <2>3. L!LinkBefore(p, l) = m.links[1]
    BY <2>1, <2>2 DEF InnerEntries, h
  <2> QED
    BY <2>1, <2>3, InnerStarts DEF InnerEntries
<1>2. ASSUME NEW i \in l .. r - 1
      PROVE  Turn(InnerLoop(m, i - l, Old(i)), i) = InnerLoop(m, i - l + 1, Old(i + 1))
  <2> DEFINE j == i - l
  <2>0. Size(m) = r - l
    BY DEF InnerEntries
  <2>1. j \in 0 .. Size(m) - 1 /\ j + 1 \in 1 .. Size(m) /\ i \in Nat /\ (j + 1) + 1 = j + 2
    BY <1>0, <2>0
  <2>2. CASE i = pos
    <3>0. Old(i + 1) = Old(i)
      BY <1>0, <2>1, <2>2
    <3>1. m.keys[j + 1] = k /\ m.links[(j + 1) + 1] = link /\ Old(i + 1) = Old(i)
      <4> HIDE DEF Old
      <4> QED
        BY <2>2, <3>0 DEF InnerEntries
    <3>2. KeyStrings(m)[j + 1] = Bytes[k]
      BY <1>0, <2>1, <3>1, StringsOf
    <3> HIDE DEF j, Old
    <3>3. L!AddLink(L!AddKey(InnerLoop(m, j, Old(i)), L!Entry(Bytes[k])), link)
            = InnerLoop(m, j + 1, Old(i))
      BY <2>1, <3>1, <3>2, AddPairIs
    <3> QED
      BY <2>2, <3>1, <3>3 DEF j
  <2>3. CASE i # pos
    <3> DEFINE h == Old(i)
    <3>1. /\ h + 1 = (IF l <= pos /\ pos < i THEN i ELSE i + 1) /\ Old(i + 1) = h + 1
          /\ h \in Int /\ (h + 1) + 1 = h + 2
      BY <1>0, <2>1, <2>3
    <3>2. /\ h + 1 \in 1 .. Size(n)
          /\ m.keys[j + 1] = n.keys[h + 1] /\ m.links[(j + 1) + 1] = n.links[(h + 1) + 1]
      BY <2>1, <2>3, <3>1 DEF InnerEntries
    <3> HIDE DEF h, j, Old
    <3>3. h \in 0 .. Size(n) - 1
      BY <1>0, <3>1, <3>2
    <3>4. L!CopyKey(InnerLoop(m, j, h), p) = InnerLoop(m, j + 1, h + 1)
      BY <2>1, <3>1, <3>2, <3>3, CopyPairIs
    <3> QED
      BY <2>3, <3>1, <3>4 DEF h, j
  <2> QED
    BY <2>2, <2>3
<1>3. T = [i \in l .. r |-> IF i = l THEN start ELSE Turn(T[i - 1], i - 1)]
  <2>1. ASSUME NEW i \in l .. r, i # l PROVE T[i] = Turn(T[i - 1], i - 1)
    <3>1. i - 1 \in l .. r - 1 /\ i - 1 \in l .. r /\ (i - 1) - l + 1 = i - l /\ (i - 1) + 1 = i
      BY <1>0, <2>1
    <3> HIDE DEF Turn, Old
    <3>2. T[i] = InnerLoop(m, (i - 1) - l + 1, Old((i - 1) + 1)) /\ T[i - 1] = InnerLoop(m, (i - 1) - l, Old(i - 1))
      BY <3>1
    <3> QED
      BY <1>2, <3>1, <3>2
  <2>2. T[l] = start
    <3>1. l \in l .. r /\ l - l = 0
      BY <1>0
    <3> QED
      BY <1>1, <3>1
  <2> HIDE DEF start, Turn, Old
  <2> QED
    BY <2>1, <2>2
<1> HIDE DEF start, Turn, T
<1>4. f = [i \in l .. r |-> IF i = l THEN start ELSE Turn(f[i - 1], i - 1)]
  BY <1>3
<1> HIDE DEF f
<1>5. f[r] = T[r]
  <2>1. f[l] = T[l]
    BY <1>0, <1>3, <1>4
  <2>2. ASSUME NEW i \in l + 1 .. r, f[i - 1] = T[i - 1] PROVE f[i] = T[i]
    BY <1>0, <1>3, <1>4, <2>2
  <2> QED
    BY <1>0, <2>1, <2>2, ForIs
<1>6. T[r] = InnerLoop(m, Size(m), Old(r))
  BY <1>0 DEF T, InnerEntries
<1>7. L!FillIntermediate(p, t, l, r, pos, Bytes[k], link) = L!Finished(t, f[r], 0)
  BY DEF L!FillIntermediate, L!For, f, start, Turn
<1> QED
  BY <1>5, <1>6, <1>7, InnerFinished

(* m is n without the key at q and the link behind it.                         *)
LacksPair(m, n, q) ==
  /\ Size(m) = Size(n) - 1 /\ m.links[1] = n.links[1]
  /\ \A i \in 1 .. Size(n) - 1 :
       LET o == IF i < q THEN i ELSE i + 1
       IN  m.keys[i] = n.keys[o] /\ m.links[i + 1] = n.links[o + 1]

(* The loop of fill_intermediate_delete.                                       *)
LEMMA FillIntermediateDeleteIs ==
  ASSUME NEW n, InnerPage(n), NEW m, InnerPage(m),
         NEW q \in 1 .. Size(n), \A i \in 1 .. Size(n) : n.links[i] = n.links[q] => i = q,
         LacksPair(m, n, q)
  PROVE  L!FillIntermediateDelete(PageOf(n), NewPage(m), n.links[q]) = PageOf(m)
<1> DEFINE p == PageOf(n)
           t == NewPage(m)
           N == Size(n)
           link == n.links[q]
           start == L!AddLink(L!Loop(t, N - 1, 0), L!LinkBefore(p, 0))
           Turn(x, i) == IF L!LinkBefore(p, i) = link THEN L!Past(x) ELSE L!CopyKey(x, p)
           New(i) == IF i < q THEN i ELSE i - 1
           T == [i \in 0 .. N |-> InnerLoop(m, New(i), i)]
           f == CHOOSE f : f = [i \in 0 .. N |-> IF i = 0 THEN start ELSE Turn(f[i - 1], i - 1)]
<1>0. /\ Shaped(n) /\ Fits(n) /\ n # Blank /\ ~IsLeaf(n) /\ Len(n.links) = N + 1
      /\ N \in Nat /\ L!VertNum(p) = N /\ \A h \in 1 .. N : L!LinkBefore(p, h - 1) = n.links[h]
  BY StringsOf, HeaderReads, LinkReads DEF InnerPage
<1>1. start = InnerLoop(m, 0, 0)
  <2>1. 1 \in 1 .. N /\ 1 - 1 = 0
    BY <1>0
  <2>2. L!LinkBefore(p, 0) = m.links[1]
    BY <1>0, <2>1 DEF LacksPair
  <2> QED
    BY <2>2, InnerStarts DEF LacksPair
<1>2. ASSUME NEW i \in 0 .. N - 1
      PROVE  Turn(InnerLoop(m, New(i), i), i) = InnerLoop(m, New(i + 1), i + 1)
  <2> DEFINE h == i + 1
  <2>1. h \in 1 .. N /\ h - 1 = i
    BY <1>0
  <2> HIDE DEF h
  <2>3. L!LinkBefore(p, i) = link <=> h = q
    BY <1>0, <2>1
  <2>4. CASE h = q
    <3>1. New(i + 1) = New(i)
      BY <2>1, <2>4 DEF h
    <3> HIDE DEF New
    <3> QED
      BY <2>3, <2>4, <3>1, PastPair
  <2>5. CASE h # q
    <3> DEFINE j == New(i)
    <3>0. Size(m) = N - 1
      BY DEF LacksPair
    <3>1. /\ New(i + 1) = j + 1 /\ j \in 0 .. Size(m) - 1
          /\ (IF j + 1 < q THEN j + 1 ELSE (j + 1) + 1) = i + 1 /\ j + 1 \in 1 .. N - 1
          /\ (j + 1) + 1 = j + 2 /\ (i + 1) + 1 = i + 2
      BY <1>0, <2>1, <2>5, <3>0 DEF h
    <3> HIDE DEF New, j
    <3>2. m.keys[j + 1] = n.keys[i + 1] /\ m.links[(j + 1) + 1] = n.links[(i + 1) + 1]
      BY <3>1 DEF LacksPair
    <3>3. L!CopyKey(InnerLoop(m, j, i), p) = InnerLoop(m, j + 1, i + 1)
      BY <3>1, <3>2, CopyPairIs
    <3> QED
      BY <2>3, <2>5, <3>1, <3>3 DEF j
  <2> QED
    BY <2>4, <2>5
<1>3. T = [i \in 0 .. N |-> IF i = 0 THEN start ELSE Turn(T[i - 1], i - 1)]
  <2>1. ASSUME NEW i \in 0 .. N, i # 0 PROVE T[i] = Turn(T[i - 1], i - 1)
    <3>1. i - 1 \in 0 .. N - 1 /\ i - 1 \in 0 .. N /\ (i - 1) + 1 = i
      BY <1>0, <2>1
    <3> HIDE DEF Turn, New
    <3>2. T[i] = InnerLoop(m, New((i - 1) + 1), (i - 1) + 1) /\ T[i - 1] = InnerLoop(m, New(i - 1), i - 1)
      BY <3>1
    <3> QED
      BY <1>2, <3>1, <3>2
  <2>2. T[0] = start
    BY <1>0, <1>1
  <2> HIDE DEF start, Turn, New
  <2> QED
    BY <2>1, <2>2
<1> HIDE DEF start, Turn, T, N
<1>4. f = [i \in 0 .. N |-> IF i = 0 THEN start ELSE Turn(f[i - 1], i - 1)]
  BY <1>3
<1> HIDE DEF f
<1>5. f[N] = T[N]
  <2>1. f[0] = T[0]
    BY <1>0, <1>3, <1>4
  <2>2. ASSUME NEW i \in 0 + 1 .. N, f[i - 1] = T[i - 1] PROVE f[i] = T[i]
    BY <1>0, <1>3, <1>4, <2>2
  <2> QED
    BY <1>0, <2>1, <2>2, ForIs
<1>6. T[N] = InnerLoop(m, Size(m), N)
  BY <1>0 DEF T, N, LacksPair
<1>7. L!FillIntermediateDelete(p, t, link) = L!Finished(t, f[N], 0)
  BY <1>0 DEF L!FillIntermediateDelete, L!For, f, start, Turn, N
<1> QED
  BY <1>5, <1>6, <1>7, InnerFinished

(* m has behind its first a keys what n has behind its first b.                *)
CopiedTo(m, a, n, b, c) ==
  \A i \in 0 .. c - 1 : /\ m.keys[a + i + 1] = n.keys[b + i + 1]
                        /\ m.links[a + i + 2] = n.links[b + i + 2]

(* A loop of c turns that only copy ...                                        *)
CopyLoop(p, c, start) ==
  LET f[i \in 0 .. c] == IF i = 0 THEN start ELSE L!CopyKey(f[i - 1], p)
  IN  f[c]

(* ... from behind the first b keys of n to behind the first a of m.           *)
LEMMA CopyLoopIs ==
  ASSUME NEW n, InnerPage(n), NEW m, InnerPage(m), NEW a \in Nat, NEW b \in Nat, NEW c \in Nat,
         a + c <= Size(m), b + c <= Size(n),
         CopiedTo(m, a, n, b, c), NEW start, start = InnerLoop(m, a, b)
  PROVE  CopyLoop(PageOf(n), c, start) = InnerLoop(m, a + c, b + c)
<1> DEFINE p == PageOf(n)
           T == [i \in 0 .. c |-> InnerLoop(m, a + i, b + i)]
           f == CHOOSE f : f = [i \in 0 .. c |-> IF i = 0 THEN start ELSE L!CopyKey(f[i - 1], p)]
<1>0. Size(n) \in Nat /\ Size(m) \in Nat
  BY StringsOf DEF InnerPage
<1>2. ASSUME NEW i \in 0 .. c - 1
      PROVE  L!CopyKey(InnerLoop(m, a + i, b + i), p) = InnerLoop(m, a + i + 1, b + i + 1)
  <2> DEFINE j == a + i
             h == b + i
  <2>1. j \in 0 .. Size(m) - 1 /\ h \in 0 .. Size(n) - 1
    BY <1>0
  <2>2. m.keys[j + 1] = n.keys[h + 1] /\ m.links[j + 2] = n.links[h + 2]
    BY DEF CopiedTo
  <2> HIDE DEF j, h
  <2>3. L!CopyKey(InnerLoop(m, j, h), p) = InnerLoop(m, j + 1, h + 1)
    BY <2>1, <2>2, CopyPairIs
  <2> QED
    BY <2>3 DEF j, h
<1>3. T = [i \in 0 .. c |-> IF i = 0 THEN start ELSE L!CopyKey(T[i - 1], p)]
  <2>1. ASSUME NEW i \in 0 .. c, i # 0 PROVE T[i] = L!CopyKey(T[i - 1], p)
    <3>1. /\ i - 1 \in 0 .. c - 1 /\ i - 1 \in 0 .. c
          /\ a + (i - 1) + 1 = a + i /\ b + (i - 1) + 1 = b + i
      BY <2>1
    <3>2. T[i] = InnerLoop(m, a + i, b + i) /\ T[i - 1] = InnerLoop(m, a + (i - 1), b + (i - 1))
      BY <3>1
    <3>3. L!CopyKey(InnerLoop(m, a + (i - 1), b + (i - 1)), p)
            = InnerLoop(m, a + (i - 1) + 1, b + (i - 1) + 1)
      BY <1>2, <3>1
    <3> QED
      BY <3>1, <3>2, <3>3
  <2>2. T[0] = start
    <3>1. 0 \in 0 .. c /\ a + 0 = a /\ b + 0 = b
      OBVIOUS
    <3>2. T[0] = InnerLoop(m, a + 0, b + 0)
      BY <3>1
    <3> QED
      BY <3>1, <3>2
  <2> HIDE DEF p
  <2> QED
    BY <2>1, <2>2
<1> HIDE DEF T, p
<1>4. f = [i \in 0 .. c |-> IF i = 0 THEN start ELSE L!CopyKey(f[i - 1], p)]
  BY <1>3
<1> HIDE DEF f
<1>5. f[c] = T[c]
  <2>1. f[0] = T[0]
    BY <1>3, <1>4
  <2>2. ASSUME NEW i \in 0 + 1 .. c, f[i - 1] = T[i - 1] PROVE f[i] = T[i]
    BY <1>3, <1>4, <2>2
  <2> QED
    BY <2>1, <2>2, ForIs
<1>6. T[c] = InnerLoop(m, a + c, b + c)
  BY DEF T
<1>7. CopyLoop(p, c, start) = f[c]
  BY DEF CopyLoop, f
<1> QED
  BY <1>5, <1>6, <1>7 DEF p

(* m is n without its first key and the link before it, for l = 1, or without  *)
(* its last, for l = 0.                                                        *)
LacksEnd(m, n, l) ==
  /\ Size(m) = Size(n) - 1
  /\ \A i \in 1 .. Size(n) - 1 : m.keys[i] = n.keys[i + l]
  /\ \A i \in 1 .. Size(n) : m.links[i] = n.links[i + l]

LEMMA FillWithoutIs ==
  ASSUME NEW n, InnerPage(n), Size(n) >= 1, NEW m, InnerPage(m), NEW l \in {0, 1},
         l = 1 => Size(n) >= 2, LacksEnd(m, n, l)
  PROVE  L!FillWithout(PageOf(n), NewPage(m), l) = PageOf(m)
<1> DEFINE p == PageOf(n)
           c == Size(m)
           start == L!AddLink(L!Loop(NewPage(m), c, l), L!LinkBefore(p, l))
           x == CopyLoop(p, c, start)
<1>0. /\ Shaped(n) /\ Fits(n) /\ n # Blank /\ ~IsLeaf(n) /\ Len(n.links) = Size(n) + 1
      /\ Size(n) \in Nat /\ L!VertNum(p) = Size(n) /\ c \in Nat /\ c = Size(n) - 1
      /\ \A h \in 1 .. Size(n) : L!LinkBefore(p, h - 1) = n.links[h]
  BY StringsOf, HeaderReads, LinkReads DEF InnerPage, LacksEnd
<1>1. start = InnerLoop(m, 0, l)
  <2> DEFINE h == l + 1
  <2>1. h \in 1 .. Size(n) /\ h - 1 = l /\ 1 + l = h /\ 1 \in 1 .. Size(n)
    BY <1>0
  <2> HIDE DEF h
  <2>2. L!LinkBefore(p, h - 1) = n.links[h] /\ m.links[1] = n.links[1 + l]
    BY <1>0, <2>1 DEF LacksEnd
  <2> HIDE DEF p
  <2> QED
    BY <2>1, <2>2, InnerStarts
<1>2. ASSUME NEW i \in 0 .. c - 1
      PROVE  /\ m.keys[0 + i + 1] = n.keys[l + i + 1]
             /\ m.links[0 + i + 2] = n.links[l + i + 2]
  <2>1. /\ 0 + i + 1 = i + 1 /\ 0 + i + 2 = i + 2
        /\ l + i + 1 = (i + 1) + l /\ l + i + 2 = (i + 2) + l
        /\ i + 1 \in 1 .. Size(n) - 1 /\ i + 2 \in 1 .. Size(n)
    BY <1>0
  <2>2. /\ m.keys[i + 1] = n.keys[(i + 1) + l]
        /\ m.links[i + 2] = n.links[(i + 2) + l]
    BY <2>1 DEF LacksEnd
  <2> HIDE DEF c
  <2> QED
    BY <2>1, <2>2
<1>3. x = InnerLoop(m, 0 + c, l + c)
  <2>1. 0 + c <= Size(m) /\ l + c <= Size(n) /\ l \in Nat /\ 0 \in Nat
    BY <1>0
  <2> HIDE DEF start, c
  <2> QED
    <3>1. ASSUME NEW a \in Nat, NEW b \in Nat, a = 0, b = l
          PROVE  x = InnerLoop(m, a + c, b + c)
      <4>1. CopiedTo(m, a, n, b, c)
        BY <1>2, <3>1 DEF CopiedTo
      <4>2. a + c <= Size(m) /\ b + c <= Size(n) /\ start = InnerLoop(m, a, b)
        BY <1>1, <2>1, <3>1
      <4> QED
        BY <1>0, <4>1, <4>2, CopyLoopIs
    <3> QED
      BY <2>1, <3>1
<1>4. L!FillWithout(p, NewPage(m), l) = L!Finished(NewPage(m), x, 0)
  BY <1>0 DEF L!FillWithout, L!For, CopyLoop
<1>5. 0 + c = Size(m)
  BY <1>0
<1> HIDE DEF x, c
<1> QED
  BY <1>3, <1>4, <1>5, InnerFinished

(* m is n with a key and a link before it in front.                            *)
HasFirst(m, n, k, link) ==
  /\ Size(m) = Size(n) + 1 /\ m.keys[1] = k /\ m.links[1] = link
  /\ \A i \in 1 .. Size(n) : m.keys[i + 1] = n.keys[i]
  /\ \A i \in 1 .. Size(n) + 1 : m.links[i + 1] = n.links[i]

LEMMA FillFirstIntermediateIs ==
  ASSUME NEW n, InnerPage(n), Size(n) >= 1, NEW m, InnerPage(m), NEW k \in Keys, NEW link,
         HasFirst(m, n, k, link)
  PROVE  L!FillFirstIntermediate(PageOf(n), NewPage(m), Bytes[k], link) = PageOf(m)
<1> DEFINE p == PageOf(n)
           c == Size(n)
           first == L!AddKey(L!AddLink(L!Loop(NewPage(m), c + 1, 0), link), L!Entry(Bytes[k]))
           start == L!AddLink(first, L!LinkBefore(p, 0))
           x == CopyLoop(p, c, start)
<1>0. /\ Shaped(n) /\ Fits(n) /\ n # Blank /\ ~IsLeaf(n) /\ Len(n.links) = Size(n) + 1
      /\ Size(n) \in Nat /\ L!VertNum(p) = Size(n) /\ Size(m) = c + 1 /\ Shaped(m)
      /\ \A h \in 1 .. Size(n) : L!LinkBefore(p, h - 1) = n.links[h]
  BY StringsOf, HeaderReads, LinkReads DEF InnerPage, HasFirst
<1>1. start = InnerLoop(m, 1, 0)
  <2>1. L!LinkBefore(p, 0) = m.links[0 + 2]
    <3>1. 1 \in 1 .. Size(n) /\ 1 - 1 = 0 /\ 1 \in 1 .. Size(n) + 1 /\ 1 + 1 = 0 + 2
      BY <1>0
    <3>2. L!LinkBefore(p, 0) = n.links[1] /\ m.links[1 + 1] = n.links[1]
      BY <1>0, <3>1 DEF HasFirst
    <3> QED
      BY <3>1, <3>2
  <2>2. L!AddLink(L!Loop(NewPage(m), c + 1, 0), link) = InnerLoop(m, 0, 0)
    BY <1>0, InnerStarts DEF HasFirst
  <2>3. KeyStrings(m)[0 + 1] = Bytes[k] /\ 0 \in 0 .. Size(m) - 1
    <3>1. 1 \in 1 .. Size(m)
      BY <1>0
    <3>2. KeyStrings(m)[1] = Bytes[m.keys[1]]
      BY <1>0, <3>1, StringsOf
    <3> QED
      BY <1>0, <3>2 DEF HasFirst
  <2>4. L!AddLink(L!AddKey(InnerLoop(m, 0, 0), L!Entry(KeyStrings(m)[0 + 1])), m.links[0 + 2])
          = InnerLoop(m, 0 + 1, 0)
    BY <2>3, AddPairIs
  <2> HIDE DEF p, c
  <2> QED
    BY <2>1, <2>2, <2>3, <2>4
<1>2. ASSUME NEW i \in 0 .. c - 1
      PROVE  /\ m.keys[1 + i + 1] = n.keys[0 + i + 1]
             /\ m.links[1 + i + 2] = n.links[0 + i + 2]
  <2>1. /\ 0 + i + 1 = i + 1 /\ 0 + i + 2 = i + 2
        /\ 1 + i + 1 = (i + 1) + 1 /\ 1 + i + 2 = (i + 2) + 1
        /\ i + 1 \in 1 .. Size(n) /\ i + 2 \in 1 .. Size(n) + 1
    BY <1>0
  <2>2. /\ m.keys[(i + 1) + 1] = n.keys[i + 1]
        /\ m.links[(i + 2) + 1] = n.links[i + 2]
    BY <2>1 DEF HasFirst
  <2> HIDE DEF c
  <2> QED
    BY <2>1, <2>2
<1>3. x = InnerLoop(m, 1 + c, 0 + c)
  <2>1. 1 + c <= Size(m) /\ 0 + c <= Size(n) /\ 1 \in Nat /\ 0 \in Nat
    BY <1>0
  <2> HIDE DEF start, c
  <2> QED
    <3>1. ASSUME NEW a \in Nat, NEW b \in Nat, a = 1, b = 0
          PROVE  x = InnerLoop(m, a + c, b + c)
      <4>1. CopiedTo(m, a, n, b, c)
        BY <1>2, <3>1 DEF CopiedTo
      <4>2. a + c <= Size(m) /\ b + c <= Size(n) /\ start = InnerLoop(m, a, b) /\ c \in Nat
        BY <1>0, <1>1, <2>1, <3>1 DEF c
      <4> QED
        BY <4>1, <4>2, CopyLoopIs
    <3> QED
      BY <2>1, <3>1
<1>4. L!FillFirstIntermediate(p, NewPage(m), Bytes[k], link) = L!Finished(NewPage(m), x, 0)
  BY <1>0 DEF L!FillFirstIntermediate, L!For, CopyLoop
<1>5. 1 + c = Size(m)
  BY <1>0
<1> HIDE DEF x, c
<1> QED
  BY <1>3, <1>4, <1>5, InnerFinished

(* A page of one key.                                                          *)
LEMMA OfOneKeyIs ==
  ASSUME NEW m, InnerPage(m), Size(m) = 1
  PROVE  L!OfOneKey(NewPage(m), Bytes[m.keys[1]], m.links[1], m.links[2]) = PageOf(m)
<1>1. L!AddLink(L!Loop(NewPage(m), 1, 0), m.links[1]) = InnerLoop(m, 0, 0)
  BY InnerStarts
<1>2. KeyStrings(m)[0 + 1] = Bytes[m.keys[1]]
  BY StringsOf DEF InnerPage
<1>3. L!AddLink(L!AddKey(InnerLoop(m, 0, 0), L!Entry(KeyStrings(m)[0 + 1])), m.links[0 + 2])
        = InnerLoop(m, 0 + 1, 0)
  BY AddPairIs
<1> DEFINE x == InnerLoop(m, 1, 0)
<1>4. L!OfOneKey(NewPage(m), Bytes[m.keys[1]], m.links[1], m.links[2]) = L!Finished(NewPage(m), x, 0)
  BY <1>1, <1>2, <1>3 DEF L!OfOneKey
<1>5. x = InnerLoop(m, Size(m), 0)
  OBVIOUS
<1> HIDE DEF x
<1> QED
  BY <1>4, <1>5, InnerFinished

-------------------------------------------------------------------------------
(* What the operations on an inner page write *)

(* All that the code reads in an inner page.                                   *)
LEMMA InnerReads ==
  ASSUME NEW n, InnerPage(n)
  PROVE  /\ Shaped(n) /\ Fits(n) /\ n # Blank /\ ~IsLeaf(n) /\ Len(n.links) = Size(n) + 1
         /\ L!VertNum(PageOf(n)) = Size(n) /\ Size(n) \in Nat
         /\ \A m : SameHead(n, m) => L!Successor(PageOf(n), Size(m)) = NewPage(m)
         /\ \A i \in 1 .. Size(n) : /\ L!LinkBefore(PageOf(n), i - 1) = n.links[i]
                                    /\ L!LinkAfter(PageOf(n), i - 1) = n.links[i + 1]
                                    /\ L!KeyAt(PageOf(n), i - 1).bytes = Bytes[n.keys[i]]
<1>1. Shaped(n) /\ Fits(n) /\ n # Blank /\ ~IsLeaf(n) /\ Len(n.links) = Size(n) + 1
  BY DEF InnerPage
<1>2. L!VertNum(PageOf(n)) = Size(n) /\ Size(n) \in Nat
  BY <1>1, HeaderReads, StringsOf
<1>3. \A m : SameHead(n, m) => L!Successor(PageOf(n), Size(m)) = NewPage(m)
  BY <1>1, SuccessorIs
<1>4. \A i \in 1 .. Size(n) : /\ L!LinkBefore(PageOf(n), i - 1) = n.links[i]
                              /\ L!LinkAfter(PageOf(n), i - 1) = n.links[i + 1]
  BY <1>1, LinkReads
<1>5. \A i \in 1 .. Size(n) : L!KeyAt(PageOf(n), i - 1).bytes = Bytes[n.keys[i]]
  BY <1>1, KeyReads
<1> QED
  BY <1>1, <1>2, <1>3, <1>4, <1>5

(* insert_into_intermediate, at a given place and at the one of find_pos.      *)
LEMMA InsertAtPosWrites ==
  ASSUME NEW n, InnerPage(n), Size(n) >= 1, NEW m, InnerPage(m), SameHead(n, m),
         NEW pos \in Nat, NEW k \in Keys, NEW link,
         InnerEntries(m, n, 0, Size(n) + 1, pos, k, link)
  PROVE  L!InsertAtPos(PageOf(n), pos, Bytes[k], link) = PageOf(m)
<1> DEFINE p == PageOf(n)
           N == Size(n) + 1
<1>1. L!VertNum(p) = Size(n) /\ Size(n) \in Nat
  BY InnerReads
<1>2. Size(m) = N /\ N \in Nat /\ 0 <= N /\ 0 \in 0 .. Size(n) - 1
  BY <1>1 DEF InnerEntries
<1>3. L!Successor(p, N) = NewPage(m)
  BY <1>2, InnerReads
<1>4. L!FillIntermediate(p, NewPage(m), 0, N, pos, Bytes[k], link) = PageOf(m)
  BY <1>2, FillIntermediateIs
<1> HIDE DEF p
<1> QED
  BY <1>1, <1>3, <1>4 DEF L!InsertAtPos, p

LEMMA InsertIntoIntermediateWrites ==
  ASSUME NEW n, InnerPage(n), Size(n) >= 1, NEW m, InnerPage(m), SameHead(n, m),
         NEW k \in Keys, NEW link,
         InnerEntries(m, n, 0, Size(n) + 1, FindPos(n, k), k, link)
  PROVE  L!InsertIntoIntermediate(PageOf(n), Bytes[k], link) = PageOf(m)
<1> DEFINE pos == FindPos(n, k)
<1>1. L!FindPos(PageOf(n), Bytes[k]) = pos /\ pos \in Nat
  <2>1. Shaped(n) /\ Fits(n) /\ n # Blank /\ Size(n) \in Nat
    BY InnerReads
  <2> QED
    BY <2>1, FindPosReads
<1> HIDE DEF pos
<1>2. L!InsertAtPos(PageOf(n), pos, Bytes[k], link) = PageOf(m)
  BY <1>1, InsertAtPosWrites DEF pos
<1> QED
  BY <1>1, <1>2 DEF L!InsertIntoIntermediate

(* delete_key_intermediate, and the two deletions at an end of the page.       *)
LEMMA DeleteKeyIntermediateWrites ==
  ASSUME NEW n, InnerPage(n), NEW m, InnerPage(m), SameHead(n, m),
         NEW q \in 1 .. Size(n), \A i \in 1 .. Size(n) : n.links[i] = n.links[q] => i = q,
         LacksPair(m, n, q)
  PROVE  L!DeleteKeyIntermediate(PageOf(n), n.links[q]) = PageOf(m)
<1>1. L!VertNum(PageOf(n)) - 1 = Size(m)
  BY InnerReads DEF LacksPair
<1>2. L!Successor(PageOf(n), Size(m)) = NewPage(m)
  BY InnerReads
<1>3. L!FillIntermediateDelete(PageOf(n), NewPage(m), n.links[q]) = PageOf(m)
  BY FillIntermediateDeleteIs
<1> QED
  BY <1>1, <1>2, <1>3 DEF L!DeleteKeyIntermediate

LEMMA DeleteFirstWrites ==
  ASSUME NEW n, InnerPage(n), Size(n) >= 2, NEW m, InnerPage(m), SameHead(n, m),
         LacksEnd(m, n, 1)
  PROVE  L!DeleteFirstIntermediate(PageOf(n)) = PageOf(m)
<1>1. L!VertNum(PageOf(n)) - 1 = Size(m) /\ Size(n) >= 1
  BY InnerReads DEF LacksEnd
<1>2. L!Successor(PageOf(n), Size(m)) = NewPage(m)
  BY InnerReads
<1>3. L!FillWithout(PageOf(n), NewPage(m), 1) = PageOf(m)
  BY <1>1, FillWithoutIs
<1> QED
  BY <1>1, <1>2, <1>3 DEF L!DeleteFirstIntermediate

LEMMA DeleteLastWrites ==
  ASSUME NEW n, InnerPage(n), Size(n) >= 1, NEW m, InnerPage(m), SameHead(n, m),
         LacksEnd(m, n, 0)
  PROVE  L!DeleteLastIntermediate(PageOf(n)) = PageOf(m)
<1>1. L!VertNum(PageOf(n)) - 1 = Size(m)
  BY InnerReads DEF LacksEnd
<1>2. L!Successor(PageOf(n), Size(m)) = NewPage(m)
  BY InnerReads
<1>3. L!FillWithout(PageOf(n), NewPage(m), 0) = PageOf(m)
  BY <1>1, FillWithoutIs
<1> QED
  BY <1>1, <1>2, <1>3 DEF L!DeleteLastIntermediate

(* insert_first_into_intermediate.                                             *)
LEMMA InsertFirstWrites ==
  ASSUME NEW n, InnerPage(n), Size(n) >= 1, NEW m, InnerPage(m), SameHead(n, m),
         NEW k \in Keys, NEW link, HasFirst(m, n, k, link)
  PROVE  L!InsertFirstIntoIntermediate(PageOf(n), Bytes[k], link) = PageOf(m)
<1>1. L!VertNum(PageOf(n)) + 1 = Size(m)
  BY InnerReads DEF HasFirst
<1>2. L!Successor(PageOf(n), Size(m)) = NewPage(m)
  BY InnerReads
<1>3. L!FillFirstIntermediate(PageOf(n), NewPage(m), Bytes[k], link) = PageOf(m)
  BY FillFirstIntermediateIs
<1> QED
  BY <1>1, <1>2, <1>3 DEF L!InsertFirstIntoIntermediate

(* create_intermediate and create_root.                                        *)
LEMMA CreateIntermediateWrites ==
  ASSUME NEW n, InnerPage(n), NEW m, InnerPage(m), SameHead(n, m), Size(m) = 1
  PROVE  L!CreateIntermediate(PageOf(n), Bytes[m.keys[1]], m.links[1], m.links[2]) = PageOf(m)
<1>1. L!Successor(PageOf(n), 1) = NewPage(m)
  BY InnerReads
<1>2. L!OfOneKey(NewPage(m), Bytes[m.keys[1]], m.links[1], m.links[2]) = PageOf(m)
  BY OfOneKeyIs
<1> QED
  BY <1>1, <1>2 DEF L!CreateIntermediate

LEMMA CreateRootWrites ==
  ASSUME NEW m, InnerPage(m), m.kind = "Root", m.parent = 0, Size(m) = 1
  PROVE  L!CreateRoot(m.number, Bytes[m.keys[1]], m.links[1], m.links[2]) = PageOf(m)
<1>1. NewPage(m) = L!Create("Root", m.number, 0, 1)
  BY DEF NewPage
<1>2. L!OfOneKey(NewPage(m), Bytes[m.keys[1]], m.links[1], m.links[2]) = PageOf(m)
  BY OfOneKeyIs
<1> QED
  BY <1>1, <1>2 DEF L!CreateRoot

-------------------------------------------------------------------------------
(* The same, as BTree has it *)

(* The operations on nodes give what the loops are to write.                   *)
LEMMA InsertIntoLeafHas ==
  ASSUME NEW n \in Node, Len(n.vals) = Size(n), NEW k \in Keys, NEW v \in Values,
         NEW m, m = InsertIntoLeaf(n, k, v)
  PROVE  /\ SameHead(n, m) /\ Entries(m, n, 0, Size(n) + 1, FindPos(n, k), k, v)
         /\ m \in Node /\ Len(m.vals) = Size(m)
<1> DEFINE pos == FindPos(n, k)
           N == Size(n)
<1>1. /\ n.keys \in Seq(Keys) /\ n.keys \in Seq(Nat) /\ n.vals \in Seq(Values) /\ N \in Nat
      /\ Len(n.keys) = N /\ k \in Nat
  BY NodeFields, NumbersAreNat DEF Size
<1>2. pos \in 0 .. N
  BY <1>1, FindPosStops
<1> DEFINE a == InsertAt(n.keys, pos + 1, k)
           b == InsertAt(n.vals, pos + 1, v)
<1>3. m = [n EXCEPT !.keys = a, !.vals = b]
  BY DEF InsertIntoLeaf
<1> HIDE DEF pos, N, a, b
<1>4. m.keys = a /\ m.vals = b /\ Size(m) = Len(a) /\ SameHead(n, m)
  BY <1>3 DEF Node, Size, SameHead
<1>5. pos + 1 \in 1 .. N + 1
  BY <1>1, <1>2
<1>6. Inserted(a, n.keys, pos + 1, k) /\ Inserted(b, n.vals, pos + 1, v)
  BY <1>1, <1>5, InsertAtIs DEF a, b, N
<1>7. /\ Len(a) = N + 1
      /\ \A j \in 1 .. N + 1 : /\ a[j] = IF j < pos + 1 THEN n.keys[j]
                                        ELSE IF j = pos + 1 THEN k ELSE n.keys[j - 1]
                               /\ b[j] = IF j < pos + 1 THEN n.vals[j]
                                        ELSE IF j = pos + 1 THEN v ELSE n.vals[j - 1]
  BY <1>1, <1>6 DEF Inserted, N
<1>8. ASSUME NEW i \in 0 .. (N + 1) - 1
      PROVE  LET j == i - 0 + 1
                 o == IF i < pos THEN i + 1 ELSE i
             IN  IF i = pos THEN m.keys[j] = k /\ m.vals[j] = v
                 ELSE o \in 1 .. N /\ m.keys[j] = n.keys[o] /\ m.vals[j] = n.vals[o]
  <2>1. i + 1 \in 1 .. N + 1 /\ i - 0 + 1 = i + 1 /\ (i + 1) - 1 = i
        /\ (i + 1 < pos + 1 <=> i < pos) /\ (i + 1 = pos + 1 <=> i = pos)
        /\ (i < pos => i + 1 \in 1 .. N) /\ (~(i < pos) /\ i # pos => i \in 1 .. N)
    BY <1>1, <1>2
  <2>2. /\ m.keys[i + 1] = IF i < pos THEN n.keys[i + 1] ELSE IF i = pos THEN k ELSE n.keys[i]
        /\ m.vals[i + 1] = IF i < pos THEN n.vals[i + 1] ELSE IF i = pos THEN v ELSE n.vals[i]
    BY <1>4, <1>7, <2>1
  <2> QED
    BY <2>1, <2>2
<1>9. Size(m) = (N + 1) - 0
  BY <1>1, <1>4, <1>7
<1>10. m \in Node /\ Len(m.vals) = Size(m)
  <2>1. a \in Seq(Keys) /\ b \in Seq(Values)
    BY <1>1, <1>5, InsertAtIs DEF a, b, N
  <2>2. Len(b) = Len(a)
    BY <1>1, <1>6 DEF Inserted, N
  <2> QED
    BY <1>3, <1>4, <2>1, <2>2 DEF Node
<1> QED
  BY <1>4, <1>8, <1>9, <1>10 DEF Entries, pos, N

LEMMA InsertSameHas ==
  ASSUME NEW n \in Node, Len(n.vals) = Size(n), NEW k, NEW v, NEW m, m = InsertSame(n, k, v)
  PROVE  /\ SameHead(n, m) /\ Size(m) = Size(n)
         /\ \A i \in 1 .. Size(n) :
              m.keys[i] = n.keys[i] /\ m.vals[i] = IF n.keys[i] = k THEN v ELSE n.vals[i]
<1> DEFINE b == [i \in DOMAIN n.vals |-> IF n.keys[i] = k THEN v ELSE n.vals[i]]
<1>1. m = [n EXCEPT !.vals = b]
  BY DEF InsertSame
<1>2. DOMAIN n.vals = 1 .. Size(n)
  BY NodeFields, LenProperties
<1> HIDE DEF b
<1>3. m.keys = n.keys /\ m.vals = b /\ SameHead(n, m)
  BY <1>1 DEF Node, SameHead
<1> QED
  BY <1>2, <1>3 DEF b, Size

LEMMA DeleteKeyLeafHas ==
  ASSUME NEW n \in Node, Len(n.vals) = Size(n), NEW q \in 1 .. Size(n),
         \A i \in 1 .. Size(n) : n.keys[i] = n.keys[q] => i = q,
         NEW m, m = DeleteKeyLeaf(n, n.keys[q])
  PROVE  SameHead(n, m) /\ Lacks(m, n, q)
<1> DEFINE a == RemoveAt(n.keys, q)
           b == RemoveAt(n.vals, q)
<1>1. n.keys \in Seq(Keys) /\ n.vals \in Seq(Values) /\ Len(n.keys) = Size(n)
  BY NodeFields DEF Size
<1>2. IndexIn(n.keys, n.keys[q]) = q
  BY <1>1, IndexInIs
<1>3. m = [n EXCEPT !.keys = a, !.vals = b]
  BY <1>2, DeleteKeyLeafAt
<1> HIDE DEF a, b
<1>4. m.keys = a /\ m.vals = b /\ Size(m) = Len(a) /\ SameHead(n, m)
  BY <1>3 DEF Node, Size, SameHead
<1>5. Removed(a, n.keys, q) /\ Removed(b, n.vals, q)
  BY <1>1, RemoveAtIs DEF a, b
<1> QED
  BY <1>1, <1>4, <1>5 DEF Removed, Lacks

LEMMA InsertIntoIntermediateHas ==
  ASSUME NEW n \in Node, Len(n.links) = Size(n) + 1, NEW k \in Keys, NEW link \in Numbers,
         NEW m, m = InsertIntoIntermediate(n, k, link)
  PROVE  /\ SameHead(n, m) /\ InnerEntries(m, n, 0, Size(n) + 1, FindPos(n, k), k, link)
         /\ m \in Node /\ Len(m.links) = Size(m) + 1
<1> DEFINE pos == FindPos(n, k)
           N == Size(n)
<1>1. /\ n.keys \in Seq(Keys) /\ n.keys \in Seq(Nat) /\ n.links \in Seq(Numbers) /\ N \in Nat
      /\ Len(n.keys) = N /\ k \in Nat
  BY NodeFields, NumbersAreNat DEF Size
<1>2. pos \in 0 .. N
  BY <1>1, FindPosStops
<1> DEFINE a == InsertAt(n.keys, pos + 1, k)
           b == InsertAt(n.links, (pos + 1) + 1, link)
<1>3. m = [n EXCEPT !.keys = a, !.links = b]
  BY DEF InsertIntoIntermediate
<1> HIDE DEF pos, N, a, b
<1>4. m.keys = a /\ m.links = b /\ Size(m) = Len(a) /\ SameHead(n, m)
  BY <1>3 DEF Node, Size, SameHead
<1>5. pos + 1 \in 1 .. N + 1 /\ (pos + 1) + 1 \in 1 .. Len(n.links) + 1
  BY <1>1, <1>2 DEF N
<1>6. Inserted(a, n.keys, pos + 1, k) /\ Inserted(b, n.links, (pos + 1) + 1, link)
  BY <1>1, <1>5, InsertAtIs DEF a, b, N
<1>7. /\ Len(a) = N + 1
      /\ \A j \in 1 .. N + 1 : a[j] = IF j < pos + 1 THEN n.keys[j]
                                      ELSE IF j = pos + 1 THEN k ELSE n.keys[j - 1]
      /\ \A j \in 1 .. (N + 1) + 1 : b[j] = IF j < (pos + 1) + 1 THEN n.links[j]
                                      ELSE IF j = (pos + 1) + 1 THEN link ELSE n.links[j - 1]
  BY <1>1, <1>6 DEF Inserted, N
<1>8. ASSUME NEW i \in 0 .. (N + 1) - 1
      PROVE  LET j == i - 0 + 1
                 o == IF 0 <= pos /\ pos < i THEN i ELSE i + 1
             IN  IF i = pos THEN m.keys[j] = k /\ m.links[j + 1] = link
                 ELSE o \in 1 .. N /\ m.keys[j] = n.keys[o] /\ m.links[j + 1] = n.links[o + 1]
  <2>1. /\ i + 1 \in 1 .. N + 1 /\ i - 0 + 1 = i + 1 /\ (i + 1) - 1 = i
        /\ (i + 1) + 1 \in 1 .. (N + 1) + 1 /\ ((i + 1) + 1) - 1 = i + 1
        /\ (i + 1 < pos + 1 <=> i < pos) /\ (i + 1 = pos + 1 <=> i = pos)
        /\ ((i + 1) + 1 < (pos + 1) + 1 <=> i < pos) /\ ((i + 1) + 1 = (pos + 1) + 1 <=> i = pos)
        /\ (i < pos => i + 1 \in 1 .. N) /\ (pos < i => i \in 1 .. N)
        /\ (i < pos \/ i = pos \/ pos < i) /\ (pos < i => ~(i < pos) /\ i # pos) /\ 0 <= pos
        /\ (i < pos => ~(pos < i) /\ i # pos)
    BY <1>1, <1>2
  <2>2. /\ m.keys[i + 1] = IF i < pos THEN n.keys[i + 1] ELSE IF i = pos THEN k ELSE n.keys[i]
        /\ m.links[(i + 1) + 1] = IF i < pos THEN n.links[(i + 1) + 1]
                                 ELSE IF i = pos THEN link ELSE n.links[i + 1]
    BY <1>4, <1>7, <2>1
  <2> QED
    BY <2>1, <2>2
<1>9. Size(m) = (N + 1) - 0
  BY <1>1, <1>4, <1>7
<1>10. m.links[1] = n.links[0 + 1]
  <2>1. 1 \in 1 .. (N + 1) + 1 /\ 1 < (pos + 1) + 1 /\ 0 + 1 = 1
    BY <1>1, <1>2
  <2> QED
    BY <1>4, <1>7, <2>1
<1>11. m \in Node /\ Len(m.links) = Size(m) + 1
  <2>1. a \in Seq(Keys) /\ b \in Seq(Numbers)
    BY <1>1, <1>5, InsertAtIs DEF a, b, N
  <2>2. Len(b) = Len(a) + 1
    BY <1>1, <1>6, <1>7 DEF Inserted, N
  <2> QED
    BY <1>3, <1>4, <2>1, <2>2 DEF Node
<1> QED
  BY <1>4, <1>8, <1>9, <1>10, <1>11 DEF InnerEntries, pos, N

LEMMA DeleteKeyIntermediateHas ==
  ASSUME NEW n \in Node, Len(n.links) = Size(n) + 1, NEW q \in 1 .. Size(n),
         \A i \in 1 .. Size(n) + 1 : n.links[i] = n.links[q] => i = q,
         NEW m, m = DeleteKeyIntermediate(n, n.links[q])
  PROVE  SameHead(n, m) /\ LacksPair(m, n, q) /\ m \in Node /\ Len(m.links) = Size(m) + 1
<1> DEFINE a == RemoveAt(n.keys, q)
           b == RemoveAt(n.links, q + 1)
           N == Size(n)
<1>1. n.keys \in Seq(Keys) /\ n.links \in Seq(Numbers) /\ Len(n.keys) = N /\ N \in Nat
  BY NodeFields DEF Size
<1>2. IndexIn(n.links, n.links[q]) = q
  <2>1. q \in 1 .. Len(n.links)
    BY <1>1
  <2> QED
    BY <1>1, <2>1, IndexInIs
<1>3. m = [n EXCEPT !.keys = a, !.links = b]
  BY <1>2, DeleteKeyIntermediateAt
<1> HIDE DEF a, b, N
<1>4. m.keys = a /\ m.links = b /\ Size(m) = Len(a) /\ SameHead(n, m)
  BY <1>3 DEF Node, Size, SameHead
<1>5. q \in 1 .. N /\ q + 1 \in 1 .. Len(n.links)
  BY <1>1 DEF N
<1>6. Removed(a, n.keys, q) /\ Removed(b, n.links, q + 1)
  BY <1>1, <1>5, RemoveAtIs DEF a, b
<1>7. /\ Len(a) = N - 1
      /\ \A j \in 1 .. N - 1 : a[j] = IF j < q THEN n.keys[j] ELSE n.keys[j + 1]
      /\ \A j \in 1 .. N : b[j] = IF j < q + 1 THEN n.links[j] ELSE n.links[j + 1]
  <2>1. Len(n.links) - 1 = N
    BY <1>1 DEF N
  <2> QED
    BY <1>1, <1>6, <2>1 DEF Removed
<1>8. ASSUME NEW i \in 1 .. N - 1
      PROVE  LET o == IF i < q THEN i ELSE i + 1
             IN  m.keys[i] = n.keys[o] /\ m.links[i + 1] = n.links[o + 1]
  <2>1. i + 1 \in 1 .. N /\ (i + 1 < q + 1 <=> i < q)
    BY <1>1, <1>5
  <2> QED
    BY <1>4, <1>7, <2>1
<1>9. m.links[1] = n.links[1]
  <2>1. 1 \in 1 .. N /\ 1 < q + 1
    BY <1>1, <1>5
  <2> QED
    BY <1>4, <1>7, <2>1
<1>10. m \in Node /\ Len(m.links) = Size(m) + 1
  <2>1. a \in Seq(Keys) /\ b \in Seq(Numbers)
    BY <1>1, <1>5, RemoveAtIs DEF a, b
  <2>2. Len(b) = Len(a) + 1
    BY <1>1, <1>6 DEF Removed, N
  <2> QED
    BY <1>3, <1>4, <2>1, <2>2 DEF Node
<1> QED
  BY <1>4, <1>7, <1>8, <1>9, <1>10 DEF LacksPair, N

-------------------------------------------------------------------------------
(* What fits when another page fits *)

(* Strings that are found among others have no more bytes than those.          *)
FoundAmong(s, M, t, N, g) ==
  /\ \A i \in 1 .. M : Len(s[i]) \in Nat
  /\ \A i \in 1 .. N : Len(t[i]) \in Nat
  /\ g \in Injection(1 .. M, 1 .. N)
  /\ \A i \in 1 .. M : s[i] = t[g[i]]

LEMMA FewerBytes ==
  ASSUME NEW M \in Nat, NEW N \in Nat, NEW s, NEW t, NEW g, FoundAmong(s, M, t, N, g)
  PROVE  /\ FirstTotal(s, M) <= FirstTotal(t, N) /\ M <= N
         /\ FirstTotal(s, M) \in Nat /\ FirstTotal(t, N) \in Nat
<1> DEFINE S == PlacesOf(s, M)
           T == PlacesOf(t, N)
           f == [x \in S |-> <<g[x[1]], x[2]>>]
<1>0. /\ \A i \in 1 .. M : Len(s[i]) \in Nat /\ s[i] = t[g[i]]
      /\ \A i \in 1 .. N : Len(t[i]) \in Nat
  BY DEF FoundAmong
<1>1. /\ g \in [1 .. M -> 1 .. N] /\ \A i, j \in 1 .. M : g[i] = g[j] => i = j
      /\ g \in Injection(1 .. M, 1 .. N)
  BY DEF FoundAmong, Injection, IsInjective
<1>2. ASSUME NEW x \in S
      PROVE  x[1] \in 1 .. M /\ x[2] \in 1 .. Len(s[x[1]]) /\ x = <<x[1], x[2]>>
  BY DEF PlacesOf
<1>3. ASSUME NEW x \in S PROVE f[x] \in T
  <2>1. g[x[1]] \in 1 .. N /\ x[2] \in 1 .. Len(t[g[x[1]]])
    BY <1>0, <1>1, <1>2
  <2> QED
    BY <2>1 DEF PlacesOf
<1>4. ASSUME NEW x \in S, NEW y \in S, f[x] = f[y] PROVE x = y
  <2>1. g[x[1]] = g[y[1]] /\ x[2] = y[2]
    BY <1>4
  <2> QED
    BY <1>1, <1>2, <2>1
<1>5. f \in Injection(S, T)
  BY <1>3, <1>4 DEF Injection, IsInjective
<1>6. IsFiniteSet(S) /\ IsFiniteSet(T)
  <2>1. M \in 0 .. M /\ N \in 0 .. N
    OBVIOUS
  <2>2. IsFiniteSet(S)
    BY <1>0, <2>1, PlacesFinite
  <2>3. IsFiniteSet(T)
    BY <1>0, <2>1, PlacesFinite
  <2> QED
    BY <2>2, <2>3
<1>7. Cardinality(S) <= Cardinality(T)
  <2> HIDE DEF S, T, f
  <2> QED
    BY <1>5, <1>6, FS_Injection
<1>8. FirstTotal(s, M) = Cardinality(S) /\ FirstTotal(t, N) = Cardinality(T)
  BY DEF FirstTotal, PlacesOf
<1>9. M <= N
  <2>1. /\ IsFiniteSet(1 .. N) /\ Cardinality(1 .. N) = N /\ Cardinality(1 .. M) = M
    BY FS_Interval
  <2> QED
    BY <1>1, <2>1, FS_Injection
<1> QED
  BY <1>6, <1>7, <1>8, <1>9, FS_CardinalityType

(* A page whose entries are among those of a page that fits.                   *)
Among(m, n, g) ==
  /\ g \in Injection(1 .. Size(m), 1 .. Size(n))
  /\ \A i \in 1 .. Size(m) : /\ m.keys[i] = n.keys[g[i]]
                             /\ IsLeaf(n) => m.vals[i] = n.vals[g[i]]

LEMMA PartFits ==
  ASSUME NEW n, Shaped(n), Fits(n), NEW m, Shaped(m), IsLeaf(m) <=> IsLeaf(n),
         NEW g, Among(m, n, g)
  PROVE  Fits(m)
<1> DEFINE M == Size(m)
           N == Size(n)
           s == KeyStrings(m)
           t == KeyStrings(n)
<1>1. /\ M \in Nat /\ N \in Nat /\ g \in [1 .. M -> 1 .. N]
      /\ g \in Injection(1 .. M, 1 .. N) /\ L!Room \in Nat
  BY StringsOf DEF Among, Injection, IsInjective
<1>2. /\ \A i \in 1 .. M : Len(s[i]) \in Nat /\ s[i] = Bytes[m.keys[i]]
      /\ \A i \in 1 .. N : Len(t[i]) \in Nat /\ t[i] = Bytes[n.keys[i]]
  BY StringsOf
<1>3. \A i \in 1 .. M : s[i] = t[g[i]]
  <2>1. ASSUME NEW i \in 1 .. M PROVE s[i] = t[g[i]]
    <3>1. g[i] \in 1 .. N /\ m.keys[i] = n.keys[g[i]]
      BY <1>1 DEF Among
    <3> HIDE DEF s, t
    <3> QED
      BY <1>2, <3>1
  <2> QED
    BY <2>1
<1>4. /\ FirstTotal(s, M) <= FirstTotal(t, N) /\ M <= N
      /\ FirstTotal(s, M) \in Nat /\ FirstTotal(t, N) \in Nat
  <2> HIDE DEF s, t, M, N
  <2>1. FoundAmong(s, M, t, N, g)
    BY <1>1, <1>2, <1>3 DEF FoundAmong
  <2> QED
    BY <1>1, <2>1, FewerBytes
<1>5. Begining(m) <= Begining(n) /\ Begining(m) \in Nat /\ Begining(n) \in Nat
  <2>1. /\ Begining(m) = 12 + 4 * M + (IF IsLeaf(m) THEN 0 ELSE 4)
                           + 8 * ((M + 1) - 1) + FirstTotal(s, (M + 1) - 1)
        /\ Begining(n) = 12 + 4 * N + (IF IsLeaf(n) THEN 0 ELSE 4)
                           + 8 * ((N + 1) - 1) + FirstTotal(t, (N + 1) - 1)
    BY DEF Begining, KeyStart
  <2>2. (M + 1) - 1 = M /\ (N + 1) - 1 = N
    BY <1>1
  <2> HIDE DEF M, N, s, t
  <2> DEFINE a == FirstTotal(s, M)
             b == FirstTotal(t, N)
             d == IF IsLeaf(n) THEN 0 ELSE 4
  <2>3. /\ Begining(m) = 12 + 4 * M + d + 8 * M + a
        /\ Begining(n) = 12 + 4 * N + d + 8 * N + b /\ d \in Nat
    BY <2>1, <2>2
  <2>4. a <= b /\ M <= N /\ a \in Nat /\ b \in Nat
    BY <1>4
  <2> HIDE DEF a, b, d
  <2> QED
    BY <1>1, <2>3, <2>4
<1>6. CASE ~IsLeaf(n)
  BY <1>1, <1>5, <1>6 DEF Fits
<1>7. CASE IsLeaf(n)
  <2>1. /\ \A i \in 1 .. M : Len(m.vals[i]) \in Nat
        /\ \A i \in 1 .. N : Len(n.vals[i]) \in Nat
    BY <1>7, StringsOf
  <2>2. \A i \in 1 .. M : m.vals[i] = n.vals[g[i]]
    BY <1>7 DEF Among
  <2>3. /\ FirstTotal(m.vals, M) <= FirstTotal(n.vals, N) /\ M <= N
        /\ FirstTotal(m.vals, M) \in Nat /\ FirstTotal(n.vals, N) \in Nat
    <3> HIDE DEF M, N
    <3>1. FoundAmong(m.vals, M, n.vals, N, g)
      BY <1>1, <2>1, <2>2 DEF FoundAmong
    <3> QED
      BY <1>1, <3>1, FewerBytes
  <2>4. Ending(m) = L!Room - 4 * M - FirstTotal(m.vals, M)
        /\ Ending(n) = L!Room - 4 * N - FirstTotal(n.vals, N)
    BY <1>7 DEF Ending, ValueStart
  <2>5. Begining(n) <= Ending(n)
    BY <1>7 DEF Fits
  <2> HIDE DEF M, N
  <2>6. Begining(m) <= Ending(m)
    BY <1>1, <1>5, <2>3, <2>4, <2>5
  <2> QED
    BY <1>7, <2>6 DEF Fits
<1> QED
  BY <1>6, <1>7

(* A part of the entries of a page, from behind the first c.                   *)
LEMMA SliceFits ==
  ASSUME NEW n, Shaped(n), Fits(n), NEW m, Shaped(m), IsLeaf(m) <=> IsLeaf(n),
         NEW c \in Nat, c + Size(m) <= Size(n),
         \A i \in 1 .. Size(m) : m.keys[i] = n.keys[c + i],
         IsLeaf(n) => \A i \in 1 .. Size(m) : m.vals[i] = n.vals[c + i]
  PROVE  Fits(m)
<1> DEFINE g == [i \in 1 .. Size(m) |-> c + i]
<1>1. Size(m) \in Nat /\ Size(n) \in Nat
  BY StringsOf
<1>2. \A i \in 1 .. Size(m) : g[i] = c + i /\ g[i] \in 1 .. Size(n)
  BY <1>1
<1>3. g \in [1 .. Size(m) -> 1 .. Size(n)]
  BY <1>2
<1>4. \A i, j \in 1 .. Size(m) : g[i] = g[j] => i = j
  BY <1>1
<1>5. g \in Injection(1 .. Size(m), 1 .. Size(n))
  <2> HIDE DEF g
  <2> QED
    BY <1>3, <1>4 DEF Injection, IsInjective
<1>6. Among(m, n, g)
  <2> HIDE DEF g
  <2> QED
    BY <1>2, <1>5 DEF Among
<1> HIDE DEF g
<1> QED
  BY <1>6, PartFits

-------------------------------------------------------------------------------
(* Parts of a page *)

(* m has what n has from l to r.                                               *)
LeafSlice(m, n, l, r) ==
  /\ m \in Node /\ Size(m) = r - l + 1 /\ Len(m.vals) = Size(m) /\ m.links = n.links
  /\ \A j \in 1 .. r - l + 1 : m.keys[j] = n.keys[l + j - 1] /\ m.vals[j] = n.vals[l + j - 1]

InnerSlice(m, n, l, r) ==
  /\ m \in Node /\ Size(m) = r - l + 1 /\ Len(m.links) = Size(m) + 1 /\ m.vals = n.vals
  /\ \A j \in 1 .. r - l + 1 : m.keys[j] = n.keys[l + j - 1]
  /\ \A j \in 1 .. r - l + 2 : m.links[j] = n.links[l + j - 1]

(* The parts of a leaf and of an inner page.                                   *)
LEMMA LeafPartIs ==
  ASSUME NEW n \in Node, Len(n.vals) = Size(n),
         NEW l \in 1 .. Size(n) + 1, NEW r \in l - 1 .. Size(n)
  PROVE  LeafSlice(LeafPart(n, l, r), n, l, r) /\ SameHead(n, LeafPart(n, l, r))
<1> DEFINE a == SubSeq(n.keys, l, r)
           b == SubSeq(n.vals, l, r)
           p == LeafPart(n, l, r)
<1>1. n.keys \in Seq(Keys) /\ n.vals \in Seq(Values) /\ Len(n.keys) = Size(n)
  BY NodeFields DEF Size
<1>2. /\ a \in Seq(Keys) /\ Part(a, n.keys, l, r)
      /\ b \in Seq(Values) /\ Part(b, n.vals, l, r)
  BY <1>1, SubSeqIs
<1>3. p = [n EXCEPT !.keys = a, !.vals = b]
  BY DEF LeafPart
<1> HIDE DEF a, b, p
<1>4. p \in Node /\ p.keys = a /\ p.vals = b /\ p.links = n.links /\ SameHead(n, p)
  BY <1>2, <1>3 DEF Node, SameHead
<1>5. LeafSlice(p, n, l, r)
  BY <1>2, <1>4 DEF LeafSlice, Part, Size
<1> QED
  BY <1>4, <1>5 DEF p

LEMMA NodePartIs ==
  ASSUME NEW n \in Node, Len(n.links) = Size(n) + 1,
         NEW l \in 1 .. Size(n) + 1, NEW r \in l - 1 .. Size(n)
  PROVE  InnerSlice(NodePart(n, l, r), n, l, r) /\ SameHead(n, NodePart(n, l, r))
<1> DEFINE a == SubSeq(n.keys, l, r)
           b == SubSeq(n.links, l, r + 1)
           p == NodePart(n, l, r)
<1>1. /\ n.keys \in Seq(Keys) /\ n.links \in Seq(Numbers) /\ Len(n.keys) = Size(n)
      /\ Size(n) \in Nat /\ l \in 1 .. Len(n.links) + 1 /\ r + 1 \in l - 1 .. Len(n.links)
      /\ (r + 1) - l + 1 = r - l + 2
  BY NodeFields DEF Size
<1>2. a \in Seq(Keys) /\ Part(a, n.keys, l, r)
  BY <1>1, SubSeqIs
<1>3. b \in Seq(Numbers) /\ Part(b, n.links, l, r + 1)
  BY <1>1, SubSeqIs
<1>4. p = [n EXCEPT !.keys = a, !.links = b]
  BY DEF NodePart
<1> HIDE DEF a, b, p
<1>5. p \in Node /\ p.keys = a /\ p.links = b /\ p.vals = n.vals /\ SameHead(n, p)
  BY <1>2, <1>3, <1>4 DEF Node, SameHead
<1>6. Len(a) = r - l + 1 /\ Len(b) = (r - l + 1) + 1
      /\ (\A j \in 1 .. r - l + 1 : a[j] = n.keys[l + j - 1])
      /\ (\A j \in 1 .. r - l + 2 : b[j] = n.links[l + j - 1])
  BY <1>1, <1>2, <1>3 DEF Part
<1>7. InnerSlice(p, n, l, r)
  BY <1>5, <1>6 DEF InnerSlice, Size
<1> QED
  BY <1>5, <1>7 DEF p

(* The right one of two pages keeps its own number and parent.                 *)
Renamed(n, m, q) == [n EXCEPT !.number = m, !.parent = q]

LEMMA RenamedIs ==
  ASSUME NEW n \in Node, NEW m \in Numbers, NEW q \in Numbers, NEW t, t = Renamed(n, m, q)
  PROVE  /\ t \in Node /\ t.kind = n.kind /\ t.number = m /\ t.parent = q
         /\ t.keys = n.keys /\ t.vals = n.vals /\ t.links = n.links /\ Size(t) = Size(n)
         /\ \A a, l, r : LeafSlice(n, a, l, r) => LeafSlice(t, a, l, r)
         /\ \A a, l, r : InnerSlice(n, a, l, r) => InnerSlice(t, a, l, r)
<1>1. /\ t \in Node /\ t.kind = n.kind /\ t.number = m /\ t.parent = q
      /\ t.keys = n.keys /\ t.vals = n.vals /\ t.links = n.links
  BY DEF Renamed, Node
<1> QED
  BY <1>1 DEF LeafSlice, InnerSlice, Size

(* The two pages of a divided leaf, as parts of the leaf with the new entry.   *)
LEMMA DivideLeafHas ==
  ASSUME NEW n \in Node, Len(n.vals) = Size(n), Size(n) >= 1,
         NEW k \in Keys, NEW v \in Values, NEW num \in Numbers,
         NEW d, d = DivideLeaf(n, k, v, num),
         NEW half, half = (Size(n) + 1) \div 2
  PROVE  /\ d.p \in Node /\ Len(d.p.vals) = Size(d.p)
         /\ d.p.kind = "Leaf" /\ d.p.number = n.number /\ d.p.parent = n.parent
         /\ Entries(d.p, n, 0, half, FindPos(n, k), k, v)
         /\ d.s \in Node /\ Len(d.s.vals) = Size(d.s)
         /\ d.s.kind = "Leaf" /\ d.s.number = num /\ d.s.parent = n.parent
         /\ Entries(d.s, n, half, Size(n) + 1, FindPos(n, k), k, v)
<1> DEFINE n0 == [n EXCEPT !.kind = "Leaf"]
           all == InsertIntoLeaf(n0, k, v)
           N == Size(n)
           pos == FindPos(n, k)
           t == [LeafPart(all, half + 1, Size(all)) EXCEPT !.number = num]
<1>1. /\ n0 \in Node /\ n0.keys = n.keys /\ n0.vals = n.vals /\ n0.kind = "Leaf"
      /\ n0.number = n.number /\ n0.parent = n.parent
  BY Kinds DEF Node
<1>2. Size(n0) = N /\ FindPos(n0, k) = pos /\ N \in Nat /\ half \in 1 .. N
  <2>1. Size(n0) = N /\ FindPos(n0, k) = pos
    BY <1>1 DEF Size, FindPos
  <2>2. N \in Nat
    BY NodeFields
  <2> HIDE DEF N
  <2> QED
    BY <2>1, <2>2 DEF N
<1>3. d = [p |-> LeafPart(all, 1, half), s |-> t]
  BY DEF DivideLeaf
<1> HIDE DEF n0
<1>4. /\ SameHead(n0, all) /\ Entries(all, n0, 0, N + 1, pos, k, v)
      /\ all \in Node /\ Len(all.vals) = Size(all)
  BY <1>1, <1>2, InsertIntoLeafHas
<1>5. Size(all) = N + 1
  BY <1>2, <1>4 DEF Entries
<1> HIDE DEF all, pos
<1>6. /\ LeafSlice(d.p, all, 1, half) /\ SameHead(all, d.p)
  <2>1. 1 \in 1 .. Size(all) + 1 /\ half \in 1 - 1 .. Size(all)
    BY <1>2, <1>5
  <2>2. d.p = LeafPart(all, 1, half)
    BY <1>3
  <2> QED
    BY <1>4, <2>1, <2>2, LeafPartIs
<1>7. /\ LeafSlice(t, all, half + 1, N + 1)
      /\ t.kind = all.kind /\ t.number = num /\ t.parent = all.parent
  <2> DEFINE p == LeafPart(all, half + 1, N + 1)
  <2>1. half + 1 \in 1 .. Size(all) + 1 /\ N + 1 \in (half + 1) - 1 .. Size(all)
    BY <1>2, <1>5
  <2>2. LeafSlice(p, all, half + 1, N + 1) /\ SameHead(all, p)
    BY <1>4, <2>1, LeafPartIs
  <2>3. t = [p EXCEPT !.number = num]
    BY <1>5
  <2> HIDE DEF p, t
  <2>4. p \in Node /\ p.kind = all.kind /\ p.parent = all.parent /\ all.parent \in Numbers
    BY <1>4, <2>2, NodeFields DEF LeafSlice, SameHead
  <2>5. t = Renamed(p, num, all.parent)
    BY <2>3, <2>4 DEF Node, Renamed
  <2> QED
    BY <2>2, <2>4, <2>5, RenamedIs
<1> HIDE DEF t
<1>8. ASSUME NEW i \in 0 .. N
      PROVE  LET o == IF i < pos THEN i + 1 ELSE i
             IN  IF i = pos THEN all.keys[i + 1] = k /\ all.vals[i + 1] = v
                 ELSE /\ o \in 1 .. N /\ all.keys[i + 1] = n.keys[o]
                      /\ all.vals[i + 1] = n.vals[o]
  <2> DEFINE j == i - 0 + 1
             o == IF i < pos THEN i + 1 ELSE i
  <2>1. i \in 0 .. (N + 1) - 1 /\ j = i + 1
    BY <1>2
  <2>2. \A h \in 0 .. (N + 1) - 1 :
          LET jj == h - 0 + 1
              oo == IF h < pos THEN h + 1 ELSE h
          IN  IF h = pos THEN all.keys[jj] = k /\ all.vals[jj] = v
              ELSE /\ oo \in 1 .. Size(n0) /\ all.keys[jj] = n0.keys[oo]
                   /\ all.vals[jj] = n0.vals[oo]
    BY <1>4, Zenon DEF Entries
  <2>3. IF i = pos THEN all.keys[j] = k /\ all.vals[j] = v
        ELSE o \in 1 .. N /\ all.keys[j] = n.keys[o] /\ all.vals[j] = n.vals[o]
    BY <1>1, <1>2, <2>1, <2>2, Zenon
  <2> HIDE DEF j, o
  <2>4. IF i = pos THEN all.keys[i + 1] = k /\ all.vals[i + 1] = v
        ELSE o \in 1 .. N /\ all.keys[i + 1] = n.keys[o] /\ all.vals[i + 1] = n.vals[o]
    BY <2>1, <2>3, Zenon
  <2> QED
    BY <2>4, Zenon DEF o
<1>9. Entries(d.p, n, 0, half, pos, k, v)
  <2>1. Size(d.p) = half - 0
    BY <1>2, <1>6 DEF LeafSlice
  <2>2. ASSUME NEW i \in 0 .. half - 1
        PROVE  /\ i \in 0 .. N /\ i - 0 + 1 = i + 1
               /\ d.p.keys[i + 1] = all.keys[i + 1] /\ d.p.vals[i + 1] = all.vals[i + 1]
    <3>1. i \in 0 .. N /\ i + 1 \in 1 .. half - 1 + 1 /\ 1 + (i + 1) - 1 = i + 1 /\ i - 0 + 1 = i + 1
      BY <1>2
    <3> QED
      BY <1>6, <3>1 DEF LeafSlice
  <2> QED
    BY <1>8, <2>1, <2>2 DEF Entries, N
<1>10. Entries(t, n, half, N + 1, pos, k, v)
  <2>1. Size(t) = N + 1 - half
    BY <1>2, <1>7 DEF LeafSlice
  <2>2. ASSUME NEW i \in half .. (N + 1) - 1
        PROVE  /\ i \in 0 .. N
               /\ t.keys[i - half + 1] = all.keys[i + 1] /\ t.vals[i - half + 1] = all.vals[i + 1]
    <3>1. /\ i \in 0 .. N /\ i - half + 1 \in 1 .. (N + 1) - (half + 1) + 1
          /\ (half + 1) + (i - half + 1) - 1 = i + 1
      <4> HIDE DEF N
      <4> QED
        BY <1>2
    <3> QED
      BY <1>7, <3>1 DEF LeafSlice
  <2>3. ASSUME NEW i \in half .. (N + 1) - 1
        PROVE  LET j == i - half + 1
                   o == IF i < pos THEN i + 1 ELSE i
               IN  IF i = pos THEN t.keys[j] = k /\ t.vals[j] = v
                   ELSE o \in 1 .. N /\ t.keys[j] = n.keys[o] /\ t.vals[j] = n.vals[o]
    BY <1>8, <2>2
  <2> QED
    BY <2>1, <2>3 DEF Entries, N
<1>11. d.s = t
  BY <1>3
<1>12. Entries(d.p, n, 0, half, FindPos(n, k), k, v)
  BY <1>9 DEF pos
<1>13. Entries(d.s, n, half, Size(n) + 1, FindPos(n, k), k, v)
  BY <1>10, <1>11 DEF pos, N
<1>14. d.p \in Node /\ Len(d.p.vals) = Size(d.p) /\ d.s \in Node /\ Len(d.s.vals) = Size(d.s)
  BY <1>6, <1>7, <1>11, Zenon DEF LeafSlice
<1>15. /\ d.p.kind = "Leaf" /\ d.p.number = n.number /\ d.p.parent = n.parent
       /\ d.s.kind = "Leaf" /\ d.s.number = num /\ d.s.parent = n.parent
  BY <1>1, <1>4, <1>6, <1>7, <1>11, Zenon DEF SameHead
<1> QED
  BY <1>12, <1>13, <1>14, <1>15

(* divide_leaf on the bytes.                                                   *)
LEMMA DivideLeafWrites ==
  ASSUME NEW n, Shaped(n), Fits(n), IsLeaf(n), Size(n) >= 1,
         NEW k \in Keys, NEW v \in Values, NEW num \in Numbers,
         NEW d, d = DivideLeaf(n, k, v, num), Fits(d.p), Fits(d.s)
  PROVE  /\ L!DivideLeaf(PageOf(n), Bytes[k], v, num) = [p |-> PageOf(d.p), s |-> PageOf(d.s)]
         /\ Shaped(d.p) /\ Shaped(d.s) /\ IsLeaf(d.p) /\ IsLeaf(d.s) /\ Size(d.s) >= 1
<1> DEFINE p == PageOf(n)
           N == Size(n)
           half == (N + 1) \div 2
           pos == FindPos(n, k)
<1>1. n \in Node /\ Len(n.vals) = N /\ n # Blank /\ N \in Nat
  BY StringsOf, LeavesAreThere DEF Shaped
<1>2. half \in 1 .. N /\ N >= 1
  <2> HIDE DEF N
  <2> QED
    BY <1>1 DEF N
<1>3. /\ d.p \in Node /\ Len(d.p.vals) = Size(d.p)
      /\ d.p.kind = "Leaf" /\ d.p.number = n.number /\ d.p.parent = n.parent
      /\ Entries(d.p, n, 0, half, pos, k, v)
      /\ d.s \in Node /\ Len(d.s.vals) = Size(d.s)
      /\ d.s.kind = "Leaf" /\ d.s.number = num /\ d.s.parent = n.parent
      /\ Entries(d.s, n, half, N + 1, pos, k, v)
  BY <1>1, DivideLeafHas
<1>4. IsLeaf(d.p) /\ IsLeaf(d.s) /\ Shaped(d.p) /\ Shaped(d.s)
  BY <1>3, Kinds DEF Shaped, IsLeaf
<1>5. /\ L!VertNum(p) = N /\ L!Cast(p, 4) = n.parent /\ p.number = n.number
      /\ L!FindPos(p, Bytes[k]) = pos /\ pos \in 0 .. N
  BY <1>1, HeaderReads, FindPosReads DEF PageOf
<1> HIDE DEF p, N, half, pos
<1>6. Size(d.p) = half /\ Size(d.s) = N - half + 1
  BY <1>1, <1>2, <1>3 DEF Entries
<1>7. /\ NewPage(d.p) = L!Create("Leaf", p.number, L!Cast(p, 4), half)
      /\ NewPage(d.s) = L!Create("Leaf", num, L!Cast(p, 4), N - half + 1)
  BY <1>3, <1>5, <1>6 DEF NewPage
<1>8. L!FillLeaf(p, NewPage(d.p), 0, half, pos, Bytes[k], v) = PageOf(d.p)
  BY <1>2, <1>3, <1>4, <1>5, FillLeafIs DEF p
<1>9. L!FillLeaf(p, NewPage(d.s), half, N + 1, pos, Bytes[k], v) = PageOf(d.s)
  BY <1>1, <1>2, <1>3, <1>4, <1>5, FillLeafIs DEF p
<1>10. L!DivideLeaf(p, Bytes[k], v, num) =
         [p |-> L!FillLeaf(p, L!Create("Leaf", p.number, L!Cast(p, 4), half), 0, half, pos,
                           Bytes[k], v),
          s |-> L!FillLeaf(p, L!Create("Leaf", num, L!Cast(p, 4), N - half + 1), half, N + 1,
                           pos, Bytes[k], v)]
  BY <1>5 DEF L!DivideLeaf, half
<1> QED
  BY <1>1, <1>2, <1>4, <1>6, <1>7, <1>8, <1>9, <1>10 DEF p

(* set_parent on the bytes.                                                    *)
LEMMA SetParentWrites ==
  ASSUME NEW n, Shaped(n), Fits(n), NEW r \in Numbers, NEW m, m = [n EXCEPT !.parent = r],
         n # Blank, m # Blank
  PROVE  L!SetParent(PageOf(n), r) = PageOf(m) /\ Shaped(m) /\ Fits(m)
<1>1. /\ m \in Node /\ m.kind = n.kind /\ m.number = n.number /\ m.parent = r
      /\ m.keys = n.keys /\ m.vals = n.vals /\ m.links = n.links
  BY DEF Shaped, Node
<1>2. /\ IsLeaf(m) = IsLeaf(n) /\ Size(m) = Size(n) /\ KeyStrings(m) = KeyStrings(n)
      /\ \A i : ValueStart(m, i) = ValueStart(n, i)
  BY <1>1 DEF IsLeaf, Size, KeyStrings, ValueStart
<1>3. \A i : KeyStart(m, i) = KeyStart(n, i)
  BY <1>2 DEF KeyStart
<1>4. Begining(m) = Begining(n) /\ Ending(m) = Ending(n)
  BY <1>2, <1>3 DEF Begining, Ending
<1>5. Shaped(m) /\ Fits(m)
  BY <1>1, <1>2, <1>4 DEF Shaped, Fits
<1> DEFINE rest == {<<0, L!Short(Begining(n))>>, <<2, L!Short(Ending(n))>>, <<8, L!Word(Size(n))>>}
                     \union Slots(n) \union KeyItems(n)
                     \union IF IsLeaf(n) THEN ValueItems(n) ELSE LinkItems(n)
           was == <<4, L!Word(n.parent)>>
           new == <<4, L!Word(r)>>
<1>6. Items(n) = rest \union {was}
  BY DEF Items, Header
<1>7. Items(m) = rest \union {new}
  <2>1. /\ Slots(m) = Slots(n) /\ KeyItems(m) = KeyItems(n) /\ ValueItems(m) = ValueItems(n)
        /\ LinkItems(m) = LinkItems(n)
    BY <1>1, <1>2, <1>3 DEF Slots, KeyItems, ValueItems, LinkItems
  <2> QED
    BY <1>1, <1>2, <1>4, <2>1 DEF Items, Header
<1>8. Zone(Items(n), 0, L!Room) /\ Zone(Items(m), 0, L!Room)
  BY <1>5, ItemsZone
<1>9. was[1] = 4 /\ new[1] = 4
  OBVIOUS
<1> HIDE DEF rest, was
<1>10. L!Put(Mem(Items(n)), 4, L!Word(r)) = Mem(Items(m))
  <2>1. Rewritten(Items(n), Items(m), 4, L!Word(r))
    BY <1>6, <1>7, <1>9 DEF Rewritten
  <2> QED
    BY <1>8, <2>1, PutWrites
<1>11. PageOf(n) = [kind |-> n.kind, number |-> n.number, mem |-> Mem(Items(n))]
       /\ PageOf(m) = [kind |-> n.kind, number |-> n.number, mem |-> Mem(Items(m))]
  BY <1>1 DEF PageOf
<1> DEFINE a == Mem(Items(n))
           b == Mem(Items(m))
<1> HIDE DEF a, b
<1>12. /\ PageOf(n) = [kind |-> n.kind, number |-> n.number, mem |-> a]
       /\ PageOf(m) = [kind |-> n.kind, number |-> n.number, mem |-> b]
       /\ L!Put(a, 4, L!Word(r)) = b
  BY <1>10, <1>11 DEF a, b
<1> QED
  BY <1>5, <1>12 DEF L!SetParent

(* How many keys stay in a page of n keys that is divided.                     *)
Half(n) == (n + 1) \div 2

(* But for its first link, s is what the loop of the second page copies.       *)
ButFirstLink(s, n, half, k, link) ==
  \A t \in Node :
    /\ t.keys = s.keys /\ t.links[1] = n.links[half + 1]
    /\ \A j \in 2 .. Size(n) - half + 1 : t.links[j] = s.links[j]
    => InnerEntries(t, n, half, Size(n), 0, k, link)

(* The two pages of a divided inner page, and the key between them, as the     *)
(* copying loops see them; a new key in the middle leaves its link only.       *)
LEMMA DivideIntermediateHas ==
  ASSUME NEW n \in Node, Len(n.links) = Size(n) + 1, Size(n) >= 4,
         NEW k \in Keys, NEW link \in Numbers, NEW num \in Numbers,
         NEW d, d = DivideIntermediate(n, k, link, num),
         NEW half, half = Half(Size(n)),
         NEW pos, pos = FindPos(n, k)
  PROVE  /\ d.p \in Node /\ Len(d.p.links) = Size(d.p) + 1
         /\ d.p.kind = "Intermediate" /\ d.p.number = n.number /\ d.p.parent = n.parent
         /\ d.s \in Node /\ Len(d.s.links) = Size(d.s) + 1 /\ Size(d.s) = Size(n) - half
         /\ d.s.kind = "Intermediate" /\ d.s.number = num /\ d.s.parent = n.parent
         /\ InnerEntries(d.p, n, 0, half, pos, k, link)
         /\ pos < half => /\ InnerEntries(d.s, n, half, Size(n), pos, k, link)
                          /\ d.key = n.keys[half]
         /\ pos = half => /\ ButFirstLink(d.s, n, half, k, link)
                          /\ d.s.links[1] = link /\ d.key = k
         /\ pos > half => /\ InnerEntries(d.s, n, half + 1, Size(n) + 1, pos, k, link)
                          /\ d.key = n.keys[half + 1]
<1> DEFINE n0 == [n EXCEPT !.kind = "Intermediate"]
           all == InsertIntoIntermediate(n0, k, link)
           N == Size(n)
           t == [NodePart(all, half + 2, Size(all)) EXCEPT !.number = num]
<1>1. /\ n0 \in Node /\ n0.keys = n.keys /\ n0.links = n.links /\ n0.kind = "Intermediate"
      /\ n0.number = n.number /\ n0.parent = n.parent
  BY Kinds DEF Node
<1>2. /\ Size(n0) = N /\ FindPos(n0, k) = pos /\ N \in Nat /\ N >= 4
      /\ half \in 1 .. N /\ half + 2 <= N /\ pos \in 0 .. N
  <2>1. Size(n0) = N /\ FindPos(n0, k) = pos
    BY <1>1 DEF Size, FindPos
  <2>2. N \in Nat /\ pos \in 0 .. N
    BY NodeFields, FindPosStops, NumbersAreNat
  <2> HIDE DEF N
  <2> QED
    BY <2>1, <2>2 DEF N, Half
<1>3. d.p = NodePart(all, 1, half) /\ d.s = t /\ d.key = all.keys[half + 1]
  BY DEF DivideIntermediate, Half
<1> HIDE DEF n0
<1>4. /\ SameHead(n0, all) /\ InnerEntries(all, n0, 0, N + 1, pos, k, link)
      /\ all \in Node /\ Len(all.links) = Size(all) + 1
  BY <1>1, <1>2, InsertIntoIntermediateHas
<1>5. Size(all) = N + 1
  BY <1>2, <1>4 DEF InnerEntries
<1> HIDE DEF all
<1>6. /\ InnerSlice(d.p, all, 1, half) /\ SameHead(all, d.p)
  <2>1. 1 \in 1 .. Size(all) + 1 /\ half \in 1 - 1 .. Size(all)
    BY <1>2, <1>5
  <2> QED
    BY <1>3, <1>4, <2>1, NodePartIs
<1>7. /\ InnerSlice(t, all, half + 2, N + 1)
      /\ t.kind = all.kind /\ t.number = num /\ t.parent = all.parent
  <2> DEFINE p == NodePart(all, half + 2, N + 1)
  <2>1. half + 2 \in 1 .. Size(all) + 1 /\ N + 1 \in (half + 2) - 1 .. Size(all)
    BY <1>2, <1>5
  <2>2. InnerSlice(p, all, half + 2, N + 1) /\ SameHead(all, p)
    BY <1>4, <2>1, NodePartIs
  <2>3. t = [p EXCEPT !.number = num]
    BY <1>5
  <2> HIDE DEF p, t
  <2>4. p \in Node /\ p.kind = all.kind /\ p.parent = all.parent /\ all.parent \in Numbers
    BY <1>4, <2>2, NodeFields DEF InnerSlice, SameHead
  <2>5. t = Renamed(p, num, all.parent)
    BY <2>3, <2>4 DEF Node, Renamed
  <2>6. /\ t \in Node /\ t.kind = p.kind /\ t.number = num /\ t.parent = all.parent
        /\ t.keys = p.keys /\ t.vals = p.vals /\ t.links = p.links /\ Size(t) = Size(p)
    BY <2>4, <2>5 DEF Renamed, Node, Size
  <2> QED
    BY <2>2, <2>4, <2>6 DEF InnerSlice
<1> HIDE DEF t, N
<1>8. ASSUME NEW i \in 0 .. N
      PROVE  /\ i = pos => all.keys[i + 1] = k /\ all.links[i + 2] = link
             /\ i < pos => /\ i + 1 \in 1 .. N /\ all.keys[i + 1] = n.keys[i + 1]
                           /\ all.links[i + 2] = n.links[i + 2]
             /\ pos < i => /\ i \in 1 .. N /\ all.keys[i + 1] = n.keys[i]
                           /\ all.links[i + 2] = n.links[i + 1]
  <2>1. /\ i \in 0 .. (N + 1) - 1 /\ i - 0 + 1 = i + 1 /\ (i + 1) + 1 = i + 2
        /\ i < pos => ~(0 <= pos /\ pos < i) /\ i # pos
        /\ pos < i => 0 <= pos /\ i # pos
    BY <1>2
  <2>2. LET o == IF 0 <= pos /\ pos < i THEN i ELSE i + 1
        IN  IF i = pos THEN all.keys[i + 1] = k /\ all.links[i + 2] = link
            ELSE o \in 1 .. N /\ all.keys[i + 1] = n.keys[o] /\ all.links[i + 2] = n.links[o + 1]
    BY <1>1, <1>2, <1>4, <2>1 DEF InnerEntries
  <2> QED
    BY <2>1, <2>2
<1>9. all.links[1] = n.links[1]
  BY <1>1, <1>4 DEF InnerEntries
<1>10. /\ Size(d.p) = half /\ Len(d.p.links) = half + 1 /\ d.p.links[1] = all.links[1]
       /\ \A i \in 0 .. half - 1 : /\ d.p.keys[i + 1] = all.keys[i + 1]
                                   /\ d.p.links[i + 2] = all.links[i + 2]
  <2>1. Size(d.p) = half /\ Len(d.p.links) = half + 1
    BY <1>2, <1>6 DEF InnerSlice
  <2>2. d.p.links[1] = all.links[1]
    <3>1. 1 \in 1 .. half - 1 + 2 /\ 1 + 1 - 1 = 1
      BY <1>2
    <3> QED
      BY <1>6, <3>1 DEF InnerSlice
  <2>3. ASSUME NEW i \in 0 .. half - 1
        PROVE  d.p.keys[i + 1] = all.keys[i + 1] /\ d.p.links[i + 2] = all.links[i + 2]
    <3>1. /\ i + 1 \in 1 .. half - 1 + 1 /\ 1 + (i + 1) - 1 = i + 1
          /\ i + 2 \in 1 .. half - 1 + 2 /\ 1 + (i + 2) - 1 = i + 2
      BY <1>2
    <3> QED
      BY <1>6, <3>1 DEF InnerSlice
  <2> QED
    BY <2>1, <2>2, <2>3
<1>11. /\ Size(t) = N - half /\ Len(t.links) = Size(t) + 1 /\ t.links[1] = all.links[half + 2]
       /\ \A j \in 1 .. N - half : /\ t.keys[j] = all.keys[half + j + 1]
                                   /\ t.links[j + 1] = all.links[half + j + 2]
  <2>1. Size(t) = N - half /\ Len(t.links) = Size(t) + 1
    BY <1>2, <1>7 DEF InnerSlice
  <2>2. t.links[1] = all.links[half + 2]
    <3>1. 1 \in 1 .. (N + 1) - (half + 2) + 2 /\ (half + 2) + 1 - 1 = half + 2
      BY <1>2
    <3> QED
      BY <1>7, <3>1 DEF InnerSlice
  <2>3. ASSUME NEW j \in 1 .. N - half
        PROVE  t.keys[j] = all.keys[half + j + 1] /\ t.links[j + 1] = all.links[half + j + 2]
    <3>1. (N + 1) - (half + 2) + 1 = N - half /\ (N + 1) - (half + 2) + 2 = N - half + 1
      BY <1>2
    <3>2. j \in 1 .. (N + 1) - (half + 2) + 1 /\ (half + 2) + j - 1 = half + j + 1
      BY <1>2, <3>1
    <3>3. j + 1 \in 1 .. (N + 1) - (half + 2) + 2 /\ (half + 2) + (j + 1) - 1 = half + j + 2
      <4>1. N \in Nat /\ half \in Nat /\ 1 <= j /\ j <= N - half /\ j \in Nat
        BY <1>2
      <4> QED
        BY <4>1
    <3> QED
      BY <1>7, <3>2, <3>3 DEF InnerSlice
  <2> QED
    BY <2>1, <2>2, <2>3
<1>12. InnerEntries(d.p, n, 0, half, pos, k, link)
  <2>1. Size(d.p) = half - 0 /\ d.p.links[1] = n.links[0 + 1]
    BY <1>2, <1>9, <1>10
  <2>2. ASSUME NEW i \in 0 .. half - 1
        PROVE  LET j == i - 0 + 1
                   o == IF 0 <= pos /\ pos < i THEN i ELSE i + 1
               IN  IF i = pos THEN d.p.keys[j] = k /\ d.p.links[j + 1] = link
                   ELSE /\ o \in 1 .. N /\ d.p.keys[j] = n.keys[o]
                        /\ d.p.links[j + 1] = n.links[o + 1]
    <3>1. i \in 0 .. N /\ i - 0 + 1 = i + 1 /\ (i + 1) + 1 = i + 2 /\ 0 <= pos
          /\ (i = pos \/ i < pos \/ pos < i) /\ (i < pos => ~(pos < i) /\ i # pos)
      BY <1>2
    <3>2. d.p.keys[i + 1] = all.keys[i + 1] /\ d.p.links[i + 2] = all.links[i + 2]
      BY <1>10
    <3>3. CASE i = pos
      BY <1>8, <3>1, <3>2, <3>3
    <3>4. CASE i < pos
      BY <1>8, <3>1, <3>2, <3>4
    <3>5. CASE pos < i
      BY <1>8, <3>1, <3>2, <3>5
    <3> QED
      BY <3>1, <3>3, <3>4, <3>5
  <2> QED
    BY <2>1, <2>2 DEF InnerEntries, N
<1>13. ASSUME pos < half
       PROVE  InnerEntries(t, n, half, N, pos, k, link) /\ d.key = n.keys[half]
  <2>1. ASSUME NEW i \in half .. N - 1
        PROVE  LET j == i - half + 1
               IN  t.keys[j] = n.keys[i + 1] /\ t.links[j + 1] = n.links[(i + 1) + 1]
    <3>0. /\ N \in Nat /\ half \in Nat /\ i \in Nat /\ half <= i /\ i <= N - 1
          /\ pos \in Nat /\ pos < half
      BY <1>2, <1>13
    <3>1. /\ i - half + 1 \in 1 .. N - half /\ half + (i - half + 1) + 1 = (i + 1) + 1
          /\ half + (i - half + 1) + 2 = (i + 1) + 2 /\ i + 1 \in 0 .. N /\ pos < i + 1
      BY <3>0
    <3> QED
      BY <1>8, <1>11, <3>1
  <2>2. t.links[1] = n.links[half + 1] /\ d.key = n.keys[half]
    <3>1. half \in 0 .. N /\ pos < half
      BY <1>2, <1>13
    <3>2. all.keys[half + 1] = n.keys[half] /\ all.links[half + 2] = n.links[half + 1]
      BY <1>8, <3>1
    <3> QED
      BY <1>3, <1>11, <3>2
  <2>3. \A i \in half .. N - 1 : i + 1 \in 1 .. N /\ i # pos /\ ~(half <= pos)
    BY <1>2, <1>13
  <2> QED
    BY <1>11, <2>1, <2>2, <2>3 DEF InnerEntries, N
<1>14. ASSUME pos = half
       PROVE  /\ ButFirstLink(t, n, half, k, link)
              /\ t.links[1] = link /\ d.key = k
  <2>1. ASSUME NEW i \in half .. N - 1
        PROVE  LET j == i - half + 1
               IN  /\ t.keys[j] = n.keys[i + 1] /\ t.links[j + 1] = n.links[(i + 1) + 1]
                   /\ j + 1 \in 2 .. N - half + 1
    <3>1. i - half + 1 \in 1 .. N - half /\ (i - half + 1) + 1 \in 2 .. N - half + 1
      BY <1>2
    <3>2. /\ half + (i - half + 1) + 1 = (i + 1) + 1 /\ half + (i - half + 1) + 2 = (i + 1) + 2
          /\ i + 1 \in 0 .. N /\ pos < i + 1
      BY <1>2, <1>14
    <3> QED
      BY <1>8, <1>11, <3>1, <3>2
  <2>2. t.links[1] = link /\ d.key = k
    BY <1>2, <1>3, <1>8, <1>11, <1>14
  <2>3. \A i \in half .. N - 1 : i + 1 \in 1 .. N /\ i # 0 /\ ~(half <= 0)
    BY <1>2
  <2>4. ASSUME NEW s \in Node, s.keys = t.keys, s.links[1] = n.links[half + 1],
               \A j \in 2 .. N - half + 1 : s.links[j] = t.links[j]
        PROVE  InnerEntries(s, n, half, N, 0, k, link)
    <3>1. Size(s) = N - half
      BY <1>11, <2>4 DEF Size
    <3>2. ASSUME NEW i \in half .. N - 1
          PROVE  LET j == i - half + 1
                 IN  s.keys[j] = n.keys[i + 1] /\ s.links[j + 1] = n.links[(i + 1) + 1]
      BY <2>1, <2>4
    <3> QED
      BY <2>3, <2>4, <3>1, <3>2 DEF InnerEntries, N
  <2> QED
    BY <2>2, <2>4 DEF ButFirstLink, N
<1>15. ASSUME pos > half
       PROVE  InnerEntries(t, n, half + 1, N + 1, pos, k, link) /\ d.key = n.keys[half + 1]
  <2>1. ASSUME NEW i \in half + 1 .. (N + 1) - 1
        PROVE  LET j == i - (half + 1) + 1
                   o == IF half + 1 <= pos /\ pos < i THEN i ELSE i + 1
               IN  IF i = pos THEN t.keys[j] = k /\ t.links[j + 1] = link
                   ELSE /\ o \in 1 .. N /\ t.keys[j] = n.keys[o]
                        /\ t.links[j + 1] = n.links[o + 1]
    <3>0. /\ N \in Nat /\ half \in Nat /\ half <= N /\ i \in Nat /\ half + 1 <= i /\ i <= N
          /\ pos \in Nat /\ half < pos
      BY <1>2, <1>15
    <3>1. /\ i - (half + 1) + 1 \in 1 .. N - half
          /\ half + (i - (half + 1) + 1) + 1 = i + 1
          /\ half + (i - (half + 1) + 1) + 2 = i + 2 /\ i \in 0 .. N
      BY <3>0
    <3>2. /\ half + 1 <= pos /\ (i = pos \/ i < pos \/ pos < i)
          /\ (i < pos => ~(pos < i) /\ i # pos) /\ (i + 1) + 1 = i + 2
      BY <3>0
    <3> DEFINE j == i - (half + 1) + 1
    <3>3. t.keys[j] = all.keys[i + 1] /\ t.links[j + 1] = all.links[i + 2]
      BY <1>11, <3>1
    <3> HIDE DEF j
    <3>4. LET o == IF half + 1 <= pos /\ pos < i THEN i ELSE i + 1
          IN  IF i = pos THEN t.keys[j] = k /\ t.links[j + 1] = link
              ELSE /\ o \in 1 .. N /\ t.keys[j] = n.keys[o]
                   /\ t.links[j + 1] = n.links[o + 1]
      <4>1. CASE i = pos
        BY <1>8, <3>1, <3>3, <4>1
      <4>2. CASE i < pos
        BY <1>8, <3>1, <3>2, <3>3, <4>2
      <4>3. CASE pos < i
        BY <1>8, <3>1, <3>2, <3>3, <4>3
      <4> QED
        BY <3>2, <4>1, <4>2, <4>3
    <3> QED
      BY <3>4 DEF j
  <2>2. t.links[1] = n.links[(half + 1) + 1] /\ d.key = n.keys[half + 1]
    <3>1. half \in 0 .. N /\ half < pos /\ (half + 1) + 1 = half + 2
      BY <1>2, <1>15
    <3> QED
      BY <1>3, <1>8, <1>11, <3>1
  <2>3. Size(t) = (N + 1) - (half + 1)
    BY <1>2, <1>11
  <2> QED
    BY <2>1, <2>2, <2>3 DEF InnerEntries, N
<1> QED
  BY <1>1, <1>3, <1>4, <1>6, <1>7, <1>10, <1>11, <1>12, <1>13, <1>14, <1>15
  DEF InnerSlice, SameHead, N

(* A page with another first link, and with that link written over the old one. *)
LEMMA FirstLinkWrites ==
  ASSUME NEW n, InnerPage(n), Size(n) >= 1, NEW m \in Node, SameHead(n, m), m.keys = n.keys,
         Len(m.links) = Len(n.links), \A j \in 2 .. Size(n) + 1 : m.links[j] = n.links[j]
  PROVE  /\ InnerPage(m)
         /\ [PageOf(n) EXCEPT !.mem = L!Put(@, L!KeyOffset(PageOf(n), 0) - 4,
                                            L!Word(m.links[1]))] = PageOf(m)
<1>1. /\ Shaped(n) /\ Fits(n) /\ n # Blank /\ ~IsLeaf(n) /\ Len(n.links) = Size(n) + 1
      /\ Size(n) \in Nat
  <2>1. /\ Shaped(n) /\ Fits(n) /\ n # Blank /\ ~IsLeaf(n) /\ Len(n.links) = Size(n) + 1
    BY DEF InnerPage
  <2> QED
    BY <2>1, StringsOf
<1>2. /\ ~IsLeaf(m) /\ Size(m) = Size(n) /\ KeyStrings(m) = KeyStrings(n) /\ m.parent = n.parent
  BY <1>1 DEF IsLeaf, Size, KeyStrings, SameHead
<1>3. \A i : KeyStart(m, i) = KeyStart(n, i)
  BY <1>1, <1>2 DEF KeyStart
<1>4. Begining(m) = Begining(n) /\ Ending(m) = Ending(n)
  BY <1>1, <1>2, <1>3 DEF Begining, Ending
<1>5. InnerPage(m)
  <2>1. m # Blank
    BY <1>1, <1>2, BlankReads
  <2> QED
    BY <1>1, <1>2, <1>4, <2>1 DEF InnerPage, Shaped, Fits
<1> DEFINE at == KeyStart(n, 1) - 4
           new == <<at, L!Word(m.links[1])>>
<1>6. L!KeyOffset(PageOf(n), 0) - 4 = at
  <2>1. 1 \in 1 .. Size(n) /\ 1 - 1 = 0
    BY <1>1
  <2> QED
    BY <1>1, <2>1, KeyReads
<1>7. /\ Header(m) = Header(n) /\ Slots(m) = Slots(n) /\ KeyItems(m) = KeyItems(n)
  BY <1>2, <1>3, <1>4 DEF Header, Slots, KeyItems
<1>8. DOMAIN n.links = 1 .. Size(n) + 1 /\ DOMAIN m.links = 1 .. Size(n) + 1
  <2>1. n.links \in Seq(Numbers) /\ m.links \in Seq(Numbers)
    BY <1>1, NodeFields DEF Shaped
  <2> QED
    BY <1>1, <2>1, LenProperties
<1>9. /\ LinkItems(n) = {<<KeyStart(n, i) - 4, L!Word(n.links[i])>> : i \in 1 .. Size(n) + 1}
      /\ LinkItems(m) = {<<KeyStart(n, i) - 4, L!Word(m.links[i])>> : i \in 1 .. Size(n) + 1}
  BY <1>3, <1>8 DEF LinkItems
<1>10. Rewritten(Items(n), Items(m), at, L!Word(m.links[1]))
  <2>1. new \in LinkItems(m)
    BY <1>1, <1>9
  <2>2. ASSUME NEW x \in LinkItems(m) PROVE x = new \/ x \in LinkItems(n)
    <3>1. PICK i \in 1 .. Size(n) + 1 : x = <<KeyStart(n, i) - 4, L!Word(m.links[i])>>
      BY <1>9
    <3>2. i = 1 \/ i \in 2 .. Size(n) + 1
      BY <1>1
    <3> QED
      BY <1>9, <3>1, <3>2
  <2>3. ASSUME NEW x \in LinkItems(n) PROVE x[1] = at \/ x \in LinkItems(m)
    <3>1. PICK i \in 1 .. Size(n) + 1 : x = <<KeyStart(n, i) - 4, L!Word(n.links[i])>>
      BY <1>9
    <3>2. i = 1 \/ i \in 2 .. Size(n) + 1
      BY <1>1
    <3> QED
      BY <1>9, <3>1, <3>2
  <2>4. /\ Items(n) = Header(n) \union Slots(n) \union KeyItems(n) \union LinkItems(n)
        /\ Items(m) = Header(n) \union Slots(n) \union KeyItems(n) \union LinkItems(m)
    BY <1>1, <1>2, <1>7 DEF Items
  <2> HIDE DEF at
  <2> QED
    BY <2>1, <2>2, <2>3, <2>4 DEF Rewritten
<1>11. L!Put(Mem(Items(n)), at, L!Word(m.links[1])) = Mem(Items(m))
  <2>1. Zone(Items(n), 0, L!Room) /\ Zone(Items(m), 0, L!Room)
    BY <1>1, <1>5, ItemsZone DEF InnerPage
  <2> HIDE DEF at
  <2> QED
    BY <1>10, <2>1, PutWrites
<1> DEFINE a == Mem(Items(n))
           b == Mem(Items(m))
<1>12. /\ PageOf(n) = [kind |-> n.kind, number |-> n.number, mem |-> a]
       /\ PageOf(m) = [kind |-> n.kind, number |-> n.number, mem |-> b]
  BY <1>1, <1>5 DEF PageOf, InnerPage, SameHead
<1> HIDE DEF a, b, at
<1>13. L!Put(a, at, L!Word(m.links[1])) = b
  BY <1>11 DEF a, b
<1> QED
  BY <1>5, <1>6, <1>12, <1>13

(* divide_intermediate on the bytes.                                           *)
LEMMA DivideIntermediateWrites ==
  ASSUME NEW n, InnerPage(n), Size(n) >= 4,
         NEW k \in Keys, NEW link \in Numbers, NEW num \in Numbers,
         NEW d, d = DivideIntermediate(n, k, link, num), Fits(d.p), Fits(d.s)
  PROVE  /\ L!DivideIntermediate(PageOf(n), Bytes[k], link, num)
              = [p |-> PageOf(d.p), s |-> PageOf(d.s), key |-> Bytes[d.key]]
         /\ InnerPage(d.p) /\ InnerPage(d.s)
<1> DEFINE p == PageOf(n)
           N == Size(n)
           half == Half(N)
           pos == FindPos(n, k)
           Made(l, at) == L!FillIntermediate(p, L!Create("Intermediate", num, L!Cast(p, 4), N - half),
                                   l, l + (N - half), at, Bytes[k], link)
           l == IF pos <= half THEN half ELSE half + 1
           s == Made(l, IF pos = half THEN 0 ELSE pos)
<1>1. /\ n \in Node /\ Len(n.links) = N + 1 /\ N \in Nat /\ n # Blank
      /\ Shaped(n) /\ Fits(n)
      /\ L!VertNum(p) = N /\ L!FindPos(p, Bytes[k]) = pos /\ pos \in 0 .. N
      /\ \A i \in 1 .. N : L!KeyAt(p, i - 1).bytes = Bytes[n.keys[i]]
  <2>1. Shaped(n) /\ Fits(n) /\ n # Blank
    BY DEF InnerPage
  <2> QED
    BY <2>1, InnerReads, FindPosReads DEF Shaped
<1>2. L!Cast(p, 4) = n.parent /\ p.number = n.number
  BY <1>1, HeaderReads DEF PageOf
<1>3. half \in Nat /\ half >= 1 /\ half + 2 <= N /\ N >= 4
  <2> HIDE DEF N
  <2> QED
    BY <1>1 DEF Half, N
<1>4. /\ d.p \in Node /\ Len(d.p.links) = Size(d.p) + 1
      /\ d.p.kind = "Intermediate" /\ d.p.number = n.number /\ d.p.parent = n.parent
      /\ d.s \in Node /\ Len(d.s.links) = Size(d.s) + 1 /\ Size(d.s) = N - half
      /\ d.s.kind = "Intermediate" /\ d.s.number = num /\ d.s.parent = n.parent
      /\ InnerEntries(d.p, n, 0, half, pos, k, link)
      /\ pos < half => /\ InnerEntries(d.s, n, half, N, pos, k, link)
                       /\ d.key = n.keys[half]
      /\ pos = half => /\ ButFirstLink(d.s, n, half, k, link)
                       /\ d.s.links[1] = link /\ d.key = k
      /\ pos > half => /\ InnerEntries(d.s, n, half + 1, N + 1, pos, k, link)
                       /\ d.key = n.keys[half + 1]
  BY <1>1, <1>3, DivideIntermediateHas
<1>5. L!DivideIntermediate(p, Bytes[k], link, num) =
        [p |-> L!FillIntermediate(p, L!Create("Intermediate", p.number, L!Cast(p, 4), half),
                                  0, half, pos, Bytes[k], link),
         s |-> IF pos = half
               THEN [s EXCEPT !.mem = L!Put(@, L!KeyOffset(s, 0) - 4, L!Word(link))] ELSE s,
         key |-> IF pos = half THEN Bytes[k]
                 ELSE L!KeyAt(p, IF pos < half THEN half - 1 ELSE half).bytes]
  BY <1>1 DEF L!DivideIntermediate, Half
<1> HIDE DEF p, N, half, pos
<1>6. InnerPage(d.p) /\ InnerPage(d.s)
  <2>1. d.p # Blank /\ d.s # Blank /\ ~IsLeaf(d.p) /\ ~IsLeaf(d.s)
    BY <1>4, Kinds DEF Blank, IsLeaf
  <2> QED
    BY <1>4, <2>1 DEF InnerPage, Shaped
<1>7. Size(d.p) = half /\ \A m : Size(m) = half <=> Size(m) = half - 0
  BY <1>1, <1>3, <1>4 DEF InnerEntries
<1>8. L!FillIntermediate(p, L!Create("Intermediate", p.number, L!Cast(p, 4), half),
                         0, half, pos, Bytes[k], link) = PageOf(d.p)
  <2>1. NewPage(d.p) = L!Create("Intermediate", p.number, L!Cast(p, 4), half)
    BY <1>2, <1>4, <1>7 DEF NewPage
  <2>2. 0 \in 0 .. Size(n) - 1 /\ half \in Nat /\ 0 <= half /\ pos \in Nat
    BY <1>1, <1>3 DEF N
  <2>3. L!FillIntermediate(PageOf(n), NewPage(d.p), 0, half, pos, Bytes[k], link) = PageOf(d.p)
    BY <1>4, <1>6, <2>2, FillIntermediateIs
  <2> QED
    BY <2>1, <2>3 DEF p
<1>9. ASSUME NEW m, InnerPage(m), m.kind = "Intermediate", m.number = num, m.parent = n.parent,
             Size(m) = N - half, NEW a \in {half, half + 1}, NEW at \in Nat,
             InnerEntries(m, n, a, a + (N - half), at, k, link)
      PROVE  Made(a, at) = PageOf(m)
  <2>1. NewPage(m) = L!Create("Intermediate", num, L!Cast(p, 4), N - half)
    BY <1>2, <1>9 DEF NewPage
  <2>2. a \in 0 .. Size(n) - 1 /\ a + (N - half) \in Nat /\ a <= a + (N - half)
    BY <1>1, <1>3 DEF N
  <2>3. L!FillIntermediate(PageOf(n), NewPage(m), a, a + (N - half), at, Bytes[k], link) = PageOf(m)
    BY <1>9, <2>2, FillIntermediateIs
  <2> QED
    BY <2>1, <2>3 DEF p
<1> HIDE DEF Made
<1>10. half + (N - half) = N /\ (half + 1) + (N - half) = N + 1
  BY <1>1, <1>3
<1>11. CASE pos < half
  <2>1. l = half /\ s = Made(half, pos) /\ pos # half
    BY <1>1, <1>3, <1>11
  <2>2. Made(half, pos) = PageOf(d.s)
    BY <1>1, <1>4, <1>6, <1>9, <1>10, <1>11
  <2>3. L!KeyAt(p, half - 1).bytes = Bytes[d.key]
    <3>1. half \in 1 .. N
      BY <1>1, <1>3
    <3> QED
      BY <1>1, <1>4, <1>11, <3>1
  <2> HIDE DEF l, s
  <2> QED
    BY <1>5, <1>6, <1>8, <1>11, <2>1, <2>2, <2>3 DEF p
<1>12. CASE pos > half
  <2>1. l = half + 1 /\ s = Made(half + 1, pos) /\ pos # half /\ ~(pos < half)
    BY <1>1, <1>3, <1>12
  <2>2. Made(half + 1, pos) = PageOf(d.s)
    <3>1. half + 1 \in {half, half + 1} /\ pos \in Nat
      BY <1>1
    <3>2. InnerEntries(d.s, n, half + 1, (half + 1) + (N - half), pos, k, link)
      BY <1>4, <1>10, <1>12
    <3> QED
      BY <1>4, <1>6, <1>9, <3>1, <3>2
  <2>3. L!KeyAt(p, half).bytes = Bytes[d.key]
    <3>1. half + 1 \in 1 .. N /\ (half + 1) - 1 = half
      BY <1>1, <1>3
    <3> QED
      BY <1>1, <1>4, <1>12, <3>1
  <2> HIDE DEF l, s
  <2> QED
    BY <1>5, <1>6, <1>8, <2>1, <2>2, <2>3 DEF p
<1>13. CASE pos = half
  <2> DEFINE b == [d.s.links EXCEPT ![1] = n.links[half + 1]]
             m == [d.s EXCEPT !.links = b]
  <2>1. l = half /\ s = Made(half, 0)
    BY <1>1, <1>3, <1>13
  <2>2. /\ b \in Seq(Numbers) /\ Len(b) = Len(d.s.links) /\ b[1] = n.links[half + 1]
        /\ \A j \in 2 .. Size(d.s) + 1 : b[j] = d.s.links[j]
    <3>1. /\ d.s.links \in Seq(Numbers) /\ Len(d.s.links) = Size(d.s) + 1 /\ Size(d.s) \in Nat
          /\ n.links \in Seq(Numbers) /\ half + 1 \in 1 .. Len(n.links)
      <4>1. half + 1 \in 1 .. N + 1
        BY <1>1, <1>3
      <4>2. n.links \in Seq(Numbers) /\ d.s.links \in Seq(Numbers) /\ Size(d.s) \in Nat
        BY <1>1, <1>4, NodeFields
      <4> QED
        BY <1>1, <1>4, <4>1, <4>2
    <3>2. n.links[half + 1] \in Numbers /\ 1 \in 1 .. Len(d.s.links)
      BY <3>1, ElementOfSeq
    <3> QED
      BY <3>1, <3>2
  <2> HIDE DEF b
  <2>3. m \in Node /\ SameHead(d.s, m) /\ m.keys = d.s.keys /\ m.links = b
    BY <1>4, <2>2 DEF Node, SameHead
  <2> HIDE DEF m
  <2>4. SameHead(m, d.s) /\ d.s.keys = m.keys /\ Len(d.s.links) = Len(m.links)
        /\ Size(m) = N - half /\ Size(m) = Size(d.s) /\ Size(m) >= 1
        /\ \A j \in 2 .. Size(m) + 1 : d.s.links[j] = m.links[j]
    <3>1. /\ SameHead(m, d.s) /\ d.s.keys = m.keys /\ Len(d.s.links) = Len(m.links)
          /\ Size(m) = Size(d.s)
      BY <2>2, <2>3 DEF SameHead, Size
    <3>2. Size(d.s) = N - half /\ Size(d.s) >= 1
      BY <1>1, <1>3, <1>4
    <3>3. \A j \in 2 .. Size(m) + 1 : d.s.links[j] = m.links[j]
      BY <2>2, <2>3, <3>1
    <3> QED
      BY <3>1, <3>2, <3>3
  <2>5. InnerPage(m)
    <3>1. Size(d.s) >= 1 /\ \A j \in 2 .. Size(d.s) + 1 : m.links[j] = d.s.links[j]
      BY <2>2, <2>3, <2>4
    <3> QED
      BY <1>6, <2>2, <2>3, <3>1, FirstLinkWrites
  <2>6. InnerEntries(m, n, half, half + (N - half), 0, k, link)
    <3>1. \A j \in 2 .. N - half + 1 : m.links[j] = d.s.links[j]
      BY <2>4
    <3>2. m.keys = d.s.keys /\ m.links[1] = n.links[half + 1]
      BY <2>2, <2>3
    <3> QED
      BY <1>4, <1>10, <1>13, <2>3, <3>1, <3>2 DEF ButFirstLink, N
  <2>7. m.kind = "Intermediate" /\ m.number = num /\ m.parent = n.parent
    BY <1>4, <2>3 DEF SameHead
  <2>8. Made(half, 0) = PageOf(m)
    BY <1>9, <2>4, <2>5, <2>6, <2>7
  <2>9. [PageOf(m) EXCEPT !.mem = L!Put(@, L!KeyOffset(PageOf(m), 0) - 4, L!Word(d.s.links[1]))]
          = PageOf(d.s)
    BY <1>4, <2>4, <2>5, FirstLinkWrites
  <2> HIDE DEF l, s
  <2> QED
    BY <1>4, <1>5, <1>6, <1>8, <1>13, <2>1, <2>8, <2>9 DEF p
<1> QED
  BY <1>1, <1>3, <1>11, <1>12, <1>13
===============================================================================
