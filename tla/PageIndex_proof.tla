--------------------------- MODULE PageIndex_proof ---------------------------
(* Proofs about the page index, for every file size and page size.            *)
EXTENDS PageIndex, TLAPS

-------------------------------------------------------------------------------
(* Division with remainder: the scan counts up, free_index divides.           *)

(* Products with a page size keep the order of the factors.                   *)
LEMMA Multiply ==
  ASSUME NEW a \in Int, NEW b \in Int, NEW P \in Nat, a <= b
  PROVE  a * P <= b * P
  OBVIOUS

(* The next index page begins one bitmap's worth of bits further.             *)
LEMMA NextMultiple ==
  ASSUME NEW a \in Int, NEW P \in Nat
  PROVE  (a + 1) * P = a * P + P
  OBVIOUS

(* C's division of non-negative integers.                                     *)
LEMMA Quotient ==
  ASSUME NEW x \in Nat, NEW P \in Nat \ {0}
  PROVE  /\ x \div P \in Nat
         /\ (x \div P) * P <= x
         /\ x < (x \div P) * P + P
  OBVIOUS

(* The quotient is the only multiple that leaves a remainder.                 *)
LEMMA QuotientUnique ==
  ASSUME NEW a \in Nat, NEW P \in Nat \ {0}, NEW r \in 0 .. P - 1
  PROVE  (a * P + r) \div P = a
<1> DEFINE x == a * P + r
           q == x \div P
<1>1. x \in Nat
  OBVIOUS
<1>2. q \in Nat /\ q * P <= x /\ x < q * P + P
  BY <1>1, Quotient
<1>3. a * P \in Nat /\ a * P <= x /\ x < a * P + P
  OBVIOUS
<1> HIDE DEF x, q
<1>4. CASE a + 1 <= q
  <2>1. (a + 1) * P <= q * P
    BY <1>4, <1>2, Multiply
  <2>2. (a + 1) * P = a * P + P
    BY NextMultiple
  <2>3. q * P \in Nat
    BY <1>2
  <2> QED
    BY <2>1, <2>2, <2>3, <1>1, <1>2, <1>3
<1>5. CASE q + 1 <= a
  <2>1. (q + 1) * P <= a * P
    BY <1>5, <1>2, Multiply
  <2>2. (q + 1) * P = q * P + P
    BY <1>2, NextMultiple
  <2>3. q * P \in Nat
    BY <1>2
  <2> QED
    BY <2>1, <2>2, <2>3, <1>1, <1>2, <1>3
<1>6. CASE q = a
  BY <1>6 DEF x, q
<1> QED
  BY <1>2, <1>4, <1>5, <1>6

(* A bitmap has bits, and the number of index pages is a natural number.      *)
LEMMA Sizes ==
  /\ Bytes \in Nat \ {0}
  /\ BitsPerPage \in Nat \ {0} /\ BitsPerPage = 8 * Bytes
  /\ IndexCount \in Nat
<1>1. Bytes \in Nat \ {0}
  BY SizesAssumption DEF Bytes, PagePadding
<1>2. BitsPerPage \in Nat \ {0} /\ BitsPerPage = 8 * Bytes
  BY <1>1 DEF BitsPerPage
<1>3. PageSize * BitsPerPage \in Nat \ {0}
  BY <1>2, SizesAssumption DEF PagePadding
<1> QED
  BY <1>1, <1>2, <1>3, Quotient, SizesAssumption DEF IndexCount

-------------------------------------------------------------------------------
(* Bits and page numbers *)

(* The place of a bit within its index page.                                  *)
Place(t) == 8 * t[2] + t[3]

(* A bit by its three coordinates, and its number by two of them.             *)
LEMMA BitRanges ==
  ASSUME NEW t \in Bits
  PROVE  /\ t[1] \in 1 .. IndexCount /\ t[2] \in 0 .. Bytes - 1 /\ t[3] \in 0 .. 7
         /\ t = <<t[1], t[2], t[3]>>
         /\ Place(t) \in 0 .. BitsPerPage - 1
         /\ NumberOf(t) = IndexCount + 1 + (t[1] - 1) * BitsPerPage + Place(t)
         /\ (t[1] - 1) * BitsPerPage \in Nat
<1>1. /\ t[1] \in 1 .. IndexCount /\ t[2] \in 0 .. Bytes - 1 /\ t[3] \in 0 .. 7
      /\ t = <<t[1], t[2], t[3]>>
  BY DEF Bits
<1>2. Place(t) \in 0 .. BitsPerPage - 1
  BY <1>1, Sizes DEF Place
<1>3. t[1] - 1 \in Nat
  BY <1>1, Sizes
<1>4. (t[1] - 1) * BitsPerPage \in Nat
  BY <1>3, Sizes
<1>5. NumberOf(t) = IndexCount + 1 + (t[1] - 1) * BitsPerPage + Place(t)
  BY <1>1, <1>4, Sizes DEF NumberOf, Place
<1> QED
  BY <1>1, <1>2, <1>4, <1>5

(* free_index finds the very bit that find_free_index set.                    *)
LEMMA BitOfNumber ==
  ASSUME NEW t \in Bits
  PROVE  NumberOf(t) \in Nat /\ BitOf(NumberOf(t)) = t
<1> DEFINE a == (t[1] - 1)
           n == NumberOf(t)
<1>1. NumberOf(t) \in Nat
  BY BitRanges, Sizes
<1>2. n - (1 + IndexCount) = a * BitsPerPage + Place(t)
  BY BitRanges, Sizes
<1>3. a \in Nat
  BY BitRanges, Sizes
<1>4. (n - (1 + IndexCount)) \div BitsPerPage = a
  BY <1>2, <1>3, BitRanges, Sizes, QuotientUnique
<1>5. n - (1 + IndexCount) - a * BitsPerPage = Place(t)
  BY <1>2, BitRanges, Sizes
<1>6. Place(t) \div 8 = t[2] /\ Place(t) - t[2] * 8 = t[3]
  BY BitRanges DEF Place
<1>7. 1 + a = t[1]
  BY BitRanges, Sizes
<1> HIDE DEF a, n
<1>8. BitOf(n) = <<1 + a, t[2], t[3]>>
  BY <1>4, <1>5, <1>6, Zenon DEF BitOf
<1> QED
  BY <1>1, <1>7, <1>8, BitRanges DEF n

(* Two bits have two numbers.                                                 *)
LEMMA NumbersDiffer ==
  ASSUME NEW s \in Bits, NEW t \in Bits, NumberOf(s) = NumberOf(t)
  PROVE  s = t
  BY BitOfNumber

(* The scan visits the numbers in ascending order.                            *)
LEMMA ScanAscends ==
  ASSUME NEW s \in Bits, NEW t \in Bits, Before(s, t)
  PROVE  NumberOf(s) < NumberOf(t)
<1> DEFINE a == s[1] - 1
           b == t[1] - 1
<1>1. /\ a \in Nat /\ b \in Nat /\ a * BitsPerPage \in Nat /\ b * BitsPerPage \in Nat
      /\ NumberOf(s) = IndexCount + 1 + a * BitsPerPage + Place(s)
      /\ NumberOf(t) = IndexCount + 1 + b * BitsPerPage + Place(t)
      /\ Place(s) \in 0 .. BitsPerPage - 1 /\ Place(t) \in 0 .. BitsPerPage - 1
  BY BitRanges, Sizes
<1>2. CASE s[1] < t[1]
  <2>1. a + 1 <= b
    BY <1>2, BitRanges, Sizes
  <2> HIDE DEF a, b
  <2>2. (a + 1) * BitsPerPage <= b * BitsPerPage
    BY <2>1, <1>1, Sizes, Multiply
  <2>3. (a + 1) * BitsPerPage = a * BitsPerPage + BitsPerPage
    BY <1>1, Sizes, NextMultiple
  <2> QED
    BY <1>1, <2>2, <2>3, Sizes
<1>3. CASE s[1] = t[1]
  <2>1. Place(s) < Place(t)
    BY <1>3, BitRanges DEF Before, Place
  <2>2. a = b
    BY <1>3
  <2> HIDE DEF a, b
  <2> QED
    BY <1>1, <2>1, <2>2, Sizes
<1> QED
  BY <1>2, <1>3 DEF Before

(* Of two bits the scan comes to one first.                                   *)
LEMMA ScanTotal ==
  ASSUME NEW s \in Bits, NEW t \in Bits, s # t
  PROVE  Before(s, t) \/ Before(t, s)
  BY BitRanges DEF Before

(* Every page number behind the index has a bit, and only those have one.     *)
LEMMA NumberInRange ==
  ASSUME NEW t \in Bits
  PROVE  NumberOf(t) \in Numbers
<1> DEFINE a == t[1] - 1
<1>1. /\ a \in Nat /\ a + 1 <= IndexCount /\ a * BitsPerPage \in Nat
      /\ NumberOf(t) = IndexCount + 1 + a * BitsPerPage + Place(t)
      /\ Place(t) \in 0 .. BitsPerPage - 1
  BY BitRanges, Sizes
<1>2. (a + 1) * BitsPerPage <= IndexCount * BitsPerPage
  BY <1>1, Sizes, Multiply
<1>3. (a + 1) * BitsPerPage = a * BitsPerPage + BitsPerPage
  BY <1>1, Sizes, NextMultiple
<1>4. IndexCount * BitsPerPage \in Nat
  BY Sizes
<1> HIDE DEF a
<1> QED
  BY <1>1, <1>2, <1>3, <1>4, Sizes DEF Numbers

(* The other direction: no number behind the index is out of the bitmap's     *)
(* reach.                                                                     *)
LEMMA NumberHasBit ==
  ASSUME NEW n \in Numbers
  PROVE  \E t \in Bits : NumberOf(t) = n
<1> DEFINE x == n - (1 + IndexCount)
           a == x \div BitsPerPage
           r == x - a * BitsPerPage
           b == r \div 8
<1>1. IndexCount * BitsPerPage \in Nat
  BY Sizes
<1>2. x \in Nat /\ x < IndexCount * BitsPerPage
  BY <1>1, Sizes DEF Numbers
<1>3. a \in Nat /\ a * BitsPerPage <= x /\ x < a * BitsPerPage + BitsPerPage
  BY <1>2, Sizes, Quotient
<1>4. a * BitsPerPage \in Nat
  BY <1>3, Sizes
<1> HIDE DEF a
<1>5. r \in 0 .. BitsPerPage - 1 /\ x = a * BitsPerPage + r
  BY <1>2, <1>3, <1>4, Sizes
<1>6. a < IndexCount
  <2> SUFFICES ASSUME IndexCount <= a PROVE FALSE
    BY <1>3, Sizes
  <2>1. IndexCount * BitsPerPage <= a * BitsPerPage
    BY <1>3, Sizes, Multiply
  <2> HIDE DEF x
  <2> QED
    BY <2>1, <1>1, <1>2, <1>3, <1>4
<1> HIDE DEF r
<1>7. /\ b \in 0 .. Bytes - 1 /\ r - b * 8 \in 0 .. 7 /\ r = 8 * b + (r - b * 8)
  BY <1>5, Sizes
<1> HIDE DEF b
<1> DEFINE t == <<1 + a, b, r - b * 8>>
<1>8. t \in Bits /\ t[1] - 1 = a /\ Place(t) = r
  BY <1>3, <1>5, <1>6, <1>7, Sizes DEF Bits, Place
<1>9. NumberOf(t) = IndexCount + 1 + a * BitsPerPage + r
  BY <1>8, BitRanges
<1>10. NumberOf(t) = n
  BY <1>9, <1>5, <1>4, Sizes DEF Numbers
<1> QED
  BY <1>8, <1>10

-------------------------------------------------------------------------------
(* The index over time *)

(* The numbers of the pages whose bit is set. *)
Marks == {NumberOf(t) : t \in bitmap}

(* Bits, answers and numbers in callers' hands always have their types.       *)
THEOREM IndexTypeCorrect == Spec => []TypeOK
<1>1. Init => TypeOK
  BY DEF Init, TypeOK
<1>2. TypeOK /\ [Next]_vars => TypeOK'
  <2> SUFFICES ASSUME TypeOK, [Next]_vars PROVE TypeOK'
    OBVIOUS
  <2>1. CASE FindFree
    BY <2>1, BitOfNumber DEF FindFree, TypeOK
  <2>2. CASE FindFreeFails
    BY <2>2 DEF FindFreeFails, TypeOK
  <2>3. ASSUME NEW n \in held, FreeIndex(n) PROVE TypeOK'
    BY <2>3 DEF FreeIndex, TypeOK
  <2>4. CASE UNCHANGED vars
    BY <2>4 DEF vars, TypeOK
  <2> QED
    BY <2>1, <2>2, <2>3, <2>4 DEF Next
<1> QED
  BY <1>1, <1>2, PTL DEF Spec

(* The set bits are exactly the pages in callers' hands: no page is handed    *)
(* out twice or lost, and freeing a page clears its bit and no other.         *)
THEOREM MarksAreHeld == Spec => []HeldExactlyMarked
<1>1. Init => HeldExactlyMarked
  BY DEF Init, HeldExactlyMarked
<1>2. TypeOK /\ HeldExactlyMarked /\ [Next]_vars => HeldExactlyMarked'
  <2> SUFFICES ASSUME TypeOK, HeldExactlyMarked, [Next]_vars
               PROVE  HeldExactlyMarked'
    OBVIOUS
  <2> USE DEF HeldExactlyMarked
  <2>1. CASE FindFree
    <3>1. PICK t \in Bits : /\ bitmap' = bitmap \union {t}
                            /\ held' = held \union {NumberOf(t)}
      BY <2>1 DEF FindFree
    <3>2. held' = {NumberOf(s) : s \in bitmap'}
      BY <3>1
    <3>3. bitmap' = {BitOf(n) : n \in held'}
      BY <3>1, BitOfNumber
    <3> QED
      BY <3>2, <3>3
  <2>2. ASSUME NEW n \in held, FreeIndex(n) PROVE HeldExactlyMarked'
    <3>1. PICK t \in bitmap : n = NumberOf(t)
      OBVIOUS
    <3>2. t \in Bits /\ BitOf(n) = t
      BY <3>1, BitOfNumber DEF TypeOK
    <3>3. bitmap' = bitmap \ {t} /\ held' = held \ {n}
      BY <2>2, <3>2 DEF FreeIndex
    <3>4. \A s \in bitmap : s # t => NumberOf(s) # n
      BY <3>1, <3>2, NumbersDiffer DEF TypeOK
    <3>5. held' = {NumberOf(s) : s \in bitmap'}
      BY <3>1, <3>3, <3>4
    <3>6. \A s \in bitmap' : BitOf(NumberOf(s)) = s
      BY <3>3, BitOfNumber DEF TypeOK
    <3>7. bitmap' = {BitOf(m) : m \in held'}
      BY <3>5, <3>6
    <3> QED
      BY <3>5, <3>7
  <2>3. CASE FindFreeFails \/ UNCHANGED vars
    BY <2>3 DEF FindFreeFails, vars
  <2> QED
    BY <2>1, <2>2, <2>3 DEF Next
<1> QED
  BY <1>1, <1>2, IndexTypeCorrect, PTL DEF Spec

(* The bitmap and its scan implement the allocator of page numbers, which     *)
(* hands out the lowest number that is free.                                  *)
THEOREM IndexIsAllocator == Spec => RefinesAllocator
<1>1. Init => Allocator!AllocInit
  BY DEF Init, Allocator!AllocInit
<1>2. TypeOK /\ HeldExactlyMarked /\ [Next]_vars
        => [Allocator!Allocate \/ \E n \in Numbers : Allocator!Release(n)]_(Allocator!allocVars)
  <2> SUFFICES ASSUME TypeOK, HeldExactlyMarked, [Next]_vars
               PROVE  \/ Allocator!Allocate
                      \/ \E n \in Numbers : Allocator!Release(n)
                      \/ Marks' = Marks /\ answer' = answer
    BY DEF Allocator!allocVars, Marks
  <2>1. CASE FindFree
    <3>1. PICK t \in Bits : /\ FirstClear(t)
                            /\ bitmap' = bitmap \union {t}
                            /\ answer' = NumberOf(t)
      BY <2>1 DEF FindFree
    <3>2. NumberOf(t) \in Numbers \ Marks
      BY <3>1, NumberInRange, NumbersDiffer DEF FirstClear, TypeOK, Marks
    <3>3. \A m \in Numbers \ Marks : NumberOf(t) <= m
      <4> SUFFICES ASSUME NEW m \in Numbers \ Marks PROVE NumberOf(t) <= m
        OBVIOUS
      <4>1. PICK s \in Bits : NumberOf(s) = m
        BY NumberHasBit
      <4>2. s \notin bitmap
        BY <4>1 DEF Marks
      <4>3. s = t \/ Before(t, s)
        BY <3>1, <4>2, ScanTotal DEF FirstClear
      <4>4. NumberOf(s) \in Nat /\ NumberOf(t) \in Nat
        BY BitOfNumber
      <4> QED
        BY <4>1, <4>3, <4>4, ScanAscends
    <3>4. NumberOf(t) = Allocator!Lowest(Numbers \ Marks)
      <4>1. \A m \in Numbers \ Marks :
              (\A k \in Numbers \ Marks : m <= k) => m = NumberOf(t)
        <5> SUFFICES ASSUME NEW m \in Numbers \ Marks,
                            \A k \in Numbers \ Marks : m <= k
                     PROVE  m = NumberOf(t)
          OBVIOUS
        <5>1. m <= NumberOf(t)
          BY <3>2
        <5>2. NumberOf(t) <= m
          BY <3>3
        <5>3. m \in Nat
          BY Sizes DEF Numbers
        <5>4. NumberOf(t) \in Nat
          BY BitOfNumber
        <5> QED
          BY <5>1, <5>2, <5>3, <5>4
      <4> QED
        BY <4>1, <3>2, <3>3 DEF Allocator!Lowest
    <3>5. Marks' = Marks \union {NumberOf(t)}
      BY <3>1 DEF Marks
    <3>6. Marks # Numbers
      BY <3>2
    <3> QED
      BY <3>1, <3>4, <3>5, <3>6 DEF Allocator!Allocate, Marks
  <2>2. CASE FindFreeFails
    <3>1. Marks = Numbers
      BY <2>2, NumberInRange, NumberHasBit DEF FindFreeFails, Marks
    <3> QED
      BY <2>2, <3>1 DEF FindFreeFails, Allocator!Allocate, Marks
  <2>3. ASSUME NEW n \in held, FreeIndex(n)
        PROVE  \E m \in Numbers : Allocator!Release(m)
    <3>1. PICK t \in bitmap : n = NumberOf(t)
      BY DEF HeldExactlyMarked
    <3>2. t \in Bits /\ BitOf(n) = t /\ n \in Numbers
      BY <3>1, BitOfNumber, NumberInRange DEF TypeOK
    <3>3. bitmap' = bitmap \ {t}
      BY <2>3, <3>2 DEF FreeIndex
    <3>4. \A s \in bitmap : s # t => NumberOf(s) # n
      BY <3>1, <3>2, NumbersDiffer DEF TypeOK
    <3>5. Marks' = Marks \ {n}
      BY <3>1, <3>3, <3>4 DEF Marks
    <3> QED
      BY <2>3, <3>2, <3>5 DEF FreeIndex, Allocator!Release, Marks
  <2>4. CASE UNCHANGED vars
    BY <2>4 DEF vars, Marks
  <2> QED
    BY <2>1, <2>2, <2>3, <2>4 DEF Next
<1> QED
  BY <1>1, <1>2, IndexTypeCorrect, MarksAreHeld, PTL
  DEF Spec, RefinesAllocator, Allocator!AllocSpec
==============================================================================
