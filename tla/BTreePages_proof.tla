--------------------------- MODULE BTreePages_proof ---------------------------
(***************************************************************************)
(* What the steps of BTree do to the pages of a search tree: a leaf takes  *)
(* up or drops a key, a page is cut in two, two siblings are joined, a     *)
(* root is put over the tree or taken off it.  Each keeps the pages a      *)
(* search tree (Tree of BTreeInvariant) that holds what it held.           *)
(*                                                                         *)
(* What that says of searches: bt_search comes to the leaf that answers    *)
(* for a key within the levels it walks, so that the tree holds the map,   *)
(* and the walk from the root that the properties of BTree are stated over *)
(* comes to the pages in use, level by level.                              *)
(***************************************************************************)
EXTENDS BTreeInvariant, BTreeNode_proof, FiniteSetTheorems

(* What the proofs need to know of one page of a tree ...                    *)
LEMMA TreePage ==
  ASSUME NEW V, NEW U, NEW r, NEW lo, NEW hi, NEW ht, Tree(V, U, r, lo, hi, ht),
         NEW n \in U
  PROVE  /\ V[n] \in Node /\ V[n].number = n /\ Shape(V[n])
         /\ Ordered(V[n], lo[n], hi[n]) /\ lo[n] < hi[n]
         /\ n \in PageNums /\ n \in Numbers
         /\ lo[n] \in Nat /\ hi[n] \in Nat /\ ht[n] \in Nat /\ Size(V[n]) \in Nat
         /\ (V[n].kind \in Leaves) = (ht[n] = 0)
         /\ (V[n].kind \in {"Root", "RootLeaf"}) = (n = r)
         /\ V[n].kind \in Leaves \union Interiors
<1>1. n \in PageNums /\ n \in Numbers
  BY DEF Tree, Numbers
<1>2. lo[n] \in Nat /\ hi[n] \in Nat /\ ht[n] \in Nat
  BY <1>1 DEF Tree
<1>3. PageOK(V, r, lo, hi, ht, n)
  BY DEF Tree
<1>4. V[n] \in Node /\ Shape(V[n]) /\ Ordered(V[n], lo[n], hi[n])
  BY <1>3 DEF PageOK
<1>5. lo[n] < hi[n] /\ V[n].kind \in Leaves \union Interiors /\ Size(V[n]) \in Nat
  BY <1>4, NodeFields DEF Ordered, Shape
<1> QED
  BY <1>1, <1>2, <1>3, <1>4, <1>5 DEF PageOK

(* ... of a link of it ...                                                     *)
LEMMA TreeChild ==
  ASSUME NEW V, NEW U, NEW r, NEW lo, NEW hi, NEW ht, Tree(V, U, r, lo, hi, ht),
         NEW n \in U, V[n].kind \in Interiors, NEW i \in 1 .. Size(V[n]) + 1,
         NEW c, c = V[n].links[i]
  PROVE  /\ c \in U /\ c # r /\ c # n /\ V[c].parent = n
         /\ ht[n] = ht[c] + 1
         /\ lo[c] = Fence(V[n], lo[n], hi[n], i - 1)
         /\ hi[c] = Fence(V[n], lo[n], hi[n], i)
<1>1. ChildrenOK(V, U, lo, hi, ht, n) /\ RootOK(U, r, lo, hi, ht)
  BY DEF Tree
<1>2. /\ c \in U /\ V[c].parent = n
      /\ ht[n] = ht[c] + 1
      /\ lo[c] = Fence(V[n], lo[n], hi[n], i - 1)
      /\ hi[c] = Fence(V[n], lo[n], hi[n], i)
  BY <1>1 DEF ChildrenOK
<1>3. ht[c] \in Nat /\ ht[n] \in Nat
  BY <1>2, TreePage
<1>4. n # r => ht[n] < ht[r]
  BY <1>1 DEF RootOK
<1> QED
  BY <1>2, <1>3, <1>4

(* ... no two of which are the same, ...                                       *)
LEMMA LinksDiffer ==
  ASSUME NEW V, NEW U, NEW r, NEW lo, NEW hi, NEW ht, Tree(V, U, r, lo, hi, ht),
         NEW n \in U, V[n].kind \in Interiors,
         NEW i \in 1 .. Size(V[n]) + 1, NEW j \in 1 .. Size(V[n]) + 1,
         V[n].links[i] = V[n].links[j]
  PROVE  i = j
<1>1. Fence(V[n], lo[n], hi[n], i) = Fence(V[n], lo[n], hi[n], j)
  BY TreeChild
<1>2. V[n] \in Node /\ lo[n] \in Nat /\ hi[n] \in Nat /\ Ordered(V[n], lo[n], hi[n])
      /\ Size(V[n]) \in Nat
  BY TreePage
<1>3. /\ \A a \in 0 .. Size(V[n]) + 1 : Fence(V[n], lo[n], hi[n], a) \in Nat
      /\ \A a, b \in 0 .. Size(V[n]) + 1 :
           a < b => Fence(V[n], lo[n], hi[n], a) < Fence(V[n], lo[n], hi[n], b)
  BY <1>2, FencesAscend
<1>4. i \in 0 .. Size(V[n]) + 1 /\ j \in 0 .. Size(V[n]) + 1
  BY <1>2
<1>5. ~(i < j) /\ ~(j < i)
  BY <1>1, <1>3, <1>4
<1> QED
  BY <1>2, <1>5

(* ... and of its parent.                                                      *)
LEMMA TreeParent ==
  ASSUME NEW V, NEW U, NEW r, NEW lo, NEW hi, NEW ht, Tree(V, U, r, lo, hi, ht),
         NEW n \in U, n # r, NEW p, p = V[n].parent
  PROVE  /\ p \in U /\ V[p].kind \in Interiors /\ p # n /\ ht[p] = ht[n] + 1
         /\ \E i \in 1 .. Size(V[p]) + 1 : V[p].links[i] = n
<1>1. ParentOK(V, U, n)
  BY DEF Tree
<1>2. /\ p \in U /\ V[p].kind \in Interiors
      /\ \E i \in 1 .. Size(V[p]) + 1 : V[p].links[i] = n
  BY <1>1 DEF ParentOK
<1>3. PICK i \in 1 .. Size(V[p]) + 1 : V[p].links[i] = n
  BY <1>2
<1>4. n # p /\ ht[p] = ht[n] + 1
  BY <1>2, <1>3, TreeChild
<1> QED
  BY <1>2, <1>4

-------------------------------------------------------------------------------
(* n2 is page n, under the parent q.                                           *)
Moved(n2, n, q) ==
  /\ n2 \in Node /\ n2.kind = n.kind /\ n2.number = n.number /\ n2.parent = q
  /\ n2.keys = n.keys /\ n2.vals = n.vals /\ n2.links = n.links

(* A page under another parent, and one that stays, holds what it held.       *)
LEMMA ReparentMoves ==
  ASSUME NEW n \in Node, NEW q \in Numbers
  PROVE  Moved([n EXCEPT !.parent = q], n, q) /\ Moved(n, n, n.parent)
  BY DEF Moved, Node

(* Nothing but the parent of a page is told apart by what follows.             *)
LEMMA MovedAlike ==
  ASSUME NEW n, NEW n2, NEW q, Moved(n2, n, q)
  PROVE  /\ n2 \in Node /\ n2.kind = n.kind /\ n2.number = n.number /\ n2.parent = q
         /\ n2.links = n.links /\ Size(n2) = Size(n)
         /\ Shape(n2) = Shape(n)
         /\ \A l, h : Ordered(n2, l, h) = Ordered(n, l, h)
         /\ \A l, h, i : Fence(n2, l, h, i) = Fence(n, l, h, i)
         /\ \A k : ValueIn(n2, k) = ValueIn(n, k)
<1>1. /\ n2 \in Node /\ n2.kind = n.kind /\ n2.number = n.number /\ n2.parent = q
      /\ n2.keys = n.keys /\ n2.vals = n.vals /\ n2.links = n.links
  BY DEF Moved
<1>2. Size(n2) = Size(n)
  BY <1>1 DEF Size
<1>3. Shape(n2) = Shape(n)
  BY <1>1, <1>2 DEF Shape
<1>4. ASSUME NEW l, NEW h PROVE Ordered(n2, l, h) = Ordered(n, l, h)
  BY <1>1, <1>2 DEF Ordered
<1>5. ASSUME NEW l, NEW h, NEW i PROVE Fence(n2, l, h, i) = Fence(n, l, h, i)
  BY <1>1, <1>2 DEF Fence
<1>6. ASSUME NEW k PROVE ValueIn(n2, k) = ValueIn(n, k)
  BY <1>1 DEF ValueIn
<1> QED
  BY <1>1, <1>2, <1>3, <1>4, <1>5, <1>6

-------------------------------------------------------------------------------
(* Pages outside the tree do not matter.                                       *)
LEMMA TreeSame ==
  ASSUME NEW V, NEW V2, NEW U, NEW r, NEW lo, NEW hi, NEW ht,
         Tree(V, U, r, lo, hi, ht), \A n \in U : V2[n] = V[n]
  PROVE  Tree(V2, U, r, lo, hi, ht)
<1>1. ASSUME NEW n \in U PROVE PageOK(V2, r, lo, hi, ht, n)
  BY DEF Tree, PageOK
<1>2. ASSUME NEW n \in U PROVE ChildrenOK(V2, U, lo, hi, ht, n)
  <2>1. ChildrenOK(V, U, lo, hi, ht, n)
    BY DEF Tree
  <2> QED
    BY <2>1 DEF ChildrenOK
<1>3. ASSUME NEW n \in U \ {r} PROVE ParentOK(V2, U, n)
  <2>1. ParentOK(V, U, n)
    BY DEF Tree
  <2> QED
    BY <2>1 DEF ParentOK
<1> QED
  BY <1>1, <1>2, <1>3 DEF Tree

(* What the pages hold is a matter of the pages of the tree.                  *)
LEMMA HoldsSame ==
  ASSUME NEW V, NEW V2, NEW U, NEW lo, NEW hi, NEW m,
         Holds(V, U, lo, hi, m), \A n \in U : V2[n] = V[n]
  PROVE  Holds(V2, U, lo, hi, m)
  BY DEF Holds

(* The page answers for the key.                                               *)
Answers(lo, hi, n, k) == lo[n] <= k /\ k < hi[n]

(* A leaf takes up, changes or drops the value of a key.                       *)
LEMMA LeafUpdate ==
  ASSUME NEW V, NEW V2, NEW U, NEW r, NEW lo, NEW hi, NEW ht,
         Tree(V, U, r, lo, hi, ht),
         NEW x \in U, V[x].kind \in Leaves,
         NEW k \in Keys, lo[x] <= k, k < hi[x], NEW v, NEW d,
         Updated(V[x], V2[x], k, v, d, lo[x], hi[x]),
         \A n \in U \ {x} : V2[n] = V[n]
  PROVE  /\ Tree(V2, U, r, lo, hi, ht)
         /\ \A m \in [Keys -> Values \union {Absent}] :
              Holds(V, U, lo, hi, m) => Holds(V2, U, lo, hi, [m EXCEPT ![k] = v])
<1>1. /\ V2[x] \in Node /\ Shape(V2[x]) /\ V2[x].links = V[x].links
      /\ V2[x].kind = V[x].kind /\ V2[x].number = V[x].number
      /\ V2[x].parent = V[x].parent /\ Ordered(V2[x], lo[x], hi[x])
      /\ \A k2 \in Keys : ValueIn(V2[x], k2) = IF k2 = k THEN v ELSE ValueIn(V[x], k2)
  BY DEF Updated
<1>2. ASSUME NEW n \in U
      PROVE  V2[n].kind = V[n].kind /\ V2[n].parent = V[n].parent
             /\ V2[n].links = V[n].links
             /\ (V[n].kind \in Interiors => V2[n] = V[n])
  BY <1>1, Kinds
<1>3. ASSUME NEW n \in U PROVE PageOK(V2, r, lo, hi, ht, n)
  BY <1>1 DEF Tree, PageOK
<1>4. ASSUME NEW n \in U PROVE ChildrenOK(V2, U, lo, hi, ht, n)
  <2>1. ChildrenOK(V, U, lo, hi, ht, n)
    BY DEF Tree
  <2> QED
    BY <1>2, <2>1 DEF ChildrenOK
<1>5. ASSUME NEW n \in U \ {r} PROVE ParentOK(V2, U, n)
  <2>1. ParentOK(V, U, n)
    BY DEF Tree
  <2> QED
    BY <1>2, <2>1 DEF ParentOK
<1>6. Tree(V2, U, r, lo, hi, ht)
  BY <1>3, <1>4, <1>5 DEF Tree
<1>7. ASSUME NEW m \in [Keys -> Values \union {Absent}], Holds(V, U, lo, hi, m)
      PROVE  Holds(V2, U, lo, hi, [m EXCEPT ![k] = v])
  <2> SUFFICES ASSUME NEW n \in U, NEW k2 \in Keys, V2[n].kind \in Leaves,
                      lo[n] <= k2, k2 < hi[n]
               PROVE  ValueIn(V2[n], k2) = [m EXCEPT ![k] = v][k2]
    BY DEF Holds
  <2>1. ValueIn(V[n], k2) = m[k2]
    BY <1>2, <1>7 DEF Holds
  <2>2. CASE n = x
    BY <1>1, <2>1, <2>2
  <2>3. CASE n # x
    <3>1. ht[n] = 0 /\ ht[x] = 0
      BY <1>2, TreePage
    <3>2. hi[x] <= lo[n] \/ hi[n] <= lo[x]
      BY <2>3, <3>1 DEF Tree, Apart
    <3>3. /\ lo[n] \in Nat /\ hi[n] \in Nat /\ lo[x] \in Nat /\ hi[x] \in Nat
          /\ k \in Nat /\ k2 \in Nat
      BY TreePage, NumbersAreNat
    <3>4. k2 # k
      BY <3>2, <3>3
    <3> QED
      BY <2>1, <2>3, <3>4
  <2> QED
    BY <2>2, <2>3
<1> QED
  BY <1>6, <1>7

-------------------------------------------------------------------------------
(* The pages that a page links to.                                             *)
Under(n) ==
  IF n.kind \in Interiors THEN {n.links[i] : i \in 1 .. Size(n) + 1} ELSE {}

(* The children of a page are the pages that name it as their parent.         *)
LEMMA UnderIs ==
  ASSUME NEW V, NEW U, NEW r, NEW lo, NEW hi, NEW ht, Tree(V, U, r, lo, hi, ht),
         NEW n \in U, NEW c
  PROVE  (c \in Under(V[n])) = (c \in U /\ c # r /\ V[c].parent = n)
<1>1. ASSUME c \in Under(V[n]) PROVE c \in U /\ c # r /\ V[c].parent = n
  <2>1. V[n].kind \in Interiors /\ \E i \in 1 .. Size(V[n]) + 1 : c = V[n].links[i]
    BY <1>1 DEF Under
  <2> QED
    BY <2>1, TreeChild
<1>2. ASSUME c \in U, c # r, V[c].parent = n PROVE c \in Under(V[n])
  <2>1. /\ V[n].kind \in Interiors
        /\ \E i \in 1 .. Size(V[n]) + 1 : V[n].links[i] = c
    BY <1>2, TreeParent
  <2> QED
    BY <2>1 DEF Under
<1>3. (c \in Under(V[n])) \in BOOLEAN /\ (c \in U /\ c # r /\ V[c].parent = n) \in BOOLEAN
  OBVIOUS
<1> QED
  BY <1>1, <1>2, <1>3

(* Pages L and R are the halves of page n, of either sort.                    *)
Parted(n, L, R, c, l, sep, h) ==
  InnerHalves(n, L, R, c, l, sep, h) \/ LeafHalves(n, L, R, c, l, sep, h)

(* What the two sorts of halves have in common.                               *)
LEMMA PartedIs ==
  ASSUME NEW n, NEW L, NEW R, NEW c, NEW l, NEW sep, NEW h,
         Parted(n, L, R, c, l, sep, h)
  PROVE  Halves(n, L, R, c, l, sep, h)
  BY DEF Parted, InnerHalves, LeafHalves

(* Pages V with page x as a whole, V2 with it in two parts, x and m, behind    *)
(* link p of page P.                                                           *)
CutApart(V, V2, U, x, m, P, p, c, l, sep, h, lP, hP) ==
  /\ x \in U /\ P \in U /\ m \notin U /\ m \in PageNums
  /\ p \in 1 .. Size(V[P]) + 1 /\ V[P].links[p] = x
  /\ Parted(V[x], V2[x], V2[m], c, l, sep, h) /\ V2[m].number = m
  /\ Widened(V[P], V2[P], p, sep, m, lP, hP)
  /\ \A n \in U \ {x, P} :
       Moved(V2[n], V[n], IF n \in Under(V2[m]) THEN m ELSE V[n].parent)

(* What the links of the parts are.                                            *)
LEMMA PartedLinks ==
  ASSUME NEW n, NEW L, NEW R, NEW c, NEW l, NEW sep, NEW h,
         Parted(n, L, R, c, l, sep, h), n.kind \in Interiors
  PROVE  /\ L.kind \in Interiors /\ R.kind \in Interiors
         /\ c \in Nat /\ Size(n) \in Nat /\ c < Size(n)
         /\ Size(L) = c /\ Size(R) = Size(n) - c - 1
         /\ \A i \in 0 .. c + 1 : Fence(L, l, sep, i) = Fence(n, l, h, i)
         /\ \A j \in 1 .. c + 1 : L.links[j] = n.links[j]
         /\ \A i \in 0 .. Size(n) - c : Fence(R, sep, h, i) = Fence(n, l, h, c + 1 + i)
         /\ \A j \in 1 .. Size(n) - c : R.links[j] = n.links[c + 1 + j]
<1>1. InnerHalves(n, L, R, c, l, sep, h)
  BY Kinds DEF Parted, LeafHalves
<1>2. Halves(n, L, R, c, l, sep, h)
  BY PartedIs
<1>3. Size(n) \in Nat /\ c \in 0 .. Size(n) /\ L.kind = n.kind /\ R.kind = n.kind
      /\ Size(L) = c
  BY <1>2, NodeFields DEF Halves
<1> QED
  BY <1>1, <1>3 DEF InnerHalves

(* Bounds and heights after a cut of page x at sep, the second part page m.    *)
CutBounds(lo2, hi2, ht2, lo, hi, ht, x, m, sep) ==
  /\ lo2 = [lo EXCEPT ![m] = sep]
  /\ hi2 = [hi EXCEPT ![x] = sep, ![m] = hi[x]]
  /\ ht2 = [ht EXCEPT ![m] = ht[x]]

(* A page cut in two, its parent told of the new one: still a search tree.    *)
LEMMA TreeCut ==
  ASSUME NEW V, NEW V2, NEW U, NEW r, NEW lo, NEW hi, NEW ht,
         Tree(V, U, r, lo, hi, ht),
         NEW x, NEW m, NEW P, NEW p, NEW c, NEW sep,
         CutApart(V, V2, U, x, m, P, p, c, lo[x], sep, hi[x], lo[P], hi[P]),
         NEW lo2, NEW hi2, NEW ht2, CutBounds(lo2, hi2, ht2, lo, hi, ht, x, m, sep)
  PROVE  Tree(V2, U \union {m}, r, lo2, hi2, ht2)
<1>0. /\ lo2 = [lo EXCEPT ![m] = sep]
      /\ hi2 = [hi EXCEPT ![x] = sep, ![m] = hi[x]]
      /\ ht2 = [ht EXCEPT ![m] = ht[x]]
  BY DEF CutBounds
<1> DEFINE U2 == U \union {m}
           N == V[x]
           L == V2[x]
           R == V2[m]
           q(n) == IF n \in Under(R) THEN m ELSE V[n].parent
<1>1. /\ x \in U /\ P \in U /\ m \notin U /\ m \in PageNums
      /\ p \in 1 .. Size(V[P]) + 1 /\ V[P].links[p] = x
      /\ Parted(N, L, R, c, lo[x], sep, hi[x]) /\ R.number = m
      /\ Widened(V[P], V2[P], p, sep, m, lo[P], hi[P])
      /\ \A n \in U \ {x, P} : Moved(V2[n], V[n], q(n))
  BY DEF CutApart
<1>2. /\ L \in Node /\ Shape(L) /\ Ordered(L, lo[x], sep)
      /\ R \in Node /\ Shape(R) /\ Ordered(R, sep, hi[x])
      /\ L.kind = N.kind /\ L.number = N.number /\ L.parent = N.parent
      /\ R.kind = N.kind /\ R.parent = N.parent
      /\ sep \in Keys /\ sep \in Nat /\ lo[x] < sep /\ sep < hi[x]
  <2>1. Halves(N, L, R, c, lo[x], sep, hi[x])
    BY <1>1, PartedIs
  <2> QED
    BY <2>1, NumbersAreNat DEF Halves
<1>3. /\ V[P].kind \in Interiors /\ Size(V[P]) \in Nat
      /\ V2[P] \in Node /\ Shape(V2[P]) /\ V2[P].kind = V[P].kind
      /\ Ordered(V2[P], lo[P], hi[P])
      /\ V2[P].number = V[P].number /\ V2[P].parent = V[P].parent
      /\ Size(V2[P]) = Size(V[P]) + 1
      /\ \A i \in 0 .. Size(V[P]) + 2 :
           Fence(V2[P], lo[P], hi[P], i) =
             IF i < p THEN Fence(V[P], lo[P], hi[P], i)
             ELSE IF i = p THEN sep ELSE Fence(V[P], lo[P], hi[P], i - 1)
      /\ \A j \in 1 .. Size(V[P]) + 2 :
           V2[P].links[j] = IF j <= p THEN V[P].links[j]
                            ELSE IF j = p + 1 THEN m ELSE V[P].links[j - 1]
  BY <1>1, NodeFields DEF Widened
<1>4. /\ x # r /\ x # P /\ N.parent = P /\ ht[P] = ht[x] + 1
      /\ lo[x] = Fence(V[P], lo[P], hi[P], p - 1)
      /\ hi[x] = Fence(V[P], lo[P], hi[P], p)
  BY <1>1, <1>3, TreeChild
<1>5. r \in U /\ m # r /\ m # P /\ m # x
  BY <1>1 DEF Tree, RootOK
<1>6. /\ lo2 \in [Numbers -> Nat] /\ hi2 \in [Numbers -> Nat]
      /\ ht2 \in [Numbers -> Nat]
      /\ lo2[m] = sep /\ hi2[m] = hi[x] /\ ht2[m] = ht[x] /\ hi2[x] = sep
      /\ \A n \in U : lo2[n] = lo[n] /\ ht2[n] = ht[n]
      /\ \A n \in U \ {x} : hi2[n] = hi[n]
  <2>1. lo \in [Numbers -> Nat] /\ hi \in [Numbers -> Nat] /\ ht \in [Numbers -> Nat]
        /\ U \subseteq Numbers /\ m \in Numbers /\ x \in Numbers
    BY <1>1 DEF Tree, Numbers
  <2>2. lo[x] \in Nat /\ hi[x] \in Nat /\ ht[x] \in Nat
    BY <2>1
  <2> QED
    BY <1>0, <1>1, <1>2, <1>5, <2>1, <2>2
(* The pages that m takes over are those behind the cut.                       *)
<1>7. ASSUME NEW n \in Under(R)
      PROVE  /\ n \in U /\ V[n].parent = x /\ N.kind \in Interiors
             /\ \E j \in 1 .. Size(R) + 1 : R.links[j] = n /\ n = N.links[c + 1 + j]
                   /\ c + 1 + j \in 1 .. Size(N) + 1
  <2>1. N.kind \in Interiors
    BY <1>2, <1>7 DEF Under
  <2>2. PICK j \in 1 .. Size(R) + 1 : R.links[j] = n
    BY <1>2, <2>1 DEF Under
  <2>3. /\ c \in Nat /\ Size(N) \in Nat /\ Size(R) = Size(N) - c - 1 /\ c < Size(N)
        /\ \A i \in 1 .. Size(N) - c : R.links[i] = N.links[c + 1 + i]
    BY <1>1, <2>1, PartedLinks
  <2>4. j \in 1 .. Size(N) - c /\ c + 1 + j \in 1 .. Size(N) + 1
    BY <2>3
  <2>5. n = N.links[c + 1 + j]
    BY <2>2, <2>3, <2>4
  <2>6. n \in U /\ V[n].parent = x
    BY <1>1, <2>1, <2>4, <2>5, TreeChild
  <2> QED
    BY <2>1, <2>2, <2>4, <2>5, <2>6
<1>8. \A n \in U : ht[n] \in Nat
  BY TreePage
<1>9. x \notin Under(R) /\ P \notin Under(R)
  <2>1. \A n \in Under(R) : n \in U /\ ht[x] = ht[n] + 1
    <3> SUFFICES ASSUME NEW n \in Under(R) PROVE n \in U /\ ht[x] = ht[n] + 1
      OBVIOUS
    <3>1. n \in U /\ V[n].parent = x /\ N.kind \in Interiors
          /\ \E i \in 1 .. Size(N) + 1 : n = N.links[i]
      BY <1>7
    <3> QED
      BY <1>1, <3>1, TreeChild
  <2> QED
    BY <1>1, <1>4, <1>8, <2>1
(* Each old page keeps its number and kind, and its parent unless m takes it.  *)
<1>10. ASSUME NEW n \in U
       PROVE  V2[n].kind = V[n].kind /\ V2[n].number = V[n].number
              /\ V2[n].parent = q(n)
  <2>1. CASE n = x
    BY <1>2, <1>9, <2>1
  <2>2. CASE n = P
    BY <1>3, <1>9, <2>2
  <2>3. CASE n \in U \ {x, P}
    BY <1>1, <2>3, MovedAlike
  <2> QED
    BY <2>1, <2>2, <2>3
<1>11. RootOK(U2, r, lo2, hi2, ht2)
  <2>1. lo[r] = 0 /\ hi[r] = Max(Keys) + 1 /\ \A n \in U \ {r} : ht[n] < ht[r]
    BY DEF Tree, RootOK
  <2>2. ASSUME NEW n \in U2 \ {r} PROVE ht2[n] < ht2[r]
    BY <1>1, <1>4, <1>5, <1>6, <2>1
  <2> QED
    BY <1>4, <1>5, <1>6, <2>1, <2>2 DEF RootOK
<1>12. ASSUME NEW n \in U2 PROVE PageOK(V2, r, lo2, hi2, ht2, n)
  <2>1. CASE n = x
    <3>1. N.number = x /\ (N.kind \in Leaves) = (ht[x] = 0)
          /\ (N.kind \in {"Root", "RootLeaf"}) = (x = r)
      BY <1>1, TreePage
    <3> QED
      BY <1>1, <1>2, <1>6, <2>1, <3>1 DEF PageOK
  <2>2. CASE n = m
    <3>1. (N.kind \in Leaves) = (ht[x] = 0)
          /\ (N.kind \in {"Root", "RootLeaf"}) = (x = r)
      BY <1>1, TreePage
    <3> QED
      BY <1>1, <1>2, <1>4, <1>5, <1>6, <2>2, <3>1 DEF PageOK
  <2>3. CASE n = P
    <3>1. V[P].number = P /\ (V[P].kind \in Leaves) = (ht[P] = 0)
          /\ (V[P].kind \in {"Root", "RootLeaf"}) = (P = r)
      BY <1>1, TreePage
    <3>2. lo2[P] = lo[P] /\ hi2[P] = hi[P] /\ ht2[P] = ht[P]
      BY <1>1, <1>4, <1>6
    <3>3. /\ V2[P] \in Node /\ V2[P].number = P /\ Shape(V2[P])
          /\ Ordered(V2[P], lo[P], hi[P]) /\ V2[P].kind = V[P].kind
      BY <1>3, <3>1
    <3> QED
      BY <2>3, <3>1, <3>2, <3>3 DEF PageOK
  <2>4. CASE n \in U \ {x, P}
    <3>1. /\ V[n].number = n /\ Shape(V[n]) /\ Ordered(V[n], lo[n], hi[n])
          /\ (V[n].kind \in Leaves) = (ht[n] = 0)
          /\ (V[n].kind \in {"Root", "RootLeaf"}) = (n = r)
      BY <2>4, TreePage
    <3>2. /\ V2[n] \in Node /\ V2[n].kind = V[n].kind /\ V2[n].number = V[n].number
          /\ Shape(V2[n]) = Shape(V[n])
          /\ Ordered(V2[n], lo[n], hi[n]) = Ordered(V[n], lo[n], hi[n])
      BY <1>1, <2>4, MovedAlike
    <3> QED
      BY <1>6, <2>4, <3>1, <3>2 DEF PageOK
  <2> QED
    BY <2>1, <2>2, <2>3, <2>4
<1>13. ASSUME NEW n \in U2 PROVE ChildrenOK(V2, U2, lo2, hi2, ht2, n)
  <2> SUFFICES ASSUME V2[n].kind \in Interiors, NEW i \in 1 .. Size(V2[n]) + 1,
                      NEW ch, ch = V2[n].links[i]
               PROVE  /\ ch \in U2 /\ V2[ch].parent = n
                      /\ ht2[n] = ht2[ch] + 1
                      /\ lo2[ch] = Fence(V2[n], lo2[n], hi2[n], i - 1)
                      /\ hi2[ch] = Fence(V2[n], lo2[n], hi2[n], i)
    BY DEF ChildrenOK
  <2>1. CASE n = x
    <3>1. N.kind \in Interiors
      BY <1>2, <2>1
    <3>2. /\ c \in Nat /\ Size(N) \in Nat /\ c < Size(N) /\ Size(L) = c
          /\ \A j \in 0 .. c + 1 : Fence(L, lo[x], sep, j) = Fence(N, lo[x], hi[x], j)
          /\ \A j \in 1 .. c + 1 : L.links[j] = N.links[j]
      BY <1>1, <3>1, PartedLinks
    <3>3. /\ i \in 1 .. c + 1 /\ i \in 1 .. Size(N) + 1 /\ i - 1 \in 0 .. c + 1
          /\ i \in 0 .. c + 1
      BY <2>1, <3>2
    <3>4. ch = N.links[i]
      BY <2>1, <3>2, <3>3
    <3>5. /\ ch \in U /\ ch # x /\ V[ch].parent = x /\ ht[x] = ht[ch] + 1
          /\ lo[ch] = Fence(N, lo[x], hi[x], i - 1)
          /\ hi[ch] = Fence(N, lo[x], hi[x], i)
      BY <1>1, <3>1, <3>3, <3>4, TreeChild
    <3>6. ch \notin Under(R)
      <4> SUFFICES ASSUME ch \in Under(R) PROVE FALSE
        OBVIOUS
      <4>1. PICK j \in 1 .. Size(R) + 1 : ch = N.links[c + 1 + j]
                   /\ c + 1 + j \in 1 .. Size(N) + 1
        BY <1>7
      <4>2. i = c + 1 + j
        <5> DEFINE k == c + 1 + j
        <5>1. k \in 1 .. Size(N) + 1 /\ N.links[i] = N.links[k]
          BY <3>4, <4>1
        <5> HIDE DEF k
        <5>2. i = k
          BY <1>1, <3>1, <3>3, <5>1, LinksDiffer
        <5> QED
          BY <5>2 DEF k
      <4> QED
        BY <3>2, <3>3, <4>2
    <3>7. V2[ch].parent = x
      BY <1>10, <3>5, <3>6
    <3>8. lo2[ch] = lo[ch] /\ hi2[ch] = hi[ch] /\ ht2[ch] = ht[ch] /\ ht2[x] = ht[x]
          /\ lo2[x] = lo[x] /\ hi2[x] = sep
      BY <1>1, <1>6, <3>5
    <3> QED
      BY <2>1, <3>2, <3>3, <3>5, <3>7, <3>8
  <2>2. CASE n = m
    <3>1. N.kind \in Interiors
      BY <1>2, <2>2
    <3>2. /\ c \in Nat /\ Size(N) \in Nat /\ c < Size(N) /\ Size(R) = Size(N) - c - 1
          /\ \A j \in 0 .. Size(N) - c :
               Fence(R, sep, hi[x], j) = Fence(N, lo[x], hi[x], c + 1 + j)
          /\ \A j \in 1 .. Size(N) - c : R.links[j] = N.links[c + 1 + j]
      BY <1>1, <3>1, PartedLinks
    <3>3. /\ i \in 1 .. Size(N) - c /\ c + 1 + i \in 1 .. Size(N) + 1
          /\ i - 1 \in 0 .. Size(N) - c /\ i \in 0 .. Size(N) - c
          /\ c + 1 + (i - 1) = (c + 1 + i) - 1
      BY <2>2, <3>2
    <3>4. ch = N.links[c + 1 + i]
      BY <2>2, <3>2, <3>3
    <3>5. /\ ch \in U /\ ch # x /\ V[ch].parent = x /\ ht[x] = ht[ch] + 1
          /\ lo[ch] = Fence(N, lo[x], hi[x], (c + 1 + i) - 1)
          /\ hi[ch] = Fence(N, lo[x], hi[x], c + 1 + i)
      BY <1>1, <3>1, <3>3, <3>4, TreeChild
    <3>6. ch \in Under(R)
      BY <1>2, <2>2, <3>1 DEF Under
    <3>7. V2[ch].parent = m
      BY <1>10, <3>5, <3>6
    <3>8. lo2[ch] = lo[ch] /\ hi2[ch] = hi[ch] /\ ht2[ch] = ht[ch] /\ ht2[m] = ht[x]
          /\ lo2[m] = sep /\ hi2[m] = hi[x]
      BY <1>1, <1>6, <3>5
    <3>9. /\ Fence(R, sep, hi[x], i - 1) = Fence(N, lo[x], hi[x], (c + 1 + i) - 1)
          /\ Fence(R, sep, hi[x], i) = Fence(N, lo[x], hi[x], c + 1 + i)
      BY <3>2, <3>3
    <3> QED
      BY <2>2, <3>5, <3>7, <3>8, <3>9
  <2>3. CASE n = P
    <3>1. /\ i \in 1 .. Size(V[P]) + 2 /\ i \in 0 .. Size(V[P]) + 2
          /\ i - 1 \in 0 .. Size(V[P]) + 2 /\ i \in Nat /\ p \in Nat
      BY <1>1, <1>3, <2>3
    <3>2. lo2[P] = lo[P] /\ hi2[P] = hi[P] /\ ht2[P] = ht[P]
      BY <1>1, <1>4, <1>6
    <3>3. CASE i = p
      <4>1. ch = x
        BY <1>1, <1>3, <2>3, <3>1, <3>3
      <4>2. Fence(V2[P], lo[P], hi[P], i - 1) = lo[x]
        <5>1. i - 1 < p
          BY <3>1, <3>3
        <5> QED
          BY <1>3, <1>4, <3>1, <3>3, <5>1
      <4>3. Fence(V2[P], lo[P], hi[P], i) = sep
        <5>1. ~(i < p)
          BY <3>1, <3>3
        <5> QED
          BY <1>3, <3>1, <3>3, <5>1
      <4> QED
        BY <1>1, <1>2, <1>4, <1>6, <2>3, <3>2, <4>1, <4>2, <4>3
    <3>4. CASE i = p + 1
      <4>1. ch = m
        <5>1. ~(i <= p)
          BY <3>1, <3>4
        <5> QED
          BY <1>3, <2>3, <3>1, <3>4, <5>1
      <4>2. Fence(V2[P], lo[P], hi[P], i - 1) = sep
        <5>1. i - 1 = p /\ ~(p < p)
          BY <3>1, <3>4
        <5> QED
          BY <1>3, <3>1, <5>1
      <4>3. Fence(V2[P], lo[P], hi[P], i) = hi[x]
        <5>1. i - 1 = p /\ ~(i < p) /\ i # p
          BY <3>1, <3>4
        <5> QED
          BY <1>3, <1>4, <3>1, <5>1
      <4> QED
        BY <1>1, <1>2, <1>4, <1>6, <2>3, <3>2, <4>1, <4>2, <4>3
    <3>5. CASE i < p \/ i > p + 1
      <4> DEFINE j == IF i < p THEN i ELSE i - 1
      <4>1. /\ j \in 1 .. Size(V[P]) + 1 /\ j # p
        BY <1>1, <1>3, <3>1, <3>5
      <4>2. ch = V[P].links[j]
        <5>1. i < p => i <= p
          BY <3>1
        <5>2. i > p + 1 => ~(i <= p) /\ i # p + 1 /\ ~(i < p)
          BY <3>1
        <5> QED
          BY <1>3, <2>3, <3>1, <3>5, <5>1, <5>2
      <4>3. /\ Fence(V2[P], lo[P], hi[P], i - 1) = Fence(V[P], lo[P], hi[P], j - 1)
            /\ Fence(V2[P], lo[P], hi[P], i) = Fence(V[P], lo[P], hi[P], j)
        <5>1. CASE i < p
          <6>1. i - 1 < p
            BY <3>1, <5>1
          <6> QED
            BY <1>3, <3>1, <5>1, <6>1
        <5>2. CASE i > p + 1
          <6>1. ~(i < p) /\ i # p /\ ~(i - 1 < p) /\ i - 1 # p
            BY <3>1, <5>2
          <6> QED
            BY <1>3, <3>1, <6>1
        <5> QED
          BY <3>5, <5>1, <5>2
      <4> HIDE DEF j
      <4>4. /\ ch \in U /\ V[ch].parent = P /\ ht[P] = ht[ch] + 1
            /\ lo[ch] = Fence(V[P], lo[P], hi[P], j - 1)
            /\ hi[ch] = Fence(V[P], lo[P], hi[P], j)
        BY <1>1, <1>3, <4>1, <4>2, TreeChild
      <4>5. ch # x
        BY <1>1, <1>3, <4>1, <4>2, LinksDiffer
      <4>6. ch \notin Under(R)
        BY <1>4, <1>7, <4>4
      <4>7. V2[ch].parent = P
        BY <1>10, <4>4, <4>6
      <4>8. lo2[ch] = lo[ch] /\ hi2[ch] = hi[ch] /\ ht2[ch] = ht[ch]
        BY <1>6, <4>4, <4>5
      <4> QED
        BY <2>3, <3>2, <4>3, <4>4, <4>7, <4>8
    <3> QED
      BY <3>1, <3>3, <3>4, <3>5
  <2>4. CASE n \in U \ {x, P}
    <3>1. /\ V2[n].kind = V[n].kind /\ V2[n].links = V[n].links
          /\ Size(V2[n]) = Size(V[n])
          /\ \A a : Fence(V2[n], lo[n], hi[n], a) = Fence(V[n], lo[n], hi[n], a)
      BY <1>1, <2>4, MovedAlike
    <3>2. /\ ch \in U /\ V[ch].parent = n /\ ht[n] = ht[ch] + 1
          /\ lo[ch] = Fence(V[n], lo[n], hi[n], i - 1)
          /\ hi[ch] = Fence(V[n], lo[n], hi[n], i)
      BY <2>4, <3>1, TreeChild
    <3>3. ch # x
      BY <1>4, <2>4, <3>2
    <3>4. ch \notin Under(R)
      BY <1>7, <2>4, <3>2
    <3>5. V2[ch].parent = n
      BY <1>10, <3>2, <3>4
    <3>6. /\ lo2[ch] = lo[ch] /\ hi2[ch] = hi[ch] /\ ht2[ch] = ht[ch]
          /\ lo2[n] = lo[n] /\ hi2[n] = hi[n] /\ ht2[n] = ht[n]
      BY <1>6, <2>4, <3>2, <3>3
    <3> QED
      BY <3>1, <3>2, <3>5, <3>6
  <2> QED
    BY <2>1, <2>2, <2>3, <2>4
<1>14. ASSUME NEW n \in U2 \ {r} PROVE ParentOK(V2, U2, n)
  <2>1. \A j \in 1 .. Size(V[P]) + 1 :
          \E i \in 1 .. Size(V2[P]) + 1 : V2[P].links[i] = V[P].links[j]
    <3> SUFFICES ASSUME NEW j \in 1 .. Size(V[P]) + 1
                 PROVE  \E i \in 1 .. Size(V2[P]) + 1 : V2[P].links[i] = V[P].links[j]
      OBVIOUS
    <3>1. CASE j <= p
      <4>1. j \in 1 .. Size(V[P]) + 2 /\ j \in 1 .. Size(V2[P]) + 1
        BY <1>3
      <4> QED
        BY <1>3, <3>1, <4>1
    <3>2. CASE ~(j <= p)
      <4>1. /\ j + 1 \in 1 .. Size(V[P]) + 2 /\ j + 1 \in 1 .. Size(V2[P]) + 1
            /\ ~(j + 1 <= p) /\ j + 1 # p + 1 /\ (j + 1) - 1 = j
        BY <1>1, <1>3, <3>2
      <4>2. V2[P].links[j + 1] = V[P].links[j]
        BY <1>3, <4>1
      <4> QED
        BY <4>1, <4>2
    <3> QED
      BY <3>1, <3>2
  <2>2. CASE n = m
    <3>1. /\ p + 1 \in 1 .. Size(V[P]) + 2 /\ p + 1 \in 1 .. Size(V2[P]) + 1
          /\ ~(p + 1 <= p)
      BY <1>1, <1>3
    <3>2. V2[P].links[p + 1] = m
      BY <1>3, <3>1
    <3> QED
      BY <1>1, <1>2, <1>3, <1>4, <2>2, <3>1, <3>2 DEF ParentOK
  <2>3. CASE n \in Under(R)
    <3>1. V2[n].parent = m /\ R.kind \in Interiors
          /\ \E j \in 1 .. Size(R) + 1 : R.links[j] = n
      BY <1>2, <1>7, <1>10, <2>3
    <3> QED
      BY <3>1 DEF ParentOK
  <2>4. CASE n \in U /\ n \notin Under(R)
    <3> DEFINE g == V[n].parent
    <3>1. g \in U /\ V[g].kind \in Interiors /\ ht[g] = ht[n] + 1
      BY <2>4, TreeParent
    <3>2. PICK j \in 1 .. Size(V[g]) + 1 : V[g].links[j] = n
      BY <2>4, TreeParent
    <3>3. V2[n].parent = g
      BY <1>10, <2>4
    <3> HIDE DEF g
    <3>4. V2[g].kind \in Interiors
      BY <1>10, <3>1
    <3>5. \E i \in 1 .. Size(V2[g]) + 1 : V2[g].links[i] = n
      <4>1. CASE g = P
        BY <2>1, <3>2, <4>1
      <4>2. CASE g \in U \ {x, P}
        <5>1. V2[g].links = V[g].links /\ Size(V2[g]) = Size(V[g])
          BY <1>1, <4>2, MovedAlike
        <5> QED
          BY <3>2, <5>1
      <4>3. CASE g = x
        <5>1. N.kind \in Interiors /\ j \in 1 .. Size(N) + 1 /\ N.links[j] = n
          BY <3>1, <3>2, <4>3
        <5>2. /\ c \in Nat /\ Size(N) \in Nat /\ c < Size(N) /\ Size(L) = c
              /\ R.kind \in Interiors /\ Size(R) = Size(N) - c - 1
              /\ \A i \in 1 .. c + 1 : L.links[i] = N.links[i]
              /\ \A i \in 1 .. Size(N) - c : R.links[i] = N.links[c + 1 + i]
          BY <1>1, <5>1, PartedLinks
        <5>3. ~(j > c + 1)
          <6> SUFFICES ASSUME j > c + 1 PROVE FALSE
            OBVIOUS
          <6>1. /\ j - (c + 1) \in 1 .. Size(N) - c /\ c + 1 + (j - (c + 1)) = j
                /\ j - (c + 1) \in 1 .. Size(R) + 1
            BY <5>1, <5>2
          <6>2. R.links[j - (c + 1)] = n
            BY <5>1, <5>2, <6>1
          <6> QED
            BY <2>4, <5>2, <6>1, <6>2 DEF Under
        <5>4. j \in 1 .. c + 1
          BY <5>1, <5>2, <5>3
        <5> QED
          BY <4>3, <5>1, <5>2, <5>4
      <4> QED
        BY <3>1, <4>1, <4>2, <4>3
    <3> QED
      BY <3>1, <3>3, <3>4, <3>5 DEF ParentOK
  <2> QED
    BY <1>7, <2>2, <2>3, <2>4
<1>15. Apart(U2, lo2, hi2, ht2)
  <2>1. \A a, b \in U : a # b /\ ht[a] = ht[b] => hi[a] <= lo[b] \/ hi[b] <= lo[a]
    BY DEF Tree, Apart
  <2>2. \A a \in U : lo[a] \in Nat /\ hi[a] \in Nat /\ lo[a] < hi[a]
    BY TreePage
  <2>3. ASSUME NEW a \in U, a # x, ht[a] = ht[x]
        PROVE  hi[a] <= lo[x] \/ hi[x] <= lo[a]
    BY <1>1, <2>1, <2>3
  <2> SUFFICES ASSUME NEW a \in U2, NEW b \in U2, a # b, ht2[a] = ht2[b]
               PROVE  hi2[a] <= lo2[b] \/ hi2[b] <= lo2[a]
    BY DEF Apart
  <2>4. ASSUME NEW e \in U, e # x, ht[e] = ht[x]
        PROVE  /\ hi2[e] <= lo2[x] \/ hi2[x] <= lo2[e]
               /\ hi2[e] <= lo2[m] \/ hi2[m] <= lo2[e]
    <3>1. hi2[e] = hi[e] /\ lo2[e] = lo[e] /\ lo2[x] = lo[x]
      BY <1>1, <1>6, <2>4
    <3>2. lo[e] \in Nat /\ hi[e] \in Nat /\ lo[x] \in Nat /\ hi[x] \in Nat
      BY <1>1, <2>2
    <3> QED
      BY <1>2, <1>6, <2>3, <2>4, <3>1, <3>2
  <2>5. hi2[x] <= lo2[m]
    BY <1>2, <1>6
  <2>6. CASE a \in U \ {x} /\ b \in U \ {x}
    BY <1>6, <2>1, <2>6
  <2>7. CASE a \in {x, m} /\ b \in U \ {x}
    <3>1. b \in U /\ b # x /\ ht[b] = ht[x]
      BY <1>1, <1>6, <2>7
    <3> QED
      BY <2>4, <2>7, <3>1
  <2>8. CASE b \in {x, m} /\ a \in U \ {x}
    <3>1. a \in U /\ a # x /\ ht[a] = ht[x]
      BY <1>1, <1>6, <2>8
    <3> QED
      BY <2>4, <2>8, <3>1
  <2>9. CASE a \in {x, m} /\ b \in {x, m}
    BY <2>5, <2>9
  <2> QED
    BY <1>1, <2>6, <2>7, <2>8, <2>9
<1>16. U2 \subseteq PageNums
  BY <1>1 DEF Tree
<1> QED
  BY <1>6, <1>11, <1>12, <1>13, <1>14, <1>15, <1>16 DEF Tree

(* Pages V with siblings x and m behind links p and p + 1 of page P, V2 with   *)
(* all that they hold in x.                                                    *)
PutTogether(V, V2, U, x, m, P, p, c, l, sep, h, lP, hP) ==
  /\ x \in U /\ m \in U /\ P \in U
  /\ p \in 1 .. Size(V[P]) /\ V[P].links[p] = x /\ V[P].links[p + 1] = m
  /\ Parted(V2[x], V[x], V[m], c, l, sep, h)
  /\ Widened(V2[P], V[P], p, sep, m, lP, hP)
  /\ \A n \in U \ {x, m, P} :
       Moved(V2[n], V[n], IF n \in Under(V[m]) THEN x ELSE V[n].parent)

(* Two neighbours put together, the parent without the second: still a        *)
(* search tree.                                                               *)
LEMMA TreeJoin ==
  ASSUME NEW V, NEW V2, NEW U, NEW r, NEW lo, NEW hi, NEW ht,
         Tree(V, U, r, lo, hi, ht),
         NEW x, NEW m, NEW P, NEW p, NEW c,
         PutTogether(V, V2, U, x, m, P, p, c, lo[x], hi[x], hi[m], lo[P], hi[P]),
         NEW hi2, hi2 = [hi EXCEPT ![x] = hi[m]]
  PROVE  Tree(V2, U \ {m}, r, lo, hi2, ht)
<1> DEFINE U2 == U \ {m}
           N == V2[x]
           L == V[x]
           R == V[m]
           sep == hi[x]
           q(n) == IF n \in Under(R) THEN x ELSE V[n].parent
<1>1. /\ x \in U /\ m \in U /\ P \in U
      /\ p \in 1 .. Size(V[P]) /\ V[P].links[p] = x /\ V[P].links[p + 1] = m
      /\ Parted(N, L, R, c, lo[x], sep, hi[m])
      /\ Widened(V2[P], V[P], p, sep, m, lo[P], hi[P])
      /\ \A n \in U \ {x, m, P} : Moved(V2[n], V[n], q(n))
  BY DEF PutTogether
<1>2. /\ N \in Node /\ Shape(N) /\ Ordered(N, lo[x], hi[m])
      /\ L.kind = N.kind /\ L.number = N.number /\ L.parent = N.parent
      /\ R.kind = N.kind
  BY <1>1, PartedIs DEF Halves
<1>3. /\ V[P].kind \in Interiors /\ Size(V2[P]) \in Nat
      /\ V2[P] \in Node /\ Shape(V2[P]) /\ V2[P].kind = V[P].kind
      /\ Ordered(V2[P], lo[P], hi[P])
      /\ V2[P].number = V[P].number /\ V2[P].parent = V[P].parent
      /\ Size(V[P]) = Size(V2[P]) + 1
      /\ \A i \in 0 .. Size(V2[P]) + 2 :
           Fence(V[P], lo[P], hi[P], i) =
             IF i < p THEN Fence(V2[P], lo[P], hi[P], i)
             ELSE IF i = p THEN sep ELSE Fence(V2[P], lo[P], hi[P], i - 1)
      /\ \A j \in 1 .. Size(V2[P]) + 2 :
           V[P].links[j] = IF j <= p THEN V2[P].links[j]
                           ELSE IF j = p + 1 THEN m ELSE V2[P].links[j - 1]
  BY <1>1, NodeFields DEF Widened
<1>4. /\ x # r /\ x # P /\ L.parent = P /\ ht[P] = ht[x] + 1
      /\ lo[x] = Fence(V[P], lo[P], hi[P], p - 1)
      /\ hi[x] = Fence(V[P], lo[P], hi[P], p)
  BY <1>1, <1>3, TreeChild
<1>5. /\ m # r /\ m # P /\ R.parent = P /\ ht[P] = ht[m] + 1
      /\ lo[m] = Fence(V[P], lo[P], hi[P], p)
      /\ hi[m] = Fence(V[P], lo[P], hi[P], p + 1)
  <2>1. p + 1 \in 1 .. Size(V[P]) + 1 /\ (p + 1) - 1 = p
    BY <1>1, <1>3
  <2> QED
    BY <1>1, <1>3, <2>1, TreeChild
<1>6. x # m
  <2>1. p \in 1 .. Size(V[P]) + 1 /\ p + 1 \in 1 .. Size(V[P]) + 1 /\ p # p + 1
    BY <1>1, <1>3
  <2> QED
    BY <1>1, <1>3, <2>1, LinksDiffer
<1>7. \A n \in U : ht[n] \in Nat /\ lo[n] \in Nat /\ hi[n] \in Nat /\ lo[n] < hi[n]
  BY TreePage
<1>8. /\ hi2 \in [Numbers -> Nat] /\ hi2[x] = hi[m]
      /\ \A n \in U \ {x} : hi2[n] = hi[n]
      /\ ht[x] = ht[m] /\ lo[m] = hi[x]
  <2>1. hi \in [Numbers -> Nat] /\ U \subseteq Numbers
    BY DEF Tree, Numbers
  <2> QED
    BY <1>1, <1>4, <1>5, <1>7, <2>1
<1>9. ASSUME NEW n \in Under(R)
      PROVE  /\ n \in U /\ V[n].parent = m /\ n # m /\ ht[m] = ht[n] + 1
  <2>1. R.kind \in Interiors
    BY <1>9 DEF Under
  <2>2. PICK j \in 1 .. Size(R) + 1 : R.links[j] = n
    BY <2>1, <1>9 DEF Under
  <2> QED
    BY <1>1, <2>1, <2>2, TreeChild
<1>10. x \notin Under(R) /\ P \notin Under(R) /\ m \notin Under(R)
  BY <1>1, <1>4, <1>5, <1>7, <1>8, <1>9
<1>11. ASSUME NEW n \in U2
       PROVE  V2[n].kind = V[n].kind /\ V2[n].number = V[n].number
              /\ V2[n].parent = q(n)
  <2>1. CASE n = x
    BY <1>2, <1>10, <2>1
  <2>2. CASE n = P
    BY <1>3, <1>10, <2>2
  <2>3. CASE n \in U \ {x, m, P}
    BY <1>1, <2>3, MovedAlike
  <2> QED
    BY <2>1, <2>2, <2>3
<1>12. RootOK(U2, r, lo, hi2, ht)
  <2>1. r \in U /\ lo[r] = 0 /\ hi[r] = Max(Keys) + 1 /\ \A n \in U \ {r} : ht[n] < ht[r]
    BY DEF Tree, RootOK
  <2> QED
    BY <1>4, <1>5, <1>8, <2>1 DEF RootOK
<1>13. ASSUME NEW n \in U2 PROVE PageOK(V2, r, lo, hi2, ht, n)
  <2>0. /\ V[n].number = n /\ Shape(V[n]) /\ Ordered(V[n], lo[n], hi[n])
        /\ (V[n].kind \in Leaves) = (ht[n] = 0)
        /\ (V[n].kind \in {"Root", "RootLeaf"}) = (n = r)
    BY TreePage
  <2>1. CASE n = x
    BY <1>2, <1>8, <2>0, <2>1 DEF PageOK
  <2>2. CASE n = P
    <3>1. hi2[P] = hi[P]
      BY <1>1, <1>4, <1>8
    <3>2. /\ V2[P] \in Node /\ V2[P].number = P /\ Shape(V2[P])
          /\ Ordered(V2[P], lo[P], hi[P]) /\ V2[P].kind = V[P].kind
      BY <1>3, <2>0, <2>2
    <3> QED
      BY <2>0, <2>2, <3>1, <3>2 DEF PageOK
  <2>3. CASE n \in U \ {x, m, P}
    <3>1. /\ V2[n] \in Node /\ V2[n].kind = V[n].kind /\ V2[n].number = V[n].number
          /\ Shape(V2[n]) = Shape(V[n])
          /\ Ordered(V2[n], lo[n], hi[n]) = Ordered(V[n], lo[n], hi[n])
      BY <1>1, <2>3, MovedAlike
    <3> QED
      BY <1>8, <2>0, <2>3, <3>1 DEF PageOK
  <2> QED
    BY <2>1, <2>2, <2>3
<1>14. ASSUME NEW n \in U2 PROVE ChildrenOK(V2, U2, lo, hi2, ht, n)
  <2> SUFFICES ASSUME V2[n].kind \in Interiors, NEW i \in 1 .. Size(V2[n]) + 1,
                      NEW ch, ch = V2[n].links[i]
               PROVE  /\ ch \in U2 /\ V2[ch].parent = n
                      /\ ht[n] = ht[ch] + 1
                      /\ lo[ch] = Fence(V2[n], lo[n], hi2[n], i - 1)
                      /\ hi2[ch] = Fence(V2[n], lo[n], hi2[n], i)
    BY DEF ChildrenOK
  <2>1. CASE n = x
    <3>1. N.kind \in Interiors
      BY <2>1
    <3>2. /\ c \in Nat /\ Size(N) \in Nat /\ c < Size(N) /\ Size(L) = c
          /\ L.kind \in Interiors /\ R.kind \in Interiors
          /\ Size(R) = Size(N) - c - 1
          /\ \A j \in 0 .. c + 1 : Fence(L, lo[x], sep, j) = Fence(N, lo[x], hi[m], j)
          /\ \A j \in 1 .. c + 1 : L.links[j] = N.links[j]
          /\ \A j \in 0 .. Size(N) - c :
               Fence(R, sep, hi[m], j) = Fence(N, lo[x], hi[m], c + 1 + j)
          /\ \A j \in 1 .. Size(N) - c : R.links[j] = N.links[c + 1 + j]
      BY <1>1, <3>1, PartedLinks
    <3>3. i \in 1 .. Size(N) + 1
      BY <2>1
    <3>4. CASE i <= c + 1
      <4>1. i \in 1 .. c + 1 /\ i - 1 \in 0 .. c + 1 /\ i \in 0 .. c + 1
        BY <3>2, <3>3, <3>4
      <4>2. ch = L.links[i]
        BY <2>1, <3>2, <4>1
      <4>3. /\ ch \in U /\ ch # x /\ V[ch].parent = x /\ ht[x] = ht[ch] + 1
            /\ lo[ch] = Fence(L, lo[x], hi[x], i - 1)
            /\ hi[ch] = Fence(L, lo[x], hi[x], i)
        BY <1>1, <3>2, <4>1, <4>2, TreeChild
      <4>4. ch # m /\ ch \notin Under(R)
        BY <1>4, <1>5, <1>6, <1>9, <4>3
      <4>5. V2[ch].parent = x /\ hi2[ch] = hi[ch]
        BY <1>8, <1>11, <4>3, <4>4
      <4> QED
        BY <1>8, <2>1, <3>2, <4>1, <4>3, <4>4, <4>5
    <3>5. CASE ~(i <= c + 1)
      <4> DEFINE j == i - (c + 1)
      <4>1. /\ j \in 1 .. Size(N) - c /\ j - 1 \in 0 .. Size(N) - c
            /\ j \in 0 .. Size(N) - c /\ j \in 1 .. Size(R) + 1
            /\ c + 1 + j = i /\ c + 1 + (j - 1) = i - 1
        BY <3>2, <3>3, <3>5
      <4> HIDE DEF j
      <4>2. ch = R.links[j]
        BY <2>1, <3>2, <4>1
      <4>3. /\ ch \in U /\ ch # m /\ V[ch].parent = m /\ ht[m] = ht[ch] + 1
            /\ lo[ch] = Fence(R, lo[m], hi[m], j - 1)
            /\ hi[ch] = Fence(R, lo[m], hi[m], j)
        BY <1>1, <3>2, <4>1, <4>2, TreeChild
      <4>4. ch # x /\ ch \in Under(R)
        BY <1>4, <1>5, <3>2, <4>1, <4>2, <4>3 DEF Under
      <4>5. V2[ch].parent = x /\ hi2[ch] = hi[ch]
        BY <1>8, <1>11, <4>3, <4>4
      <4>6. /\ Fence(R, sep, hi[m], j - 1) = Fence(N, lo[x], hi[m], i - 1)
            /\ Fence(R, sep, hi[m], j) = Fence(N, lo[x], hi[m], i)
        BY <3>2, <4>1
      <4> QED
        BY <1>8, <2>1, <4>3, <4>5, <4>6
    <3> QED
      BY <3>4, <3>5
  <2>2. CASE n = P
    <3>1. /\ i \in 1 .. Size(V2[P]) + 1 /\ i \in 1 .. Size(V[P]) + 1
          /\ i \in 0 .. Size(V2[P]) + 2 /\ i \in 1 .. Size(V2[P]) + 2
          /\ i - 1 \in 0 .. Size(V2[P]) + 2
          /\ i + 1 \in 0 .. Size(V2[P]) + 2 /\ i + 1 \in 1 .. Size(V2[P]) + 2
          /\ i + 1 \in 1 .. Size(V[P]) + 1
          /\ i \in Nat /\ p \in Nat /\ (i + 1) - 1 = i
          /\ p \in 1 .. Size(V[P]) + 1 /\ p + 1 \in 1 .. Size(V[P]) + 1
      BY <1>1, <1>3, <2>2
    <3>2. hi2[P] = hi[P]
      BY <1>1, <1>4, <1>8
    <3>3. CASE i = p
      <4>1. ch = x
        <5>1. i <= p
          BY <3>1, <3>3
        <5> QED
          BY <1>1, <1>3, <2>2, <3>1, <3>3, <5>1
      <4>2. Fence(V2[P], lo[P], hi[P], i - 1) = lo[x]
        <5>1. i - 1 < p
          BY <3>1, <3>3
        <5> QED
          BY <1>3, <1>4, <3>1, <3>3, <5>1
      <4>3. Fence(V2[P], lo[P], hi[P], i) = hi[m]
        <5>1. ~(i + 1 < p) /\ i + 1 # p
          BY <3>1, <3>3
        <5> QED
          BY <1>3, <1>5, <3>1, <3>3, <5>1
      <4>4. V2[x].parent = P
        BY <1>2, <1>4
      <4> QED
        BY <1>1, <1>4, <1>6, <1>8, <2>2, <3>2, <4>1, <4>2, <4>3, <4>4
    <3>4. CASE i < p
      <4>1. ch = V[P].links[i] /\ i # p /\ i # p + 1
        <5>1. i <= p /\ i # p /\ i # p + 1
          BY <3>1, <3>4
        <5> QED
          BY <1>3, <2>2, <3>1, <5>1
      <4>2. /\ Fence(V2[P], lo[P], hi[P], i - 1) = Fence(V[P], lo[P], hi[P], i - 1)
            /\ Fence(V2[P], lo[P], hi[P], i) = Fence(V[P], lo[P], hi[P], i)
        <5>1. i - 1 < p
          BY <3>1, <3>4
        <5> QED
          BY <1>3, <3>1, <3>4, <5>1
      <4>3. /\ ch \in U /\ V[ch].parent = P /\ ht[P] = ht[ch] + 1
            /\ lo[ch] = Fence(V[P], lo[P], hi[P], i - 1)
            /\ hi[ch] = Fence(V[P], lo[P], hi[P], i)
        BY <1>1, <1>3, <3>1, <4>1, TreeChild
      <4>4. ch # x /\ ch # m
        BY <1>1, <1>3, <3>1, <4>1, LinksDiffer
      <4>5. V2[ch].parent = P /\ hi2[ch] = hi[ch]
        BY <1>5, <1>8, <1>9, <1>11, <4>3, <4>4
      <4> QED
        BY <2>2, <3>2, <4>2, <4>3, <4>4, <4>5
    <3>5. CASE i > p
      <4>1. ch = V[P].links[i + 1] /\ i + 1 # p /\ i + 1 # p + 1
        <5>1. ~(i + 1 <= p) /\ i + 1 # p + 1 /\ i + 1 # p
          BY <3>1, <3>5
        <5> QED
          BY <1>3, <2>2, <3>1, <5>1
      <4>2. /\ Fence(V2[P], lo[P], hi[P], i - 1) = Fence(V[P], lo[P], hi[P], i)
            /\ Fence(V2[P], lo[P], hi[P], i) = Fence(V[P], lo[P], hi[P], i + 1)
        <5>1. ~(i < p) /\ i # p /\ ~(i + 1 < p) /\ i + 1 # p
          BY <3>1, <3>5
        <5> QED
          BY <1>3, <3>1, <5>1
      <4>3. /\ ch \in U /\ V[ch].parent = P /\ ht[P] = ht[ch] + 1
            /\ lo[ch] = Fence(V[P], lo[P], hi[P], (i + 1) - 1)
            /\ hi[ch] = Fence(V[P], lo[P], hi[P], i + 1)
        BY <1>1, <1>3, <3>1, <4>1, TreeChild
      <4>4. ch # x /\ ch # m
        <5> DEFINE j == i + 1
        <5>1. j \in 1 .. Size(V[P]) + 1 /\ j # p /\ j # p + 1 /\ ch = V[P].links[j]
          BY <3>1, <4>1
        <5> HIDE DEF j
        <5> QED
          BY <1>1, <1>3, <3>1, <5>1, LinksDiffer
      <4>5. V2[ch].parent = P /\ hi2[ch] = hi[ch]
        BY <1>5, <1>8, <1>9, <1>11, <4>3, <4>4
      <4> QED
        BY <2>2, <3>1, <3>2, <4>2, <4>3, <4>4, <4>5
    <3> QED
      BY <3>1, <3>3, <3>4, <3>5
  <2>3. CASE n \in U \ {x, m, P}
    <3>1. /\ V2[n].kind = V[n].kind /\ V2[n].links = V[n].links
          /\ Size(V2[n]) = Size(V[n])
          /\ \A a : Fence(V2[n], lo[n], hi[n], a) = Fence(V[n], lo[n], hi[n], a)
      BY <1>1, <2>3, MovedAlike
    <3>2. /\ ch \in U /\ V[ch].parent = n /\ ht[n] = ht[ch] + 1
          /\ lo[ch] = Fence(V[n], lo[n], hi[n], i - 1)
          /\ hi[ch] = Fence(V[n], lo[n], hi[n], i)
      BY <2>3, <3>1, TreeChild
    <3>3. ch # x /\ ch # m /\ ch \notin Under(R)
      BY <1>4, <1>5, <1>9, <2>3, <3>2
    <3>4. V2[ch].parent = n /\ hi2[ch] = hi[ch] /\ hi2[n] = hi[n]
      BY <1>8, <1>11, <2>3, <3>2, <3>3
    <3> QED
      BY <3>1, <3>2, <3>3, <3>4
  <2> QED
    BY <2>1, <2>2, <2>3
<1>15. ASSUME NEW n \in U2 \ {r} PROVE ParentOK(V2, U2, n)
  <2>1. CASE n \in Under(R)
    <3>1. R.kind \in Interiors /\ N.kind \in Interiors
      BY <1>2, <2>1 DEF Under
    <3>2. PICK j \in 1 .. Size(R) + 1 : R.links[j] = n
      BY <2>1, <3>1 DEF Under
    <3>3. /\ c \in Nat /\ Size(N) \in Nat /\ c < Size(N)
          /\ Size(R) = Size(N) - c - 1
          /\ \A a \in 1 .. Size(N) - c : R.links[a] = N.links[c + 1 + a]
      BY <1>1, <3>1, PartedLinks
    <3>4. j \in 1 .. Size(N) - c /\ c + 1 + j \in 1 .. Size(N) + 1
      BY <3>3
    <3>5. N.links[c + 1 + j] = n
      BY <3>2, <3>3, <3>4
    <3>6. V2[n].parent = x
      BY <1>11, <2>1
    <3> QED
      BY <1>1, <1>6, <3>1, <3>4, <3>5, <3>6 DEF ParentOK
  <2>2. CASE n \notin Under(R)
    <3> DEFINE g == V[n].parent
    <3>1. g \in U /\ V[g].kind \in Interiors /\ ht[g] = ht[n] + 1
      BY TreeParent
    <3>2. PICK j \in 1 .. Size(V[g]) + 1 : V[g].links[j] = n
      BY TreeParent
    <3>3. V2[n].parent = g
      BY <1>11, <2>2
    <3> HIDE DEF g
    <3>4. g # m
      BY <2>2, <3>1, <3>2 DEF Under
    <3>5. g \in U2 /\ V2[g].kind \in Interiors
      BY <1>11, <3>1, <3>4
    <3>6. \E i \in 1 .. Size(V2[g]) + 1 : V2[g].links[i] = n
      <4>1. CASE g = P
        <5>1. /\ j \in 1 .. Size(V2[P]) + 2 /\ p \in Nat /\ Size(V2[P]) \in Nat
              /\ V[P].links[j] = n
          BY <1>1, <1>3, <3>2, <4>1
        <5>2. CASE j <= p
          <6>1. j \in 1 .. Size(V2[P]) + 1
            BY <1>1, <1>3, <5>1, <5>2
          <6> QED
            BY <1>3, <4>1, <5>1, <5>2, <6>1
        <5>3. CASE ~(j <= p)
          <6>1. j # p + 1
            BY <1>1, <5>1
          <6>2. j - 1 \in 1 .. Size(V2[P]) + 1
            BY <1>1, <5>1, <5>3
          <6> QED
            BY <1>3, <4>1, <5>1, <5>3, <6>1, <6>2
        <5> QED
          BY <5>2, <5>3
      <4>2. CASE g \in U \ {x, m, P}
        <5>1. V2[g].links = V[g].links /\ Size(V2[g]) = Size(V[g])
          BY <1>1, <4>2, MovedAlike
        <5> QED
          BY <3>2, <5>1
      <4>3. CASE g = x
        <5>1. N.kind \in Interiors /\ j \in 1 .. Size(L) + 1 /\ L.links[j] = n
          BY <1>2, <3>1, <3>2, <4>3
        <5>2. /\ c \in Nat /\ Size(N) \in Nat /\ c < Size(N) /\ Size(L) = c
              /\ \A i \in 1 .. c + 1 : L.links[i] = N.links[i]
          BY <1>1, <5>1, PartedLinks
        <5>3. j \in 1 .. c + 1 /\ j \in 1 .. Size(N) + 1
          BY <5>1, <5>2
        <5> QED
          BY <4>3, <5>1, <5>2, <5>3
      <4> QED
        BY <3>1, <3>4, <4>1, <4>2, <4>3
    <3> QED
      BY <3>3, <3>5, <3>6 DEF ParentOK
  <2> QED
    BY <2>1, <2>2
<1>16. Apart(U2, lo, hi2, ht)
  <2>1. \A a, b \in U : a # b /\ ht[a] = ht[b] => hi[a] <= lo[b] \/ hi[b] <= lo[a]
    BY DEF Tree, Apart
  <2>2. ASSUME NEW e \in U2 \ {x}, ht[e] = ht[x]
        PROVE  hi2[e] <= lo[x] \/ hi2[x] <= lo[e]
    <3>1. /\ hi[e] <= lo[x] \/ hi[x] <= lo[e]
          /\ hi[e] <= lo[m] \/ hi[m] <= lo[e]
      BY <1>1, <1>8, <2>1, <2>2
    <3>2. /\ lo[e] \in Nat /\ hi[e] \in Nat /\ lo[e] < hi[e]
          /\ lo[x] \in Nat /\ hi[x] \in Nat /\ hi[m] \in Nat /\ lo[m] = hi[x]
          /\ hi2[e] = hi[e] /\ hi2[x] = hi[m]
      BY <1>1, <1>7, <1>8, <2>2
    <3> QED
      BY <3>1, <3>2
  <2> SUFFICES ASSUME NEW a \in U2, NEW b \in U2, a # b, ht[a] = ht[b]
               PROVE  hi2[a] <= lo[b] \/ hi2[b] <= lo[a]
    BY DEF Apart
  <2>3. CASE a # x /\ b # x
    BY <1>8, <2>1, <2>3
  <2>4. CASE a = x
    BY <2>2, <2>4
  <2>5. CASE b = x
    BY <2>2, <2>5
  <2> QED
    BY <2>3, <2>4, <2>5
<1>17. /\ U2 \subseteq PageNums
       /\ lo \in [Numbers -> Nat] /\ ht \in [Numbers -> Nat]
  BY DEF Tree
<1> QED
  BY <1>8, <1>12, <1>13, <1>14, <1>15, <1>16, <1>17 DEF Tree

(* What the leaves hold, they hold after a cut and after a join.               *)
LEMMA PartedValues ==
  ASSUME NEW n, NEW L, NEW R, NEW c, NEW l, NEW sep, NEW h,
         Parted(n, L, R, c, l, sep, h), n.kind \in Leaves
  PROVE  \A k \in Keys : /\ k < sep => ValueIn(L, k) = ValueIn(n, k)
                         /\ sep <= k => ValueIn(R, k) = ValueIn(n, k)
<1>1. LeafHalves(n, L, R, c, l, sep, h)
  BY Kinds DEF Parted, InnerHalves
<1> QED
  BY <1>1 DEF LeafHalves

(* Cutting a page in two changes no value.                                    *)
LEMMA HoldsCut ==
  ASSUME NEW V, NEW V2, NEW U, NEW r, NEW lo, NEW hi, NEW ht,
         Tree(V, U, r, lo, hi, ht),
         NEW x, NEW m, NEW P, NEW p, NEW c, NEW sep,
         CutApart(V, V2, U, x, m, P, p, c, lo[x], sep, hi[x], lo[P], hi[P]),
         NEW lo2, NEW hi2, NEW ht2, CutBounds(lo2, hi2, ht2, lo, hi, ht, x, m, sep),
         NEW map, Holds(V, U, lo, hi, map)
  PROVE  Holds(V2, U \union {m}, lo2, hi2, map)
<1>0. lo2 = [lo EXCEPT ![m] = sep] /\ hi2 = [hi EXCEPT ![x] = sep, ![m] = hi[x]]
  BY DEF CutBounds
<1>1. /\ x \in U /\ P \in U /\ m \notin U /\ m \in PageNums
      /\ Parted(V[x], V2[x], V2[m], c, lo[x], sep, hi[x])
      /\ Widened(V[P], V2[P], p, sep, m, lo[P], hi[P])
      /\ \A n \in U \ {x, P} :
           Moved(V2[n], V[n], IF n \in Under(V2[m]) THEN m ELSE V[n].parent)
  BY DEF CutApart
<1>2. /\ V2[x].kind = V[x].kind /\ V2[m].kind = V[x].kind
      /\ sep \in Nat /\ lo[x] < sep /\ sep < hi[x]
      /\ V2[P].kind \in Interiors
  BY ZenonT(60), <1>1, PartedIs, NumbersAreNat DEF Halves, Widened
<1>3. /\ lo2[m] = sep /\ hi2[m] = hi[x] /\ hi2[x] = sep /\ lo2[x] = lo[x]
      /\ \A n \in U \ {x} : hi2[n] = hi[n] /\ lo2[n] = lo[n]
  <2>1. /\ lo \in [Numbers -> Nat] /\ hi \in [Numbers -> Nat]
        /\ U \subseteq Numbers /\ m \in Numbers /\ x # m
    BY <1>1 DEF Tree, Numbers
  <2> QED
    BY <1>0, <1>1, <2>1
<1> SUFFICES ASSUME NEW n \in U \union {m}, NEW k \in Keys, V2[n].kind \in Leaves,
                    lo2[n] <= k, k < hi2[n]
             PROVE  ValueIn(V2[n], k) = map[k]
  BY DEF Holds
<1>4. lo[x] \in Nat /\ hi[x] \in Nat /\ k \in Nat
  BY <1>1, TreePage, NumbersAreNat
<1>5. CASE n = x
  <2>1. ValueIn(V2[n], k) = ValueIn(V[x], k)
    BY <1>1, <1>2, <1>3, <1>5, PartedValues
  <2>2. k < hi[x] /\ lo[x] <= k
    BY <1>2, <1>3, <1>4, <1>5
  <2> QED
    BY <1>1, <1>2, <1>5, <2>1, <2>2 DEF Holds
<1>6. CASE n = m
  <2>1. ValueIn(V2[n], k) = ValueIn(V[x], k)
    BY <1>1, <1>2, <1>3, <1>6, PartedValues
  <2>2. k < hi[x] /\ lo[x] <= k
    BY <1>2, <1>3, <1>4, <1>6
  <2> QED
    BY <1>1, <1>2, <1>6, <2>1, <2>2 DEF Holds
<1>7. CASE n \in U \ {x, P}
  <2>1. V2[n].kind = V[n].kind /\ ValueIn(V2[n], k) = ValueIn(V[n], k)
    BY <1>1, <1>7, MovedAlike
  <2> QED
    BY <1>3, <1>7, <2>1 DEF Holds
<1>8. n # P
  BY <1>2, Kinds
<1> QED
  BY <1>5, <1>6, <1>7, <1>8

(* Putting two neighbours together changes no value.                          *)
LEMMA HoldsJoin ==
  ASSUME NEW V, NEW V2, NEW U, NEW r, NEW lo, NEW hi, NEW ht,
         Tree(V, U, r, lo, hi, ht),
         NEW x, NEW m, NEW P, NEW p, NEW c, lo[m] = hi[x], x # m,
         PutTogether(V, V2, U, x, m, P, p, c, lo[x], hi[x], hi[m], lo[P], hi[P]),
         NEW hi2, hi2 = [hi EXCEPT ![x] = hi[m]],
         NEW map, Holds(V, U, lo, hi, map)
  PROVE  Holds(V2, U \ {m}, lo, hi2, map)
<1>1. /\ x \in U /\ m \in U /\ P \in U
      /\ Parted(V2[x], V[x], V[m], c, lo[x], hi[x], hi[m])
      /\ Widened(V2[P], V[P], p, hi[x], m, lo[P], hi[P])
      /\ \A n \in U \ {x, m, P} :
           Moved(V2[n], V[n], IF n \in Under(V[m]) THEN x ELSE V[n].parent)
  BY DEF PutTogether
<1>2. /\ V2[x].kind = V[x].kind /\ V2[x].kind = V[m].kind
      /\ V2[P].kind \in Interiors
  BY <1>1, PartedIs DEF Halves, Widened
<1>3. hi2[x] = hi[m] /\ \A n \in U \ {x} : hi2[n] = hi[n]
  <2>1. hi \in [Numbers -> Nat] /\ U \subseteq Numbers
    BY DEF Tree, Numbers
  <2> QED
    BY <1>1, <2>1
<1> SUFFICES ASSUME NEW n \in U \ {m}, NEW k \in Keys, V2[n].kind \in Leaves,
                    lo[n] <= k, k < hi2[n]
             PROVE  ValueIn(V2[n], k) = map[k]
  BY DEF Holds
<1>4. lo[x] \in Nat /\ hi[x] \in Nat /\ hi[m] \in Nat /\ k \in Nat
  BY <1>1, TreePage, NumbersAreNat
<1>5. CASE n = x
  <2>1. CASE k < hi[x]
    <3>1. ValueIn(V2[n], k) = ValueIn(V[x], k)
      BY <1>1, <1>5, <2>1, PartedValues
    <3> QED
      BY <1>1, <1>2, <1>5, <2>1, <3>1 DEF Holds
  <2>2. CASE hi[x] <= k
    <3>1. ValueIn(V2[n], k) = ValueIn(V[m], k)
      BY <1>1, <1>5, <2>2, PartedValues
    <3>2. k < hi[m] /\ lo[m] <= k
      BY <1>3, <1>5, <2>2
    <3> QED
      BY <1>1, <1>2, <1>5, <3>1, <3>2 DEF Holds
  <2> QED
    BY <1>4, <2>1, <2>2
<1>6. CASE n \in U \ {x, m, P}
  <2>1. V2[n].kind = V[n].kind /\ ValueIn(V2[n], k) = ValueIn(V[n], k)
    BY <1>1, <1>6, MovedAlike
  <2> QED
    BY <1>3, <1>6, <2>1 DEF Holds
<1>7. n # P
  BY <1>2, Kinds
<1> QED
  BY <1>5, <1>6, <1>7

-------------------------------------------------------------------------------
(* Page n as n2: of another kind that fits it, under the parent q.             *)
Recast(n2, n, kind, q) ==
  /\ n2 \in Node /\ n2.kind = kind /\ n2.number = n.number /\ n2.parent = q
  /\ n2.keys = n.keys /\ n2.vals = n.vals /\ n2.links = n.links
  /\ kind \in Leaves \union Interiors /\ (kind \in Leaves) = (n.kind \in Leaves)

(* Of another kind and under another parent a page holds the same.            *)
LEMMA RecastAlike ==
  ASSUME NEW n, Shape(n), NEW n2, NEW kind, NEW q, Recast(n2, n, kind, q)
  PROVE  /\ n2 \in Node /\ n2.kind = kind /\ n2.number = n.number /\ n2.parent = q
         /\ n2.links = n.links /\ Size(n2) = Size(n) /\ Shape(n2)
         /\ (n2.kind \in Leaves) = (n.kind \in Leaves)
         /\ (n2.kind \in Interiors) = (n.kind \in Interiors)
         /\ \A l, h : Ordered(n2, l, h) = Ordered(n, l, h)
         /\ \A l, h, i : Fence(n2, l, h, i) = Fence(n, l, h, i)
         /\ \A k : ValueIn(n2, k) = ValueIn(n, k)
<1>1. /\ n2 \in Node /\ n2.kind = kind /\ n2.number = n.number /\ n2.parent = q
      /\ n2.keys = n.keys /\ n2.vals = n.vals /\ n2.links = n.links
      /\ kind \in Leaves \union Interiors /\ (kind \in Leaves) = (n.kind \in Leaves)
  BY DEF Recast
<1>2. Size(n2) = Size(n)
  BY <1>1 DEF Size
<1>3. (n2.kind \in Interiors) = (n.kind \in Interiors)
  BY <1>1, Kinds DEF Shape
<1>4. Shape(n2)
  BY <1>1, <1>2, <1>3 DEF Shape
<1>5. ASSUME NEW l, NEW h PROVE Ordered(n2, l, h) = Ordered(n, l, h)
  BY <1>1, <1>2, <1>3 DEF Ordered
<1>6. ASSUME NEW l, NEW h, NEW i PROVE Fence(n2, l, h, i) = Fence(n, l, h, i)
  BY <1>1, <1>2 DEF Fence
<1>7. ASSUME NEW k PROVE ValueIn(n2, k) = ValueIn(n, k)
  BY <1>1 DEF ValueIn
<1> QED
  BY <1>1, <1>2, <1>3, <1>4, <1>5, <1>6, <1>7

(* A new root s over the old one, before it takes up the second link.          *)
EmptyRoot(s, r) == [Blank EXCEPT !.kind = "Root", !.number = s, !.links = <<r>>]

(* The root with one link and no key yet that stands between two steps of     *)
(* the proof.                                                                 *)
LEMMA EmptyRootIs ==
  ASSUME NEW s \in PageNums, NEW r \in PageNums, NEW n, n = EmptyRoot(s, r),
         NEW h \in Nat, 0 < h
  PROVE  /\ n \in Node /\ Shape(n) /\ Ordered(n, 0, h) /\ Size(n) = 0
         /\ n.kind = "Root" /\ n.kind \in Interiors /\ n.number = s /\ n.links = <<r>>
         /\ Fence(n, 0, h, 0) = 0 /\ Fence(n, 0, h, 1) = h
<1>1. /\ n.kind = "Root" /\ n.number = s /\ n.links = <<r>> /\ n.keys = <<>>
      /\ n.vals = <<>> /\ n.parent = 0
  BY DEF EmptyRoot, Blank
<1>2. Size(n) = 0
  BY <1>1 DEF Size
<1>3. n \in Node
  <2>1. <<r>> \in Seq(Numbers) /\ s \in Numbers /\ 0 \in Numbers
    BY DEF Numbers
  <2>2. <<>> \in Seq(Keys) /\ <<>> \in Seq(Values)
    OBVIOUS
  <2>3. n = [kind |-> "Root", number |-> s, parent |-> 0,
             keys |-> <<>>, vals |-> <<>>, links |-> <<r>>]
    BY DEF EmptyRoot, Blank
  <2> QED
    BY <2>1, <2>2, <2>3, Kinds DEF Node
<1>4. Shape(n)
  BY <1>1, <1>2, Kinds DEF Shape
<1>5. Ordered(n, 0, h)
  BY <1>2 DEF Ordered
<1>6. Fence(n, 0, h, 0) = 0 /\ Fence(n, 0, h, 1) = h
  BY <1>2 DEF Fence
<1> QED
  BY <1>1, <1>2, <1>3, <1>4, <1>5, <1>6, Kinds

(* Bounds and heights with a new root s over r.                                *)
GrowBounds(lo2, hi2, ht2, lo, hi, ht, s, r) ==
  /\ lo2 = [lo EXCEPT ![s] = 0]
  /\ hi2 = [hi EXCEPT ![s] = Max(Keys) + 1]
  /\ ht2 = [ht EXCEPT ![s] = ht[r] + 1]

(* A new root above the old one: a search tree one level higher with the      *)
(* same map.                                                                  *)
LEMMA TreeGrow ==
  ASSUME NEW V, NEW V2, NEW U, NEW r, NEW lo, NEW hi, NEW ht,
         Tree(V, U, r, lo, hi, ht),
         NEW s \in PageNums, s \notin U, V2[s] = EmptyRoot(s, r),
         NEW kind, kind \in {"Leaf", "Intermediate"}, Recast(V2[r], V[r], kind, s),
         \A n \in U \ {r} : V2[n] = V[n],
         NEW lo2, NEW hi2, NEW ht2, GrowBounds(lo2, hi2, ht2, lo, hi, ht, s, r)
  PROVE  /\ Tree(V2, U \union {s}, s, lo2, hi2, ht2)
         /\ \A map : Holds(V, U, lo, hi, map) => Holds(V2, U \union {s}, lo2, hi2, map)
<1>0. /\ lo2 = [lo EXCEPT ![s] = 0]
      /\ hi2 = [hi EXCEPT ![s] = Max(Keys) + 1]
      /\ ht2 = [ht EXCEPT ![s] = ht[r] + 1]
  BY DEF GrowBounds
<1> DEFINE U2 == U \union {s}
           H == Max(Keys) + 1
<1>1. /\ r \in U /\ lo[r] = 0 /\ hi[r] = H /\ \A n \in U \ {r} : ht[n] < ht[r]
      /\ r # s /\ U \subseteq PageNums
  BY DEF Tree, RootOK
<1>2. /\ V[r] \in Node /\ V[r].number = r /\ Shape(V[r]) /\ Ordered(V[r], 0, H)
      /\ 0 < H /\ H \in Nat /\ ht[r] \in Nat
      /\ (V[r].kind \in Leaves) = (ht[r] = 0)
  BY <1>1, TreePage
<1> HIDE DEF H
<1>3. /\ V2[s] \in Node /\ Shape(V2[s]) /\ Ordered(V2[s], 0, H) /\ Size(V2[s]) = 0
      /\ V2[s].kind = "Root" /\ V2[s].kind \in Interiors /\ V2[s].number = s
      /\ V2[s].links = <<r>>
      /\ Fence(V2[s], 0, H, 0) = 0 /\ Fence(V2[s], 0, H, 1) = H
  BY <1>1, <1>2, EmptyRootIs
<1>4. /\ V2[r] \in Node /\ V2[r].kind = kind /\ V2[r].number = r /\ V2[r].parent = s
      /\ V2[r].links = V[r].links /\ Size(V2[r]) = Size(V[r]) /\ Shape(V2[r])
      /\ (V2[r].kind \in Leaves) = (V[r].kind \in Leaves)
      /\ (V2[r].kind \in Interiors) = (V[r].kind \in Interiors)
      /\ Ordered(V2[r], 0, H)
      /\ \A l, h, i : Fence(V2[r], l, h, i) = Fence(V[r], l, h, i)
      /\ \A k : ValueIn(V2[r], k) = ValueIn(V[r], k)
  BY <1>2, RecastAlike
<1>5. /\ lo2 \in [Numbers -> Nat] /\ hi2 \in [Numbers -> Nat]
      /\ ht2 \in [Numbers -> Nat]
      /\ lo2[s] = 0 /\ hi2[s] = H /\ ht2[s] = ht[r] + 1
      /\ \A n \in U : lo2[n] = lo[n] /\ hi2[n] = hi[n] /\ ht2[n] = ht[n]
      /\ \A n \in U : ht[n] \in Nat
  <2>1. lo \in [Numbers -> Nat] /\ hi \in [Numbers -> Nat] /\ ht \in [Numbers -> Nat]
        /\ U \subseteq Numbers /\ s \in Numbers
    BY DEF Tree, Numbers
  <2> QED
    BY <1>0, <1>1, <1>2, <2>1 DEF H
<1>6. RootOK(U2, s, lo2, hi2, ht2)
  <2>1. ASSUME NEW n \in U2 \ {s} PROVE ht2[n] < ht2[s]
    BY <1>1, <1>2, <1>5
  <2> QED
    BY <1>5, <2>1 DEF RootOK, H
<1>7. ASSUME NEW n \in U2 PROVE PageOK(V2, s, lo2, hi2, ht2, n)
  <2>1. CASE n = s
    <3>1. ~(V2[s].kind \in Leaves) /\ ht2[s] # 0
      BY <1>2, <1>3, <1>5, Kinds
    <3> QED
      BY <1>3, <1>5, <2>1, <3>1 DEF PageOK
  <2>2. CASE n = r
    <3>1. ~(kind \in {"Root", "RootLeaf"})
      OBVIOUS
    <3>2. lo2[r] = 0 /\ hi2[r] = H /\ ht2[r] = ht[r]
      BY <1>1, <1>5 DEF H
    <3> QED
      BY <1>1, <1>2, <1>4, <2>2, <3>1, <3>2 DEF PageOK
  <2>3. CASE n \in U \ {r}
    <3>1. V2[n] = V[n]
      BY <2>3
    <3> QED
      BY <1>1, <1>5, <2>3, <3>1, TreePage DEF PageOK
  <2> QED
    BY <2>1, <2>2, <2>3
<1>8. ASSUME NEW n \in U2 PROVE ChildrenOK(V2, U2, lo2, hi2, ht2, n)
  <2>1. CASE n = s
    <3> SUFFICES ASSUME NEW i \in 1 .. Size(V2[s]) + 1, NEW c, c = V2[s].links[i]
                 PROVE  /\ c \in U2 /\ V2[c].parent = s
                        /\ ht2[s] = ht2[c] + 1
                        /\ lo2[c] = Fence(V2[s], lo2[s], hi2[s], i - 1)
                        /\ hi2[c] = Fence(V2[s], lo2[s], hi2[s], i)
      BY <2>1 DEF ChildrenOK
    <3>1. i = 1 /\ i - 1 = 0
      BY <1>3
    <3>2. c = r
      BY <1>3, <3>1
    <3>3. hi[r] = H
      BY <1>1 DEF H
    <3> QED
      BY <1>1, <1>3, <1>4, <1>5, <3>1, <3>2, <3>3
  <2>2. CASE n \in U
    <3> SUFFICES ASSUME V2[n].kind \in Interiors,
                        NEW i \in 1 .. Size(V2[n]) + 1, NEW c, c = V2[n].links[i]
                 PROVE  /\ c \in U2 /\ V2[c].parent = n
                        /\ ht2[n] = ht2[c] + 1
                        /\ lo2[c] = Fence(V2[n], lo2[n], hi2[n], i - 1)
                        /\ hi2[c] = Fence(V2[n], lo2[n], hi2[n], i)
      BY <2>2 DEF ChildrenOK
    <3>1. /\ V[n].kind \in Interiors /\ V2[n].links = V[n].links
          /\ Size(V2[n]) = Size(V[n])
          /\ \A a : Fence(V2[n], lo[n], hi[n], a) = Fence(V[n], lo[n], hi[n], a)
      BY <1>4, <2>2
    <3>2. /\ c \in U /\ c # r /\ V[c].parent = n /\ ht[n] = ht[c] + 1
          /\ lo[c] = Fence(V[n], lo[n], hi[n], i - 1)
          /\ hi[c] = Fence(V[n], lo[n], hi[n], i)
      BY <2>2, <3>1, TreeChild
    <3>3. V2[c] = V[c]
      BY <3>2
    <3> QED
      BY <1>5, <2>2, <3>1, <3>2, <3>3
  <2> QED
    BY <2>1, <2>2
<1>9. ASSUME NEW n \in U2 \ {s} PROVE ParentOK(V2, U2, n)
  <2>1. CASE n = r
    <3>1. 1 \in 1 .. Size(V2[s]) + 1 /\ V2[s].links[1] = r
      BY <1>3
    <3> QED
      BY <1>3, <1>4, <2>1, <3>1 DEF ParentOK
  <2>2. CASE n # r
    <3>1. n \in U /\ V2[n] = V[n]
      BY <2>2
    <3>2. ParentOK(V, U, n)
      BY <2>2, <3>1 DEF Tree
    <3>3. \A g \in U : V2[g].links = V[g].links /\ Size(V2[g]) = Size(V[g])
                       /\ (V2[g].kind \in Interiors) = (V[g].kind \in Interiors)
      BY <1>4
    <3> QED
      BY <3>1, <3>2, <3>3 DEF ParentOK
  <2> QED
    BY <2>1, <2>2
<1>10. Apart(U2, lo2, hi2, ht2)
  <2>1. Apart(U, lo, hi, ht)
    BY DEF Tree
  <2>2. \A n \in U : ht2[n] # ht2[s]
    BY <1>1, <1>2, <1>5
  <2> QED
    BY <1>5, <2>1, <2>2 DEF Apart
<1>11. Tree(V2, U2, s, lo2, hi2, ht2)
  <2>1. U2 \subseteq PageNums
    BY <1>1
  <2> QED
    BY <1>5, <1>6, <1>7, <1>8, <1>9, <1>10, <2>1 DEF Tree
<1>12. ASSUME NEW map, Holds(V, U, lo, hi, map)
       PROVE  Holds(V2, U2, lo2, hi2, map)
  <2> SUFFICES ASSUME NEW n \in U2, NEW k \in Keys, V2[n].kind \in Leaves,
                      lo2[n] <= k, k < hi2[n]
               PROVE  ValueIn(V2[n], k) = map[k]
    BY DEF Holds
  <2>1. n \in U
    BY <1>3, Kinds
  <2>2. V[n].kind \in Leaves /\ ValueIn(V2[n], k) = ValueIn(V[n], k)
    BY <1>4, <2>1
  <2>3. lo[n] <= k /\ k < hi[n]
    BY <1>5, <2>1
  <2> QED
    BY <1>12, <2>1, <2>2, <2>3 DEF Holds
<1> QED
  BY <1>11, <1>12

(* A root without a key has one child, which takes its place.                  *)
OnlyChild(V, r, s) == V[r].kind \in Interiors /\ Size(V[r]) = 0 /\ s = V[r].links[1]

(* The only child s of root r becomes the root.                               *)
Lifted(V, V2, U, r, s) ==
  /\ OnlyChild(V, r, s)
  /\ \E kind \in {"Root", "RootLeaf"} : \E q : Recast(V2[s], V[s], kind, q)
  /\ \A n \in U \ {r, s} : V2[n] = V[n]

(* The root goes that a join has left with one link.                           *)
Alike(n2, n) ==
  /\ n2.links = n.links /\ Size(n2) = Size(n)
  /\ (n2.kind \in Leaves) = (n.kind \in Leaves)
  /\ (n2.kind \in Interiors) = (n.kind \in Interiors)
  /\ \A l, h, i : Fence(n2, l, h, i) = Fence(n, l, h, i)
  /\ \A k : ValueIn(n2, k) = ValueIn(n, k)

(* An only child in place of the root: a search tree with the same map.       *)
LEMMA TreeShrink ==
  ASSUME NEW V, NEW V2, NEW U, NEW r, NEW lo, NEW hi, NEW ht,
         Tree(V, U, r, lo, hi, ht), NEW s, Lifted(V, V2, U, r, s),
         NEW map, Holds(V, U, lo, hi, map)
  PROVE  Tree(V2, U \ {r}, s, lo, hi, ht) /\ Holds(V2, U \ {r}, lo, hi, map)
<1>0. /\ V[r].kind \in Interiors /\ Size(V[r]) = 0 /\ s = V[r].links[1]
      /\ \A n \in U \ {r, s} : V2[n] = V[n]
  BY DEF OnlyChild, Lifted
<1>j. PICK kind \in {"Root", "RootLeaf"} : \E q : Recast(V2[s], V[s], kind, q)
  BY DEF Lifted
<1>k. PICK q : Recast(V2[s], V[s], kind, q)
  BY <1>j
<1> USE <1>0, <1>k
<1> DEFINE U2 == U \ {r}
<1>1. /\ r \in U /\ lo[r] = 0 /\ hi[r] = Max(Keys) + 1
      /\ \A n \in U \ {r} : ht[n] < ht[r]
  BY DEF Tree, RootOK
<1>2. 1 \in 1 .. Size(V[r]) + 1 /\ 1 - 1 = 0 /\ Size(V[r]) + 1 = 1
  OBVIOUS
<1>3. /\ s \in U /\ s # r /\ V[s].parent = r /\ ht[r] = ht[s] + 1
      /\ lo[s] = lo[r] /\ hi[s] = hi[r]
  <2>1. /\ s \in U /\ s # r /\ V[s].parent = r /\ ht[r] = ht[s] + 1
        /\ lo[s] = Fence(V[r], lo[r], hi[r], 0) /\ hi[s] = Fence(V[r], lo[r], hi[r], 1)
    BY <1>1, <1>2, TreeChild
  <2> QED
    BY <1>2, <2>1 DEF Fence
<1>4. ASSUME NEW n \in U2, V[n].parent = r PROVE n = s
  <2>1. PICK i \in 1 .. Size(V[r]) + 1 : V[r].links[i] = n
    BY <1>4, TreeParent
  <2>2. i = 1
    BY <1>2
  <2> QED
    BY <2>1, <2>2
<1>5. ASSUME NEW n \in U2 \ {s}
      PROVE  /\ V[n].parent \in U2 /\ ht[n] < ht[s] /\ V2[n] = V[n]
  <2>1. V[n].parent \in U /\ ht[V[n].parent] = ht[n] + 1
    BY <1>5, TreeParent
  <2>2. V[n].parent # r
    BY <1>4, <1>5
  <2>3. ht[V[n].parent] < ht[r] /\ ht[n] \in Nat /\ ht[s] \in Nat
    BY <1>1, <1>3, <2>1, <2>2, TreePage
  <2> QED
    BY <1>3, <1>5, <2>1, <2>2, <2>3
<1>6. /\ V[s] \in Node /\ V[s].number = s /\ Shape(V[s]) /\ Ordered(V[s], lo[s], hi[s])
      /\ (V[s].kind \in Leaves) = (ht[s] = 0)
  BY <1>3, TreePage
<1>7. /\ V2[s] \in Node /\ V2[s].kind = kind /\ V2[s].number = s
      /\ V2[s].links = V[s].links /\ Size(V2[s]) = Size(V[s]) /\ Shape(V2[s])
      /\ (V2[s].kind \in Leaves) = (V[s].kind \in Leaves)
      /\ (V2[s].kind \in Interiors) = (V[s].kind \in Interiors)
      /\ Ordered(V2[s], lo[s], hi[s])
      /\ \A l, h, i : Fence(V2[s], l, h, i) = Fence(V[s], l, h, i)
      /\ \A k : ValueIn(V2[s], k) = ValueIn(V[s], k)
  <2>1. /\ V2[s] \in Node /\ V2[s].kind = kind /\ V2[s].number = V[s].number
        /\ V2[s].links = V[s].links /\ Size(V2[s]) = Size(V[s]) /\ Shape(V2[s])
        /\ (V2[s].kind \in Leaves) = (V[s].kind \in Leaves)
        /\ (V2[s].kind \in Interiors) = (V[s].kind \in Interiors)
    BY SMTT(30), <1>6, RecastAlike
  <2>2. \A l, h : Ordered(V2[s], l, h) = Ordered(V[s], l, h)
    BY <1>6, RecastAlike
  <2>3. Ordered(V2[s], lo[s], hi[s])
    <3>1. Ordered(V[s], lo[s], hi[s])
      BY <1>6
    <3> QED
      BY <2>2, <3>1
  <2>4. \A l, h, i : Fence(V2[s], l, h, i) = Fence(V[s], l, h, i)
    BY <1>6, RecastAlike
  <2>5. \A k : ValueIn(V2[s], k) = ValueIn(V[s], k)
    BY <1>6, RecastAlike
  <2>6. V2[s].number = s
    BY <1>6, <2>1
  <2> QED
    BY <2>1, <2>3, <2>4, <2>5, <2>6
<1>a. \A n \in U2 : Alike(V2[n], V[n])
  <2>1. Alike(V2[s], V[s])
    BY <1>7 DEF Alike
  <2>2. ASSUME NEW n \in U2 \ {s} PROVE Alike(V2[n], V[n])
    BY <1>5 DEF Alike
  <2> QED
    BY <2>1, <2>2
<1>8. \A n \in U2 : /\ V2[n].links = V[n].links /\ Size(V2[n]) = Size(V[n])
                    /\ (V2[n].kind \in Leaves) = (V[n].kind \in Leaves)
                    /\ (V2[n].kind \in Interiors) = (V[n].kind \in Interiors)
                    /\ \A l, h, i : Fence(V2[n], l, h, i) = Fence(V[n], l, h, i)
                    /\ \A k : ValueIn(V2[n], k) = ValueIn(V[n], k)
  BY <1>a DEF Alike
<1>9. RootOK(U2, s, lo, hi, ht)
  BY SMTT(30), <1>1, <1>3, <1>5 DEF RootOK
<1>10. ASSUME NEW n \in U2 PROVE PageOK(V2, s, lo, hi, ht, n)
  <2>1. CASE n = s
    BY <1>6, <1>7, <2>1 DEF PageOK
  <2>2. CASE n # s
    <3>1. V2[n] = V[n]
      BY <1>5, <2>2
    <3> QED
      BY <2>2, <3>1, TreePage DEF PageOK
  <2> QED
    BY <2>1, <2>2
<1>11. ASSUME NEW n \in U2 PROVE ChildrenOK(V2, U2, lo, hi, ht, n)
  <2> SUFFICES ASSUME V2[n].kind \in Interiors,
                      NEW i \in 1 .. Size(V2[n]) + 1, NEW c, c = V2[n].links[i]
               PROVE  /\ c \in U2 /\ V2[c].parent = n
                      /\ ht[n] = ht[c] + 1
                      /\ lo[c] = Fence(V2[n], lo[n], hi[n], i - 1)
                      /\ hi[c] = Fence(V2[n], lo[n], hi[n], i)
    BY DEF ChildrenOK
  <2>1. /\ c \in U /\ c # r /\ V[c].parent = n /\ ht[n] = ht[c] + 1
        /\ lo[c] = Fence(V[n], lo[n], hi[n], i - 1)
        /\ hi[c] = Fence(V[n], lo[n], hi[n], i)
    BY <1>8, TreeChild
  <2>2. c # s
    BY <1>3, <2>1
  <2>3. V2[c] = V[c]
    BY <2>1, <2>2
  <2> QED
    BY <1>8, <2>1, <2>3
<1>12. ASSUME NEW n \in U2 \ {s} PROVE ParentOK(V2, U2, n)
  <2>1. ParentOK(V, U, n)
    BY DEF Tree
  <2>2. V[n].parent \in U2 /\ V2[n] = V[n]
    BY <1>5
  <2> QED
    BY <1>8, <2>1, <2>2 DEF ParentOK
<1>13. Apart(U2, lo, hi, ht)
  BY DEF Tree, Apart
<1>14. Tree(V2, U2, s, lo, hi, ht)
  BY <1>9, <1>10, <1>11, <1>12, <1>13 DEF Tree
<1>15. Holds(V2, U2, lo, hi, map)
  BY <1>8 DEF Holds
<1> QED
  BY <1>14, <1>15

-------------------------------------------------------------------------------
(* What the operations of b-tree.c make of a tree of pages: an update of a   *)
(* leaf, a split with and without a new root, a redistribution, a merge with *)
(* and without the loss of the root.  Each takes a search tree that holds a  *)
(* map to one that holds the map of the call.                                *)

(* The pages V in use U, with root r, are a search tree that holds the map.    *)
TreeOf(V, U, r, map) ==
  \E lo, hi, ht \in [Numbers -> Nat] : Tree(V, U, r, lo, hi, ht) /\ Holds(V, U, lo, hi, map)

(* The map after a call.                                                       *)
With(map, k, v) == [map EXCEPT ![k] = v]

(* Bounds and heights that exist can be named.                                *)
LEMMA TreeOfIs ==
  ASSUME NEW V, NEW U, NEW r, NEW lo, NEW hi, NEW ht, NEW map,
         Tree(V, U, r, lo, hi, ht), Holds(V, U, lo, hi, map)
  PROVE  TreeOf(V, U, r, map)
<1>1. lo \in [Numbers -> Nat] /\ hi \in [Numbers -> Nat] /\ ht \in [Numbers -> Nat]
  BY DEF Tree
<1> QED
  BY <1>1 DEF TreeOf

(* Other pages do not matter to the tree.                                     *)
LEMMA TreeOfSame ==
  ASSUME NEW V, NEW V2, NEW U, NEW r, NEW map, TreeOf(V, U, r, map),
         \A n \in U : V2[n] = V[n]
  PROVE  TreeOf(V2, U, r, map)
<1>1. PICK lo, hi, ht : Tree(V, U, r, lo, hi, ht) /\ Holds(V, U, lo, hi, map)
  BY DEF TreeOf
<1>2. Tree(V2, U, r, lo, hi, ht) /\ Holds(V2, U, lo, hi, map)
  BY <1>1, TreeSame, HoldsSame
<1> QED
  BY <1>2, TreeOfIs

-------------------------------------------------------------------------------
(* Links that come and go *)

(* The parent of a page that is cut takes the new page behind it.              *)
LEMMA CutWidens ==
  ASSUME NEW V, NEW U, NEW r, NEW lo, NEW hi, NEW ht, Tree(V, U, r, lo, hi, ht),
         NEW x \in U, x # r, NEW P, P = V[x].parent,
         NEW sep \in Keys, lo[x] < sep, sep < hi[x], NEW m \in Numbers
  PROVE  \E p \in 1 .. Size(V[P]) + 1 :
           /\ V[P].links[p] = x
           /\ Widened(V[P], InsertIntoIntermediate(V[P], sep, m), p, sep, m, lo[P], hi[P])
<1>1. /\ P \in U /\ V[P].kind \in Interiors
      /\ \E i \in 1 .. Size(V[P]) + 1 : V[P].links[i] = x
  BY TreeParent
<1>2. PICK p \in 1 .. Size(V[P]) + 1 : V[P].links[p] = x
  BY <1>1
<1>3. /\ lo[x] = Fence(V[P], lo[P], hi[P], p - 1)
      /\ hi[x] = Fence(V[P], lo[P], hi[P], p)
  BY <1>1, <1>2, TreeChild
<1>4. /\ V[P] \in Node /\ Shape(V[P]) /\ Ordered(V[P], lo[P], hi[P])
      /\ lo[P] \in Nat /\ hi[P] \in Nat
  BY <1>1, TreePage
<1>5. Widened(V[P], InsertIntoIntermediate(V[P], sep, m), p, sep, m, lo[P], hi[P])
  BY <1>1, <1>3, <1>4, InsertWidens
<1> QED
  BY <1>2, <1>5

(* Neighbours and the key between them.                                        *)
Neighbours(V, U, r, lo, hi, ht, P, p, x, m) ==
  /\ x \in U /\ m \in U /\ x # m /\ x # r /\ m # r /\ x # P /\ m # P
  /\ V[x].parent = P /\ V[m].parent = P /\ ht[x] = ht[m]
  /\ V[P].keys[p] \in Keys /\ hi[x] = V[P].keys[p] /\ lo[m] = V[P].keys[p]
  /\ V[x].kind = V[m].kind
  /\ KeyBehind(V[P], x) = V[P].keys[p]
  /\ Widened(DeleteKeyIntermediate(V[P], x), V[P], p, V[P].keys[p], m, lo[P], hi[P])

(* Two links that follow each other in a node lead to neighbours.             *)
LEMMA NeighboursAre ==
  ASSUME NEW V, NEW U, NEW r, NEW lo, NEW hi, NEW ht, Tree(V, U, r, lo, hi, ht),
         NEW P \in U, V[P].kind \in Interiors, NEW p \in 1 .. Size(V[P]),
         NEW x, x = V[P].links[p], NEW m, m = V[P].links[p + 1]
  PROVE  Neighbours(V, U, r, lo, hi, ht, P, p, x, m)
<1>1. /\ V[P] \in Node /\ Shape(V[P]) /\ Ordered(V[P], lo[P], hi[P])
      /\ lo[P] \in Nat /\ hi[P] \in Nat /\ Size(V[P]) \in Nat
  BY TreePage
<1>2. p \in 1 .. Size(V[P]) + 1 /\ p + 1 \in 1 .. Size(V[P]) + 1 /\ (p + 1) - 1 = p
      /\ p # p + 1
  BY <1>1
<1>3. /\ x \in U /\ x # r /\ x # P /\ V[x].parent = P /\ ht[P] = ht[x] + 1
      /\ hi[x] = Fence(V[P], lo[P], hi[P], p)
  BY <1>2, TreeChild
<1> DEFINE p1 == p + 1
<1>4. p1 \in 1 .. Size(V[P]) + 1 /\ m = V[P].links[p1]
  BY <1>2
<1>5. p1 - 1 = p
  BY <1>2
<1> HIDE DEF p1
<1>6. /\ m \in U /\ m # r /\ m # P /\ V[m].parent = P /\ ht[P] = ht[m] + 1
      /\ lo[m] = Fence(V[P], lo[P], hi[P], p1 - 1)
  BY <1>4, TreeChild
<1>7. x # m
  <2> SUFFICES ASSUME x = m PROVE FALSE
    OBVIOUS
  <2>1. p = p1
    BY <1>2, <1>4, LinksDiffer
  <2> QED
    BY <1>2, <2>1 DEF p1
<1>8. Fence(V[P], lo[P], hi[P], p) = V[P].keys[p] /\ V[P].keys[p] \in Keys
  <2>1. p # 0 /\ p # Size(V[P]) + 1
    BY <1>1
  <2> QED
    BY <1>1, <2>1, NodeFields DEF Fence
<1>9. ht[x] = ht[m]
  <2>1. ht[x] \in Nat /\ ht[m] \in Nat
    BY <1>3, <1>6, TreePage
  <2> QED
    BY <1>3, <1>6, <2>1
<1>10. V[x].kind = V[m].kind
  <2>1. /\ V[x].kind \in Leaves \union Interiors /\ V[m].kind \in Leaves \union Interiors
        /\ (V[x].kind \in Leaves) = (ht[x] = 0) /\ (V[m].kind \in Leaves) = (ht[m] = 0)
        /\ V[x].kind \notin {"Root", "RootLeaf"} /\ V[m].kind \notin {"Root", "RootLeaf"}
    BY <1>3, <1>6, TreePage
  <2> QED
    BY <1>9, <2>1 DEF Leaves, Interiors
<1>11. \A j \in 1 .. Size(V[P]) + 1 : V[P].links[j] = V[P].links[p] => j = p
  BY <1>2, LinksDiffer
<1>12. KeyBehind(V[P], x) = V[P].keys[p]
  <2>1. V[P].links \in Seq(Numbers) /\ Len(V[P].links) = Size(V[P]) + 1
    BY <1>1, NodeFields DEF Shape
  <2>2. IndexIn(V[P].links, V[P].links[p]) = p
    BY <1>2, <1>11, <2>1, IndexInIs
  <2> QED
    BY <2>2, KeyBehindAt
<1>13. Widened(DeleteKeyIntermediate(V[P], x), V[P], p, V[P].keys[p], m, lo[P], hi[P])
  BY <1>1, <1>11, DeleteWidens
<1> QED
  BY <1>3, <1>5, <1>6, <1>7, <1>8, <1>9, <1>10, <1>12, <1>13 DEF Neighbours

(* Nodes are equal when their fields are.                                     *)
LEMMA NodesEqual ==
  ASSUME NEW n \in Node, NEW n2 \in Node,
         n.kind = n2.kind, n.number = n2.number, n.parent = n2.parent,
         n.keys = n2.keys, n.vals = n2.vals, n.links = n2.links
  PROVE  n = n2
<1>1. n = [kind |-> n.kind, number |-> n.number, parent |-> n.parent,
           keys |-> n.keys, vals |-> n.vals, links |-> n.links]
  BY DEF Node
<1>2. n2 = [kind |-> n2.kind, number |-> n2.number, parent |-> n2.parent,
            keys |-> n2.keys, vals |-> n2.vals, links |-> n2.links]
  BY DEF Node
<1> QED
  BY <1>1, <1>2

(* The fields of a blank page.                                                *)
LEMMA BlankIs ==
  /\ Blank \in Node /\ Blank.kind = "None" /\ Blank.number = 0 /\ Blank.parent = 0
  /\ Blank.keys = <<>> /\ Blank.vals = <<>> /\ Blank.links = <<>>
<1>1. /\ <<>> \in Seq(Keys) /\ <<>> \in Seq(Values) /\ <<>> \in Seq(Numbers)
      /\ 0 \in Numbers
  BY DEF Numbers
<1>2. PICK e : e = <<>>
  OBVIOUS
<1>3. Blank = [kind |-> "None", number |-> 0, parent |-> 0,
               keys |-> e, vals |-> e, links |-> e]
  BY <1>2 DEF Blank
<1>4. Blank \in Node
  BY <1>1, <1>2, <1>3, Kinds DEF Node
<1> QED
  BY <1>4 DEF Blank

(* create_root makes what an insertion into the root with one link makes.     *)
LEMMA CreateRootIs ==
  ASSUME NEW s \in PageNums, NEW k \in Keys, NEW x \in PageNums, NEW m \in PageNums,
         NEW n, n = EmptyRoot(s, x)
  PROVE  InsertIntoIntermediate(n, k, m) = CreateRoot(s, k, x, m)
<1> DEFINE a == InsertAt(<<>>, 1, k)
           b == InsertAt(<<x>>, 2, m)
<1>1. n = [kind |-> "Root", number |-> s, parent |-> 0,
           keys |-> <<>>, vals |-> <<>>, links |-> <<x>>]
  BY DEF EmptyRoot, Blank
<1>2. FindPos(n, k) = 0
  <2>1. n.keys = <<>> /\ n.keys \in Seq(Nat) /\ Size(n) = 0 /\ k \in Nat
    BY <1>1, NumbersAreNat DEF Size
  <2>2. FindPos(n, k) \in 0 .. Size(n)
    BY <2>1, FindPosStops
  <2> QED
    BY <2>1, <2>2
<1>3. a = <<k>>
  <2>1. <<>> \in Seq(Keys) /\ 1 \in 1 .. Len(<<>>) + 1 /\ Len(<<>>) = 0
    OBVIOUS
  <2>2. a \in Seq(Keys) /\ Inserted(a, <<>>, 1, k)
    BY <2>1, InsertAtIs
  <2> HIDE DEF a
  <2>3. Len(a) = 1 /\ a[1] = k
    BY <2>1, <2>2 DEF Inserted
  <2>4. <<k>> \in Seq(Keys) /\ Len(<<k>>) = 1 /\ <<k>>[1] = k
    OBVIOUS
  <2> QED
    BY <2>2, <2>3, <2>4, SeqEqual
<1>4. b = <<x, m>>
  <2>1. <<x>> \in Seq(PageNums) /\ 2 \in 1 .. Len(<<x>>) + 1 /\ Len(<<x>>) = 1 /\ <<x>>[1] = x
    OBVIOUS
  <2>2. b \in Seq(PageNums) /\ Inserted(b, <<x>>, 2, m)
    BY <2>1, InsertAtIs
  <2> HIDE DEF b
  <2>3. Len(b) = 2 /\ b[1] = x /\ b[2] = m
    BY <2>1, <2>2 DEF Inserted
  <2>4. <<x, m>> \in Seq(PageNums) /\ Len(<<x, m>>) = 2 /\ <<x, m>>[1] = x /\ <<x, m>>[2] = m
    OBVIOUS
  <2> QED
    BY <2>2, <2>3, <2>4, SeqEqual
<1> HIDE DEF a, b
<1>5. a \in Seq(Keys) /\ b \in Seq(Numbers) /\ s \in Numbers
  BY <1>3, <1>4 DEF Numbers
<1>6. CreateRoot(s, k, x, m) = [Blank EXCEPT !.kind = "Root", !.number = s,
                                               !.keys = a, !.links = b]
  BY <1>3, <1>4 DEF CreateRoot
<1>7. InsertIntoIntermediate(n, k, m) = [n EXCEPT !.keys = a, !.links = b]
  <2>1. n.keys = <<>> /\ n.links = <<x>>
    BY <1>1
  <2>2. InsertIntoIntermediate(n, k, m) =
          [n EXCEPT !.keys = InsertAt(<<>>, FindPos(n, k) + 1, k),
                    !.links = InsertAt(<<x>>, (FindPos(n, k) + 1) + 1, m)]
    BY <2>1 DEF InsertIntoIntermediate
  <2>3. FindPos(n, k) + 1 = 1 /\ (FindPos(n, k) + 1) + 1 = 2
    BY <1>2
  <2> QED
    BY <2>2, <2>3 DEF a, b
<1>8. n \in Node /\ n.kind = "Root" /\ n.number = s /\ n.parent = 0 /\ n.vals = <<>>
  <2>1. n \in Node
    BY EmptyRootIs
  <2> QED
    BY <1>1, <2>1
<1> DEFINE n1 == InsertIntoIntermediate(n, k, m)
           n2 == CreateRoot(s, k, x, m)
<1>9. /\ n1 \in Node /\ n1.kind = "Root" /\ n1.number = s /\ n1.parent = 0
      /\ n1.keys = a /\ n1.vals = <<>> /\ n1.links = b
  BY <1>5, <1>7, <1>8 DEF Node
<1>10. PICK e \in Node : e = Blank
  BY BlankIs
<1>11. n2 = [e EXCEPT !.kind = "Root", !.number = s, !.keys = a, !.links = b]
  BY <1>6, <1>10
<1>12. n2 \in Node
  BY <1>5, <1>11, Kinds DEF Node
<1>13. /\ n2.kind = "Root" /\ n2.number = s /\ n2.parent = e.parent
       /\ n2.keys = a /\ n2.vals = e.vals /\ n2.links = b
  BY <1>11 DEF Node
<1>14. e.parent = 0 /\ e.vals = <<>>
  BY <1>10, BlankIs
<1> HIDE DEF n1, n2
<1>15. n1 = n2
  BY <1>9, <1>12, <1>13, <1>14, NodesEqual
<1> QED
  BY <1>15 DEF n1, n2

-------------------------------------------------------------------------------
(* Splits and merges of pages *)

(* A page in two, the second under a new number, which its parent takes up.    *)
LEMMA TreeSplit ==
  ASSUME NEW V, NEW V2, NEW U, NEW r, NEW lo, NEW hi, NEW ht,
         Tree(V, U, r, lo, hi, ht),
         NEW x \in U, x # r, NEW P, P = V[x].parent, NEW m \in PageNums, m \notin U,
         NEW c, NEW sep, Parted(V[x], V2[x], V2[m], c, lo[x], sep, hi[x]),
         V2[m].number = m, V2[P] = InsertIntoIntermediate(V[P], sep, m),
         \A n \in U \ {x, P} :
           Moved(V2[n], V[n], IF n \in Under(V2[m]) THEN m ELSE V[n].parent),
         NEW map, Holds(V, U, lo, hi, map)
  PROVE  TreeOf(V2, U \union {m}, r, map)
<1>1. P \in U
  BY TreeParent
<1>2. sep \in Keys /\ lo[x] < sep /\ sep < hi[x]
  BY PartedIs DEF Halves
<1>3. m \in Numbers
  BY DEF Numbers
<1>4. PICK p \in 1 .. Size(V[P]) + 1 :
        /\ V[P].links[p] = x
        /\ Widened(V[P], InsertIntoIntermediate(V[P], sep, m), p, sep, m, lo[P], hi[P])
  BY <1>2, <1>3, CutWidens
<1>5. CutApart(V, V2, U, x, m, P, p, c, lo[x], sep, hi[x], lo[P], hi[P])
  BY <1>1, <1>4 DEF CutApart
<1>6. PICK lo2, hi2, ht2 : CutBounds(lo2, hi2, ht2, lo, hi, ht, x, m, sep)
  BY DEF CutBounds
<1>7. Tree(V2, U \union {m}, r, lo2, hi2, ht2)
  BY <1>5, <1>6, TreeCut
<1>8. Holds(V2, U \union {m}, lo2, hi2, map)
  BY <1>5, <1>6, HoldsCut
<1> QED
  BY <1>7, <1>8, TreeOfIs

(* Two neighbours in one: the parent loses the key between them and the link   *)
(* to the second.                                                              *)
LEMMA TreeMerge ==
  ASSUME NEW V, NEW V2, NEW U, NEW r, NEW lo, NEW hi, NEW ht,
         Tree(V, U, r, lo, hi, ht),
         NEW P \in U, V[P].kind \in Interiors, NEW p \in 1 .. Size(V[P]),
         NEW x, x = V[P].links[p], NEW m, m = V[P].links[p + 1],
         NEW c, Parted(V2[x], V[x], V[m], c, lo[x], hi[x], hi[m]),
         V2[P] = DeleteKeyIntermediate(V[P], x),
         \A n \in U \ {x, m, P} :
           Moved(V2[n], V[n], IF n \in Under(V[m]) THEN x ELSE V[n].parent),
         NEW hi2, hi2 = [hi EXCEPT ![x] = hi[m]],
         NEW map, Holds(V, U, lo, hi, map)
  PROVE  Tree(V2, U \ {m}, r, lo, hi2, ht) /\ Holds(V2, U \ {m}, lo, hi2, map)
<1>1. /\ x \in U /\ m \in U /\ x # m /\ hi[x] = V[P].keys[p] /\ lo[m] = hi[x]
      /\ Widened(DeleteKeyIntermediate(V[P], x), V[P], p, V[P].keys[p], m, lo[P], hi[P])
  <2>1. Neighbours(V, U, r, lo, hi, ht, P, p, x, m)
    BY NeighboursAre
  <2> QED
    BY <2>1 DEF Neighbours
<1>2. PutTogether(V, V2, U, x, m, P, p, c, lo[x], hi[x], hi[m], lo[P], hi[P])
  BY <1>1 DEF PutTogether
<1>3. Tree(V2, U \ {m}, r, lo, hi2, ht)
  BY <1>2, TreeJoin
<1>4. Holds(V2, U \ {m}, lo, hi2, map)
  BY <1>1, <1>2, HoldsJoin
<1> QED
  BY <1>3, <1>4

-------------------------------------------------------------------------------
(* Splits *)

(* A page that is left alone is where it was.                                 *)
LEMMA StaysMoved ==
  ASSUME NEW V, NEW U, NEW r, NEW lo, NEW hi, NEW ht, Tree(V, U, r, lo, hi, ht), NEW n \in U
  PROVE  Moved(V[n], V[n], V[n].parent)
<1>1. V[n] \in Node /\ V[n].parent \in Numbers
  BY TreePage, NodeFields
<1> QED
  BY <1>1, ReparentMoves

(* The page has no entry of the key.                                           *)
Misses(n, k) == \A i \in 1 .. Size(n) : n.keys[i] # k

(* The pages of a division.                                                    *)
Divided(L, R, x, m, kind, a, b) ==
  /\ L \in Node /\ Shape(L) /\ L.kind = kind /\ L.number = x /\ Size(L) = a
  /\ R \in Node /\ Shape(R) /\ R.kind = kind /\ R.number = m /\ Size(R) = b

(* divide_leaf, of x with parent P.                                            *)
SplitsLeaf(V, V2, U, x, k, v, P, m, d) ==
  /\ d = DivideLeaf(V[x], k, v, m)
  /\ V2[x] = d.p /\ V2[m] = d.s
  /\ V2[P] = InsertIntoIntermediate(V[P], Head(d.s.keys), m)
  /\ \A n \in U \ {x, P} : V2[n] = V[n]

(* A full leaf that takes a key, in two.                                       *)
LEMMA LeafSplitTree ==
  ASSUME NEW V, NEW V2, NEW U, NEW r, NEW lo, NEW hi, NEW ht,
         Tree(V, U, r, lo, hi, ht),
         NEW x \in U, x # r, V[x].kind \in Leaves, Size(V[x]) = NodesUp,
         NEW k \in Keys, Answers(lo, hi, x, k), Misses(V[x], k),
         NEW v \in Values, NEW P, P = V[x].parent, NEW m \in PageNums, m \notin U,
         NEW d, SplitsLeaf(V, V2, U, x, k, v, P, m, d),
         NEW map \in [Keys -> Values \union {Absent}], Holds(V, U, lo, hi, map)
  PROVE  /\ TreeOf(V2, U \union {m}, r, With(map, k, v))
         /\ Divided(d.p, d.s, x, m, "Leaf", NodesDown, NodesDown + 1)
         /\ Head(d.s.keys) \in Keys
<1>0. PICK sep : sep = Head(d.s.keys)
  OBVIOUS
<1>d. /\ d = DivideLeaf(V[x], k, v, m)
      /\ V2[x] = d.p /\ V2[m] = d.s
      /\ V2[P] = InsertIntoIntermediate(V[P], sep, m)
      /\ \A n \in U \ {x, P} : V2[n] = V[n]
  BY <1>0 DEF SplitsLeaf
<1>e. /\ \A i \in 1 .. Size(V[x]) : V[x].keys[i] # k
      /\ lo[x] <= k /\ k < hi[x]
  BY DEF Misses, Answers
<1> USE <1>0, <1>d, <1>e
<1> DEFINE N == InsertIntoLeaf(V[x], k, v)
           V1 == [n \in Numbers |-> IF n = x THEN N ELSE V[n]]
           map2 == With(map, k, v)
<1>1. /\ V[x] \in Node /\ Shape(V[x]) /\ Ordered(V[x], lo[x], hi[x])
      /\ lo[x] \in Nat /\ hi[x] \in Nat /\ V[x].kind = "Leaf" /\ V[x].number = x
  <2>1. /\ V[x] \in Node /\ Shape(V[x]) /\ Ordered(V[x], lo[x], hi[x])
        /\ lo[x] \in Nat /\ hi[x] \in Nat /\ V[x].number = x
        /\ (V[x].kind \in {"Root", "RootLeaf"}) = (x = r)
    BY TreePage
  <2> QED
    BY <2>1 DEF Leaves
<1>2. m \in Numbers /\ U \subseteq Numbers /\ x # m
  BY DEF Tree, Numbers
<1>3. /\ Updated(V[x], N, k, v, 1, lo[x], hi[x])
      /\ LeafHalves(N, d.p, d.s, NodesDown, lo[x], sep, hi[x]) /\ d.s.number = m
  BY <1>1, <1>2, DivideLeafHalves
<1> HIDE DEF N
<1>4. V1[x] = N /\ \A n \in U \ {x} : V1[n] = V[n]
  BY <1>2
<1> HIDE DEF V1
<1>5. Tree(V1, U, r, lo, hi, ht) /\ Holds(V1, U, lo, hi, map2)
  <2>1. Updated(V[x], V1[x], k, v, 1, lo[x], hi[x])
    BY <1>3, <1>4
  <2>2. /\ Tree(V1, U, r, lo, hi, ht)
        /\ \A mp \in [Keys -> Values \union {Absent}] :
             Holds(V, U, lo, hi, mp) => Holds(V1, U, lo, hi, [mp EXCEPT ![k] = v])
    BY <1>4, <2>1, LeafUpdate
  <2> QED
    BY <2>2 DEF With
<1>6. P \in U /\ P # x
  BY TreeParent
<1>7. N.parent = P /\ N.kind = "Leaf" /\ N.number = x /\ Size(N) = NodesUp + 1
  BY <1>1, <1>3 DEF Updated
<1>8. Halves(N, d.p, d.s, NodesDown, lo[x], sep, hi[x]) /\ Size(d.s) = Size(N) - NodesDown
  BY <1>3 DEF LeafHalves
<1>9. /\ sep \in Keys /\ Size(d.p) = NodesDown /\ d.p \in Node /\ d.s \in Node
      /\ d.p.kind = "Leaf" /\ d.s.kind = "Leaf" /\ d.p.number = x
  BY <1>7, <1>8 DEF Halves
<1>10. Size(d.s) = NodesDown + 1
  <2>1. NodesUp = 2 * NodesDown /\ NodesDown \in Nat
    BY NodesDownIs
  <2> QED
    BY <1>7, <1>8, <2>1
<1>11. Under(V2[m]) = {}
  BY <1>9, Kinds DEF Under
<1>12. ASSUME NEW n \in U \ {x, P}
       PROVE  Moved(V2[n], V1[n], IF n \in Under(V2[m]) THEN m ELSE V1[n].parent)
  <2>1. V2[n] = V1[n]
    BY <1>4
  <2>2. Moved(V1[n], V1[n], V1[n].parent)
    BY <1>5, StaysMoved
  <2> QED
    BY <1>11, <2>1, <2>2
<1>13. Parted(V1[x], V2[x], V2[m], NodesDown, lo[x], sep, hi[x])
  BY <1>3, <1>4 DEF Parted
<1>14. /\ V1[x].parent = P /\ V2[m].number = m
       /\ V2[P] = InsertIntoIntermediate(V1[P], sep, m)
  BY <1>3, <1>4, <1>6, <1>7
<1> HIDE DEF map2
<1>15. TreeOf(V2, U \union {m}, r, map2)
  BY <1>5, <1>12, <1>13, <1>14, TreeSplit
<1>16. Shape(d.p) /\ Shape(d.s)
  BY <1>8 DEF Halves
<1>17. Divided(d.p, d.s, x, m, "Leaf", NodesDown, NodesDown + 1)
  BY <1>3, <1>9, <1>10, <1>16 DEF Divided
<1> QED
  BY <1>9, <1>15, <1>17 DEF map2

(* Pages x and P of a divided inner page, new page m, and children moved.      *)
SplitsNode(V, V2, U, x, n, k, link, P, m, d) ==
  /\ d = DivideIntermediate(n, k, link, m)
  /\ V2[x] = d.p /\ V2[m] = d.s
  /\ V2[P] = InsertIntoIntermediate(V[P], d.key, m)
  /\ \A c \in U \ {x, P} :
       V2[c] = IF c \in Under(d.s) THEN [V[c] EXCEPT !.parent = m] ELSE V[c]

(* An inner page n that is to take a key and a link more than it can.          *)
Taking(n, kind, k, link, n2) ==
  /\ n \in Node /\ n.kind = kind /\ Size(n) = NodesUp
  /\ n2 = InsertIntoIntermediate(n, k, link)
  /\ n2.kind = kind /\ Size(n2) = NodesUp + 1

(* ... in two.                                                                 *)
LEMMA NodeSplitTree ==
  ASSUME NEW V, NEW V2, NEW U, NEW r, NEW lo, NEW hi, NEW ht,
         Tree(V, U, r, lo, hi, ht),
         NEW x \in U, x # r, NEW n, NEW k, NEW link,
         Taking(n, "Intermediate", k, link, V[x]),
         NEW P, P = V[x].parent, NEW m \in PageNums, m \notin U,
         NEW d, SplitsNode(V, V2, U, x, n, k, link, P, m, d),
         NEW map, Holds(V, U, lo, hi, map)
  PROVE  /\ TreeOf(V2, U \union {m}, r, map)
         /\ Divided(d.p, d.s, x, m, "Intermediate", NodesDown, NodesDown)
         /\ d.key \in Keys
<1>d. /\ d = DivideIntermediate(n, k, link, m)
      /\ V2[x] = d.p /\ V2[m] = d.s
      /\ V2[P] = InsertIntoIntermediate(V[P], d.key, m)
      /\ \A c \in U \ {x, P} :
           V2[c] = IF c \in Under(d.s) THEN [V[c] EXCEPT !.parent = m] ELSE V[c]
  BY DEF SplitsNode
<1>e. /\ n \in Node /\ n.kind = "Intermediate" /\ Size(n) = NodesUp
      /\ V[x] = InsertIntoIntermediate(n, k, link)
      /\ V[x].kind = "Intermediate" /\ Size(V[x]) = NodesUp + 1
  BY DEF Taking
<1> USE <1>d, <1>e
<1>1. /\ V[x] \in Node /\ Shape(V[x]) /\ Ordered(V[x], lo[x], hi[x])
      /\ lo[x] \in Nat /\ hi[x] \in Nat /\ V[x].number = x
  BY TreePage
<1>2. m \in Numbers /\ U \subseteq Numbers /\ x # m
  BY DEF Tree, Numbers
<1>3. /\ InnerHalves(V[x], d.p, d.s, NodesDown, lo[x], d.key, hi[x]) /\ d.s.number = m
  BY <1>1, <1>2, DivideIntermediateHalves
<1>4. /\ Halves(V[x], d.p, d.s, NodesDown, lo[x], d.key, hi[x])
      /\ Size(d.s) = Size(V[x]) - NodesDown - 1
  BY <1>3 DEF InnerHalves
<1>5. /\ d.key \in Keys /\ Size(d.p) = NodesDown /\ d.p \in Node /\ d.s \in Node
      /\ d.p.kind = "Intermediate" /\ d.s.kind = "Intermediate" /\ d.p.number = x
      /\ Shape(d.p) /\ Shape(d.s)
  BY <1>1, <1>4 DEF Halves
<1>6. Size(d.s) = NodesDown
  <2>1. NodesUp = 2 * NodesDown /\ NodesDown \in Nat
    BY NodesDownIs
  <2> QED
    BY <1>4, <2>1
<1>7. ASSUME NEW c \in U \ {x, P}
      PROVE  Moved(V2[c], V[c], IF c \in Under(V2[m]) THEN m ELSE V[c].parent)
  <2>1. V[c] \in Node
    BY TreePage
  <2>2. Moved([V[c] EXCEPT !.parent = m], V[c], m) /\ Moved(V[c], V[c], V[c].parent)
    BY <1>2, <2>1, ReparentMoves
  <2>3. CASE c \in Under(d.s)
    <3>1. V2[c] = [V[c] EXCEPT !.parent = m]
      BY <2>3
    <3> QED
      BY <2>2, <2>3, <3>1
  <2>4. CASE c \notin Under(d.s)
    BY <2>2, <2>4
  <2> QED
    BY <2>3, <2>4
<1>8. Parted(V[x], V2[x], V2[m], NodesDown, lo[x], d.key, hi[x])
  BY <1>3 DEF Parted
<1>9. V2[m].number = m
  BY <1>3
<1>10. TreeOf(V2, U \union {m}, r, map)
  BY <1>7, <1>8, <1>9, TreeSplit
<1>11. Divided(d.p, d.s, x, m, "Intermediate", NodesDown, NodesDown)
  BY <1>3, <1>5, <1>6 DEF Divided
<1> QED
  BY <1>5, <1>10, <1>11

(* A page that gets another kind and another parent.                          *)
LEMMA RecastIs ==
  ASSUME NEW n \in Node, NEW kind \in Leaves \union Interiors, NEW q \in Numbers,
         (kind \in Leaves) = (n.kind \in Leaves),
         NEW n2, n2 = [n EXCEPT !.kind = kind, !.parent = q]
  PROVE  Recast(n2, n, kind, q)
<1>1. kind \in Leaves \union Interiors \union {"None", "Meta"}
  OBVIOUS
<1>2. /\ n2 \in Node /\ n2.kind = kind /\ n2.number = n.number /\ n2.parent = q
      /\ n2.keys = n.keys /\ n2.vals = n.vals /\ n2.links = n.links
  BY <1>1 DEF Node
<1> QED
  BY <1>2 DEF Recast

(* The fields of a page that is the root no longer.                           *)
LEMMA LoweredIs ==
  ASSUME NEW n \in Node, NEW kind \in {"Leaf", "Intermediate"}, NEW q \in Numbers,
         (kind \in Leaves) = (n.kind \in Leaves),
         NEW n0, n0 = Lowered(n, kind, q)
  PROVE  /\ Recast(n0, n, kind, q)
         /\ n0 \in Node /\ n0.kind = kind /\ n0.number = n.number /\ n0.parent = q
         /\ n0.keys = n.keys /\ n0.vals = n.vals /\ n0.links = n.links /\ Size(n0) = Size(n)
<1>1. kind \in Leaves \union Interiors
  BY DEF Leaves, Interiors
<1>2. Recast(n0, n, kind, q)
  BY <1>1, RecastIs DEF Lowered
<1> QED
  BY <1>2 DEF Recast, Size

(* The two pages of a root leaf r and the root s over them.                    *)
SplitsRootLeaf(V, V2, U, r, k, v, s, m, d) ==
  /\ d = DivideLeaf(V[r], k, v, m)
  /\ V2[r] = Given(d.p, s) /\ V2[m] = Given(d.s, s)
  /\ V2[s] = CreateRoot(s, Head(d.s.keys), r, m)
  /\ \A n \in U \ {r} : V2[n] = V[n]

(* The root leaf is full.                                                      *)
LEMMA RootLeafSplitTree ==
  ASSUME NEW V, NEW V2, NEW U, NEW r, NEW lo, NEW hi, NEW ht,
         Tree(V, U, r, lo, hi, ht),
         V[r].kind \in Leaves, Size(V[r]) = NodesUp,
         NEW k \in Keys, Answers(lo, hi, r, k), Misses(V[r], k),
         NEW v \in Values, NEW m \in PageNums, m \notin U,
         NEW s \in PageNums, s \notin U, s # m,
         NEW d, SplitsRootLeaf(V, V2, U, r, k, v, s, m, d),
         NEW map \in [Keys -> Values \union {Absent}], Holds(V, U, lo, hi, map)
  PROVE  /\ TreeOf(V2, U \union {s, m}, s, With(map, k, v))
         /\ Divided(V2[r], V2[m], r, m, "Leaf", NodesDown, NodesDown + 1)
         /\ Head(d.s.keys) \in Keys
<1>0. PICK n0 : n0 = Lowered(V[r], "Leaf", s)
  OBVIOUS
<1>e. PICK e : e = EmptyRoot(s, r)
  OBVIOUS
<1> DEFINE VG == [n \in Numbers |-> IF n = s THEN e ELSE IF n = r THEN n0 ELSE V[n]]
<1>1. r \in U /\ r # s /\ r # m /\ U \subseteq PageNums /\ U \subseteq Numbers /\ s \in Numbers
  BY DEF Tree, RootOK, Numbers
<1>2. /\ VG[s] = e /\ VG[r] = n0 /\ \A n \in U \ {r} : VG[n] = V[n]
  BY <1>1
<1> HIDE DEF VG
<1>3. /\ V[r] \in Node /\ V[r].number = r
  BY <1>1, TreePage
<1>4. /\ Recast(n0, V[r], "Leaf", s)
      /\ n0 \in Node /\ n0.kind = "Leaf" /\ n0.parent = s
      /\ n0.keys = V[r].keys /\ Size(n0) = Size(V[r])
  <2>1. "Leaf" \in {"Leaf", "Intermediate"} /\ ("Leaf" \in Leaves) = (V[r].kind \in Leaves)
    BY DEF Leaves
  <2> QED
    BY <1>0, <1>1, <1>3, <2>1, LoweredIs
<1>5. PICK lo2, hi2, ht2 : GrowBounds(lo2, hi2, ht2, lo, hi, ht, s, r)
  BY DEF GrowBounds
<1>6. /\ Tree(VG, U \union {s}, s, lo2, hi2, ht2)
      /\ Holds(VG, U \union {s}, lo2, hi2, map)
  <2>1. "Leaf" \in {"Leaf", "Intermediate"} /\ VG[s] = EmptyRoot(s, r)
    BY <1>2, <1>e
  <2>2. Recast(VG[r], V[r], "Leaf", s)
    BY <1>2, <1>4
  <2> QED
    BY <1>2, <1>5, <2>1, <2>2, TreeGrow
<1>7. Answers(lo2, hi2, r, k)
  <2>1. lo \in [Numbers -> Nat] /\ hi \in [Numbers -> Nat]
    BY DEF Tree
  <2>2. lo2[r] = lo[r] /\ hi2[r] = hi[r]
    BY <1>1, <1>5, <2>1 DEF GrowBounds
  <2> QED
    BY <2>2 DEF Answers
<1>8. /\ d = DivideLeaf(V[r], k, v, m)
      /\ V2[r] = Given(d.p, s) /\ V2[m] = Given(d.s, s)
      /\ V2[s] = CreateRoot(s, Head(d.s.keys), r, m)
      /\ \A n \in U \ {r} : V2[n] = V[n]
  BY DEF SplitsRootLeaf
<1>9. PICK d0 : d0 = DivideLeaf(n0, k, v, m)
  OBVIOUS
<1>10. d0.p = Given(d.p, s) /\ d0.s = Given(d.s, s)
  BY <1>0, <1>3, <1>8, <1>9, DivideLeafParent
<1>11. d0.s.keys = d.s.keys
  BY <1>10 DEF Given
<1> DEFINE W == [n \in Numbers |->
                   IF n = s THEN InsertIntoIntermediate(e, Head(d.s.keys), m) ELSE V2[n]]
<1>12. /\ W[s] = InsertIntoIntermediate(e, Head(d.s.keys), m)
       /\ W[r] = V2[r] /\ W[m] = V2[m] /\ \A n \in U \ {r} : W[n] = V2[n]
  BY <1>1 DEF Numbers
<1> HIDE DEF W
<1>13. SplitsLeaf(VG, W, U \union {s}, r, k, v, s, m, d0)
  BY <1>2, <1>8, <1>9, <1>10, <1>11, <1>12 DEF SplitsLeaf
<1>14. /\ TreeOf(W, (U \union {s}) \union {m}, s, With(map, k, v))
       /\ Divided(d0.p, d0.s, r, m, "Leaf", NodesDown, NodesDown + 1)
       /\ Head(d0.s.keys) \in Keys
  <2>1. /\ r \in U \union {s} /\ m \notin U \union {s}
        /\ VG[r].kind \in Leaves /\ Size(VG[r]) = NodesUp /\ s = VG[r].parent
    BY <1>1, <1>2, <1>4 DEF Leaves
  <2>2. Misses(VG[r], k)
    BY <1>2, <1>4 DEF Misses
  <2> QED
    BY ZenonT(60), <1>1, <1>6, <1>7, <1>13, <2>1, <2>2, LeafSplitTree
<1>15. W[s] = V2[s]
  BY <1>1, <1>8, <1>11, <1>12, <1>14, <1>e, CreateRootIs
<1>16. TreeOf(V2, U \union {s, m}, s, With(map, k, v))
  <2>1. (U \union {s}) \union {m} = U \union {s, m}
    OBVIOUS
  <2>2. \A n \in U \union {s, m} : V2[n] = W[n]
    BY <1>12, <1>15
  <2> QED
    BY <1>14, <2>1, <2>2, TreeOfSame
<1> QED
  BY <1>8, <1>10, <1>11, <1>14, <1>16

(* The parent recorded in a node has no part in its links.                    *)
LEMMA UnderGiven ==
  ASSUME NEW n, NEW q, NEW n2, n2 = Given(n, q)
  PROVE  Under(n2) = Under(n)
<1>1. n2.kind = n.kind /\ n2.keys = n.keys /\ n2.links = n.links
  BY DEF Given
<1> QED
  BY <1>1 DEF Under, Size

(* An insertion looks at keys and links only, not at kind or parent.          *)
LEMMA InsertLowered ==
  ASSUME NEW n \in Node, NEW kind, NEW q, NEW k, NEW link,
         NEW n0, n0 = Lowered(n, kind, q),
         NEW n2, n2 = InsertIntoIntermediate(n, k, link)
  PROVE  Lowered(n2, kind, q) = InsertIntoIntermediate(n0, k, link)
<1> DEFINE i == FindPos(n, k) + 1
           a == InsertAt(n.keys, i, k)
           b == InsertAt(n.links, i + 1, link)
<1>1. /\ n0 = [n EXCEPT !.kind = kind, !.parent = q]
      /\ n0.keys = n.keys /\ n0.links = n.links
  BY DEF Lowered, Node
<1>2. FindPos(n0, k) = FindPos(n, k)
  BY <1>1 DEF FindPos, Size
<1>3. n2 = [n EXCEPT !.keys = a, !.links = b]
  BY DEF InsertIntoIntermediate
<1>4. InsertIntoIntermediate(n0, k, link) = [n0 EXCEPT !.keys = a, !.links = b]
  BY <1>1, <1>2 DEF InsertIntoIntermediate
<1> HIDE DEF a, b
<1>5. [[n EXCEPT !.keys = a, !.links = b] EXCEPT !.kind = kind, !.parent = q]
        = [[n EXCEPT !.kind = kind, !.parent = q] EXCEPT !.keys = a, !.links = b]
  BY DEF Node
<1> QED
  BY <1>1, <1>3, <1>4, <1>5 DEF Lowered

(* The two pages of a full root, the root s over them, and the children moved. *)
SplitsRootNode(V, V2, U, r, n, k, link, s, m, d) ==
  /\ d = DivideIntermediate(n, k, link, m)
  /\ V2[r] = Given(d.p, s) /\ V2[m] = Given(d.s, s)
  /\ V2[s] = CreateRoot(s, d.key, r, m)
  /\ \A c \in U \ {r} :
       V2[c] = IF c \in Under(d.s) THEN [V[c] EXCEPT !.parent = m] ELSE V[c]

(* A full inner root is divided under a new root: a search tree one level     *)
(* higher with the same map.                                                  *)
LEMMA RootNodeSplitTree ==
  ASSUME NEW V, NEW V2, NEW U, NEW r, NEW lo, NEW hi, NEW ht,
         Tree(V, U, r, lo, hi, ht),
         NEW n, NEW k, NEW link, Taking(n, "Root", k, link, V[r]),
         NEW m \in PageNums, m \notin U, NEW s \in PageNums, s \notin U, s # m,
         NEW d, SplitsRootNode(V, V2, U, r, n, k, link, s, m, d),
         NEW map, Holds(V, U, lo, hi, map)
  PROVE  /\ TreeOf(V2, U \union {s, m}, s, map)
         /\ Divided(V2[r], V2[m], r, m, "Intermediate", NodesDown, NodesDown)
         /\ d.key \in Keys
<1>0. PICK n0 : n0 = Lowered(V[r], "Intermediate", s)
  OBVIOUS
<1>e. PICK e : e = EmptyRoot(s, r)
  OBVIOUS
<1>n. PICK nn : nn = Lowered(n, "Intermediate", s)
  OBVIOUS
<1> DEFINE VG == [x \in Numbers |-> IF x = s THEN e ELSE IF x = r THEN n0 ELSE V[x]]
<1>1. r \in U /\ r # s /\ r # m /\ U \subseteq PageNums /\ U \subseteq Numbers /\ s \in Numbers
  BY DEF Tree, RootOK, Numbers
<1>2. /\ VG[s] = e /\ VG[r] = n0 /\ \A x \in U \ {r} : VG[x] = V[x]
  BY <1>1
<1> HIDE DEF VG
<1>3. /\ V[r] \in Node /\ V[r].number = r
  BY <1>1, TreePage
<1>t. /\ n \in Node /\ n.kind = "Root" /\ Size(n) = NodesUp
      /\ V[r] = InsertIntoIntermediate(n, k, link)
      /\ V[r].kind = "Root" /\ Size(V[r]) = NodesUp + 1
  BY DEF Taking
<1>4. /\ Recast(n0, V[r], "Intermediate", s)
      /\ n0 \in Node /\ n0.kind = "Intermediate" /\ n0.parent = s /\ Size(n0) = Size(V[r])
  <2>1. /\ "Intermediate" \in {"Leaf", "Intermediate"}
        /\ ("Intermediate" \in Leaves) = (V[r].kind \in Leaves)
    BY <1>t DEF Leaves
  <2> QED
    BY <1>0, <1>1, <1>3, <2>1, LoweredIs
<1>5. PICK lo2, hi2, ht2 : GrowBounds(lo2, hi2, ht2, lo, hi, ht, s, r)
  BY DEF GrowBounds
<1>6. /\ Tree(VG, U \union {s}, s, lo2, hi2, ht2)
      /\ Holds(VG, U \union {s}, lo2, hi2, map)
  <2>1. "Intermediate" \in {"Leaf", "Intermediate"} /\ VG[s] = EmptyRoot(s, r)
    BY <1>2, <1>e
  <2>2. Recast(VG[r], V[r], "Intermediate", s)
    BY <1>2, <1>4
  <2> QED
    BY <1>2, <1>5, <2>1, <2>2, TreeGrow
<1>8. /\ d = DivideIntermediate(n, k, link, m)
      /\ V2[r] = Given(d.p, s) /\ V2[m] = Given(d.s, s)
      /\ V2[s] = CreateRoot(s, d.key, r, m)
      /\ \A c \in U \ {r} :
           V2[c] = IF c \in Under(d.s) THEN [V[c] EXCEPT !.parent = m] ELSE V[c]
  BY DEF SplitsRootNode
<1>9. PICK d0 : d0 = DivideIntermediate(nn, k, link, m)
  OBVIOUS
<1>10. d0.p = Given(d.p, s) /\ d0.s = Given(d.s, s) /\ d0.key = d.key
  BY <1>n, <1>t, <1>8, <1>9, DivideIntermediateParent
<1>11. Under(d0.s) = Under(d.s)
  BY <1>10, UnderGiven
<1> DEFINE W == [x \in Numbers |->
                   IF x = s THEN InsertIntoIntermediate(e, d.key, m) ELSE V2[x]]
<1>12. /\ W[s] = InsertIntoIntermediate(e, d.key, m)
       /\ W[r] = V2[r] /\ W[m] = V2[m] /\ \A x \in U \ {r} : W[x] = V2[x]
  BY <1>1 DEF Numbers
<1> HIDE DEF W
<1>13. SplitsNode(VG, W, U \union {s}, r, nn, k, link, s, m, d0)
  <2>1. W[r] = d0.p /\ W[m] = d0.s /\ W[s] = InsertIntoIntermediate(VG[s], d0.key, m)
    BY <1>2, <1>8, <1>10, <1>12
  <2>2. ASSUME NEW c \in (U \union {s}) \ {r, s}
        PROVE  W[c] = IF c \in Under(d0.s) THEN [VG[c] EXCEPT !.parent = m] ELSE VG[c]
    BY <1>2, <1>8, <1>11, <1>12
  <2> QED
    BY <1>9, <2>1, <2>2 DEF SplitsNode
<1>14. Taking(nn, "Intermediate", k, link, VG[r])
  <2>1. n0 = InsertIntoIntermediate(nn, k, link)
    BY <1>0, <1>n, <1>t, InsertLowered
  <2>2. nn \in Node /\ nn.kind = "Intermediate" /\ Size(nn) = Size(n)
    <3>1. /\ "Intermediate" \in {"Leaf", "Intermediate"}
          /\ ("Intermediate" \in Leaves) = (n.kind \in Leaves)
      BY <1>t DEF Leaves
    <3> QED
      BY <1>n, <1>1, <1>t, <3>1, LoweredIs
  <2> QED
    BY <1>2, <1>4, <1>t, <2>1, <2>2 DEF Taking
<1>15. /\ TreeOf(W, (U \union {s}) \union {m}, s, map)
       /\ Divided(d0.p, d0.s, r, m, "Intermediate", NodesDown, NodesDown)
       /\ d0.key \in Keys
  <2>1. /\ r \in U \union {s} /\ m \notin U \union {s} /\ s = VG[r].parent
    BY <1>1, <1>2, <1>4
  <2> QED
    BY ZenonT(60), <1>1, <1>6, <1>13, <1>14, <2>1, NodeSplitTree
<1>16. W[s] = V2[s]
  BY <1>1, <1>8, <1>10, <1>12, <1>15, <1>e, CreateRootIs
<1>17. TreeOf(V2, U \union {s, m}, s, map)
  <2>1. (U \union {s}) \union {m} = U \union {s, m}
    OBVIOUS
  <2>2. \A x \in U \union {s, m} : V2[x] = W[x]
    BY <1>12, <1>16
  <2> QED
    BY <1>15, <2>1, <2>2, TreeOfSame
<1> QED
  BY <1>8, <1>10, <1>15, <1>17

-------------------------------------------------------------------------------
(* Deletions *)

(* A leaf without a key that it has.                                           *)
Drops(V, V2, U, x, k) ==
  /\ x \in U /\ V[x].kind \in Leaves /\ ~Misses(V[x], k)
  /\ V2[x] = DeleteKeyLeaf(V[x], k) /\ \A n \in U \ {x} : V2[n] = V[n]

(* Node n2 is n with one key less.                                            *)
LessOne(n2, n) ==
  /\ n2 \in Node /\ n2.kind = n.kind /\ n2.number = n.number
  /\ n2.parent = n.parent /\ Size(n2) = Size(n) - 1

(* A key removed from its leaf: the tree stands and the map forgets the key.  *)
LEMMA DropKeyTree ==
  ASSUME NEW V, NEW V2, NEW U, NEW r, NEW lo, NEW hi, NEW ht,
         Tree(V, U, r, lo, hi, ht), NEW x, NEW k \in Keys, Drops(V, V2, U, x, k),
         NEW map \in [Keys -> Values \union {Absent}], Holds(V, U, lo, hi, map)
  PROVE  /\ Tree(V2, U, r, lo, hi, ht) /\ Holds(V2, U, lo, hi, With(map, k, Absent))
         /\ LessOne(V2[x], V[x])
<1> USE DEF Drops
<1>1. PICK i \in 1 .. Size(V[x]) : V[x].keys[i] = k
  BY DEF Misses
<1>2. /\ V[x] \in Node /\ Shape(V[x]) /\ Ordered(V[x], lo[x], hi[x]) /\ V[x].number = x
      /\ lo[x] \in Nat /\ hi[x] \in Nat /\ Size(V[x]) \in Nat
  BY TreePage
<1>3. Answers(lo, hi, x, k)
  BY <1>1, <1>2 DEF Ordered, Answers
<1>4. lo[x] <= k /\ k < hi[x]
  BY <1>3 DEF Answers
<1>5. Updated(V[x], V2[x], k, Absent, -1, lo[x], hi[x])
  BY <1>1, <1>2, DeleteKeyLeafUpdates
<1>6. /\ Tree(V2, U, r, lo, hi, ht)
      /\ \A mp \in [Keys -> Values \union {Absent}] :
           Holds(V, U, lo, hi, mp) => Holds(V2, U, lo, hi, [mp EXCEPT ![k] = Absent])
  BY <1>4, <1>5, LeafUpdate
<1>7. Holds(V2, U, lo, hi, With(map, k, Absent))
  BY <1>6 DEF With
<1>8. /\ V2[x] \in Node /\ V2[x].kind = V[x].kind /\ V2[x].number = x
      /\ V2[x].parent = V[x].parent /\ Size(V2[x]) = Size(V[x]) + (-1)
  BY <1>2, <1>5 DEF Updated
<1> QED
  BY <1>2, <1>6, <1>7, <1>8 DEF LessOne

(* Two neighbours below P.                                                     *)
Beside(V, U, P, p, a, b) ==
  /\ P \in U /\ V[P].kind \in Interiors /\ p \in 1 .. Size(V[P])
  /\ a = V[P].links[p] /\ b = V[P].links[p + 1]

(* What neighbours are to each other, to their parent and to the key between  *)
(* them.                                                                      *)
LEMMA BesideAre ==
  ASSUME NEW V, NEW U, NEW r, NEW lo, NEW hi, NEW ht, Tree(V, U, r, lo, hi, ht),
         NEW P, NEW p, NEW a, NEW b, Beside(V, U, P, p, a, b)
  PROVE  /\ P \in U /\ a \in U /\ b \in U /\ a # b /\ a # r /\ b # r /\ a # P /\ b # P
         /\ V[a] \in Node /\ V[b] \in Node /\ Shape(V[a]) /\ Shape(V[b])
         /\ V[a].number = a /\ V[b].number = b /\ V[a].kind = V[b].kind
         /\ V[a].parent = P /\ V[b].parent = P
         /\ V[P].keys[p] \in Keys /\ hi[a] = V[P].keys[p] /\ lo[b] = V[P].keys[p]
         /\ KeyBehind(V[P], a) = V[P].keys[p]
         /\ Ordered(V[a], lo[a], V[P].keys[p]) /\ Ordered(V[b], V[P].keys[p], hi[b])
         /\ lo[a] \in Nat /\ hi[b] \in Nat /\ V[P].keys[p] \in Nat
         /\ Size(V[a]) \in Nat /\ Size(V[b]) \in Nat /\ Size(V[P]) \in Nat
         /\ Widened(DeleteKeyIntermediate(V[P], a), V[P], p, V[P].keys[p], b, lo[P], hi[P])
<1>1. /\ P \in U /\ V[P].kind \in Interiors /\ p \in 1 .. Size(V[P])
      /\ a = V[P].links[p] /\ b = V[P].links[p + 1]
  BY DEF Beside
<1>2. /\ a \in U /\ b \in U /\ a # b /\ a # r /\ b # r /\ a # P /\ b # P
      /\ V[a].parent = P /\ V[b].parent = P
      /\ V[P].keys[p] \in Keys /\ hi[a] = V[P].keys[p] /\ lo[b] = V[P].keys[p]
      /\ V[a].kind = V[b].kind
      /\ KeyBehind(V[P], a) = V[P].keys[p]
      /\ Widened(DeleteKeyIntermediate(V[P], a), V[P], p, V[P].keys[p], b, lo[P], hi[P])
  <2>1. Neighbours(V, U, r, lo, hi, ht, P, p, a, b)
    BY <1>1, NeighboursAre
  <2> QED
    BY <2>1 DEF Neighbours
<1>3. /\ V[a] \in Node /\ Shape(V[a]) /\ V[a].number = a /\ Ordered(V[a], lo[a], hi[a])
      /\ lo[a] \in Nat /\ Size(V[a]) \in Nat
  BY <1>2, TreePage
<1>4. /\ V[b] \in Node /\ Shape(V[b]) /\ V[b].number = b /\ Ordered(V[b], lo[b], hi[b])
      /\ hi[b] \in Nat /\ Size(V[b]) \in Nat
  BY <1>2, TreePage
<1>5. Size(V[P]) \in Nat
  BY <1>1, TreePage
<1>6. V[P].keys[p] \in Nat
  BY <1>2, NumbersAreNat
<1>7. Ordered(V[a], lo[a], V[P].keys[p]) /\ Ordered(V[b], V[P].keys[p], hi[b])
  BY <1>2, <1>3, <1>4
<1> QED
  BY <1>1, <1>2, <1>3, <1>4, <1>5, <1>6, <1>7

(* What is known of the pages of a merge.                                      *)
MergedPages(V, V2, P, a, b) ==
  /\ V2[a] \in Node /\ Shape(V2[a]) /\ V2[a].kind = V[a].kind /\ V2[a].number = a
  /\ V2[a].parent = P
  /\ V2[P] \in Node /\ Shape(V2[P]) /\ V2[P].kind = V[P].kind /\ V2[P].number = P
  /\ V2[P].parent = V[P].parent /\ Size(V2[P]) = Size(V[P]) - 1
  /\ Size(V[P]) = 1 => V2[P].links[1] = a

(* The numbers and kinds of the pages after a merge.                          *)
LEMMA MergedPagesAre ==
  ASSUME NEW V, NEW V2, NEW U, NEW r, NEW lo, NEW hi, NEW ht, Tree(V, U, r, lo, hi, ht),
         NEW P, NEW p, NEW a, NEW b, Beside(V, U, P, p, a, b),
         V2[P] = DeleteKeyIntermediate(V[P], a),
         NEW c, NEW l, NEW sep, NEW h, Parted(V2[a], V[a], V[b], c, l, sep, h)
  PROVE  MergedPages(V, V2, P, a, b)
<1>1. Halves(V2[a], V[a], V[b], c, l, sep, h)
  BY PartedIs
<1>2. V[a].number = a /\ V[a].parent = P /\ Size(V[P]) \in Nat /\ P \in U
  BY BesideAre
<1>3. /\ V2[a] \in Node /\ Shape(V2[a]) /\ V2[a].kind = V[a].kind /\ V2[a].number = a
      /\ V2[a].parent = P
  BY <1>1, <1>2 DEF Halves
<1>4. Widened(V2[P], V[P], p, V[P].keys[p], b, lo[P], hi[P])
  BY BesideAre
<1>5. /\ V2[P] \in Node /\ Shape(V2[P]) /\ V2[P].kind = V[P].kind
      /\ V2[P].number = V[P].number /\ V2[P].parent = V[P].parent
      /\ Size(V[P]) = Size(V2[P]) + 1 /\ p \in 1 .. Size(V2[P]) + 1
      /\ V[P].links[1] = IF 1 <= p THEN V2[P].links[1] ELSE V[P].links[1]
  <2>1. 1 \in 1 .. Size(V2[P]) + 2 /\ Size(V2[P]) \in Nat
    <3>1. V2[P] \in Node
      BY <1>4 DEF Widened
    <3> QED
      BY <3>1, NodeFields
  <2>2. /\ V2[P] \in Node /\ Shape(V2[P]) /\ V2[P].kind = V[P].kind
        /\ V2[P].number = V[P].number /\ V2[P].parent = V[P].parent
        /\ Size(V[P]) = Size(V2[P]) + 1 /\ p \in 1 .. Size(V2[P]) + 1
        /\ \A j \in 1 .. Size(V2[P]) + 2 :
             V[P].links[j] = IF j <= p THEN V2[P].links[j]
                             ELSE IF j = p + 1 THEN b ELSE V2[P].links[j - 1]
    BY <1>4 DEF Widened
  <2>3. 1 <= p
    BY <2>2
  <2> QED
    BY <2>1, <2>2, <2>3
<1>6. Size(V2[P]) \in Nat
  BY <1>5, NodeFields
<1>7. Size(V2[P]) = Size(V[P]) - 1
  BY <1>2, <1>5, <1>6
<1>8. ASSUME Size(V[P]) = 1 PROVE V2[P].links[1] = a
  <2>1. p = 1 /\ 1 <= p
    BY <1>5, <1>6, <1>8
  <2>2. a = V[P].links[p]
    BY DEF Beside
  <2> QED
    BY <1>5, <2>1, <2>2
<1>9. V[P].number = P
  BY <1>2, TreePage
<1> QED
  BY <1>3, <1>5, <1>7, <1>8, <1>9 DEF MergedPages

(* The links of a node are those of its halves.                               *)
LEMMA PartedUnder ==
  ASSUME NEW n, NEW L, NEW R, NEW c, NEW l, NEW sep, NEW h,
         Parted(n, L, R, c, l, sep, h), n.kind \in Interiors
  PROVE  \A x : x \in Under(n) <=> x \in Under(L) \/ x \in Under(R)
<1>1. /\ L.kind \in Interiors /\ R.kind \in Interiors
      /\ c \in Nat /\ Size(n) \in Nat /\ c < Size(n)
      /\ Size(L) = c /\ Size(R) = Size(n) - c - 1
      /\ \A j \in 1 .. c + 1 : L.links[j] = n.links[j]
      /\ \A j \in 1 .. Size(n) - c : R.links[j] = n.links[c + 1 + j]
  BY PartedLinks
<1>2. Size(L) + 1 = c + 1 /\ Size(R) + 1 = Size(n) - c
  <2>1. Size(R) + 1 = (Size(n) - c - 1) + 1
    BY <1>1
  <2> QED
    BY <1>1, <2>1
<1>3. /\ Under(n) = {n.links[i] : i \in 1 .. Size(n) + 1}
      /\ Under(L) = {L.links[i] : i \in 1 .. c + 1}
      /\ Under(R) = {R.links[i] : i \in 1 .. Size(n) - c}
  BY <1>1, <1>2 DEF Under
<1>4. ASSUME NEW x, x \in Under(n) PROVE x \in Under(L) \/ x \in Under(R)
  <2>1. PICK i \in 1 .. Size(n) + 1 : x = n.links[i]
    BY <1>3, <1>4
  <2>2. CASE i <= c + 1
    <3>1. i \in 1 .. c + 1
      BY <1>1, <2>2
    <3>2. x = L.links[i]
      BY <1>1, <2>1, <3>1
    <3> QED
      BY <1>3, <3>1, <3>2
  <2>3. CASE ~(i <= c + 1)
    <3> DEFINE j == i - (c + 1)
    <3>1. j \in 1 .. Size(n) - c /\ (c + 1) + j = i
      BY <1>1, <2>3
    <3> HIDE DEF j
    <3>2. R.links[j] = n.links[c + 1 + j]
      BY <1>1, <3>1
    <3>3. c + 1 + j = i
      BY <1>1, <3>1
    <3>4. x = R.links[j]
      BY <2>1, <3>2, <3>3
    <3> QED
      BY <1>3, <3>1, <3>4
  <2> QED
    BY <2>2, <2>3
<1>5. ASSUME NEW x, x \in Under(L) PROVE x \in Under(n)
  <2>1. PICK i \in 1 .. c + 1 : x = L.links[i]
    BY <1>3, <1>5
  <2>2. i \in 1 .. Size(n) + 1 /\ x = n.links[i]
    BY <1>1, <2>1
  <2> QED
    BY <1>3, <2>2
<1>6. ASSUME NEW x, x \in Under(R) PROVE x \in Under(n)
  <2>1. PICK j \in 1 .. Size(n) - c : x = R.links[j]
    BY <1>3, <1>6
  <2> DEFINE i == c + 1 + j
  <2>2. i \in 1 .. Size(n) + 1
    BY <1>1
  <2>3. x = n.links[i]
    BY <1>1, <2>1
  <2> HIDE DEF i
  <2> QED
    BY <1>3, <2>2, <2>3
<1> QED
  BY <1>4, <1>5, <1>6

(* A page and its sibling, given in either order, are taken from left to      *)
(* right.                                                                     *)
LEMMA InorderBeside ==
  ASSUME NEW V, NEW U, NEW r, NEW lo, NEW hi, NEW ht, Tree(V, U, r, lo, hi, ht),
         NEW P, NEW p, NEW a, NEW b, Beside(V, U, P, p, a, b),
         Size(V[a]) >= 1, Size(V[b]) >= 1,
         NEW n1, NEW n2, Siblings(n1, n2, V[a], V[b])
  PROVE  /\ Inorder(n1, n2)[1] = V[a] /\ Inorder(n1, n2)[2] = V[b]
         /\ Inorder(n1, n2) = <<V[a], V[b]>>
<1>1. /\ V[a] \in Node /\ V[b] \in Node /\ V[P].keys[p] \in Nat
      /\ Ordered(V[a], lo[a], V[P].keys[p]) /\ Ordered(V[b], V[P].keys[p], hi[b])
  BY BesideAre
<1>2. Inorder(n1, n2) = <<V[a], V[b]>>
  BY <1>1, InorderIs
<1> QED
  BY <1>2

(* merge_leaf and merge_intermediate of neighbours a and b below P.            *)
MergesLeaves(V, V2, U, P, a, b) ==
  /\ V2[a] = MergeLeaves(V[a], V[b])
  /\ V2[P] = DeleteKeyIntermediate(V[P], a)
  /\ \A n \in U \ {a, b, P} : V2[n] = V[n]

(* merge_intermediate, of inner neighbours a and b with parent P.             *)
MergesNodes(V, V2, U, P, a, b) ==
  /\ V2[a] = MergeNodes(V[a], KeyBehind(V[P], a), V[b])
  /\ V2[P] = DeleteKeyIntermediate(V[P], a)
  /\ \A n \in U \ {a, b, P} :
       V2[n] = IF n \in Under(V2[a]) THEN [V[n] EXCEPT !.parent = a] ELSE V[n]

(* The merge of two leaves: a search tree with the same map and one page      *)
(* less.                                                                      *)
LEMMA LeavesMergeTree ==
  ASSUME NEW V, NEW V2, NEW U, NEW r, NEW lo, NEW hi, NEW ht, Tree(V, U, r, lo, hi, ht),
         NEW P, NEW p, NEW a, NEW b, Beside(V, U, P, p, a, b),
         V[a].kind \in Leaves, MergesLeaves(V, V2, U, P, a, b),
         NEW map, Holds(V, U, lo, hi, map)
  PROVE  /\ TreeOf(V2, U \ {b}, r, map) /\ MergedPages(V, V2, P, a, b)
         /\ Size(V2[a]) = Size(V[a]) + Size(V[b])
<1>1. /\ V2[a] = MergeLeaves(V[a], V[b]) /\ V2[P] = DeleteKeyIntermediate(V[P], a)
      /\ \A n \in U \ {a, b, P} : V2[n] = V[n]
  BY DEF MergesLeaves
<1>2. /\ P \in U /\ V[P].kind \in Interiors /\ p \in 1 .. Size(V[P])
      /\ a = V[P].links[p] /\ b = V[P].links[p + 1]
  BY DEF Beside
<1>3. PICK sep : sep = V[P].keys[p]
  OBVIOUS
<1>4. /\ V[a] \in Node /\ V[b] \in Node /\ Shape(V[a]) /\ Shape(V[b])
      /\ V[a].kind = V[b].kind /\ V[a].parent = P /\ V[b].parent = P
      /\ sep \in Keys /\ hi[a] = sep
      /\ Ordered(V[a], lo[a], sep) /\ Ordered(V[b], sep, hi[b])
      /\ lo[a] \in Nat /\ hi[b] \in Nat
      /\ Size(V[a]) \in Nat /\ Size(V[b]) \in Nat
  BY <1>3, BesideAre
<1>5. LeafHalves(V2[a], V[a], V[b], Size(V[a]), lo[a], sep, hi[b])
  BY <1>1, <1>4, MergeLeavesHalves
<1>6. Parted(V2[a], V[a], V[b], Size(V[a]), lo[a], hi[a], hi[b])
  BY <1>4, <1>5 DEF Parted
<1>7. MergedPages(V, V2, P, a, b)
  BY <1>1, <1>6, MergedPagesAre
<1>8. Size(V2[a]) = Size(V[a]) + Size(V[b])
  <2>1. Size(V[b]) = Size(V2[a]) - Size(V[a]) /\ V2[a] \in Node
    BY <1>5 DEF LeafHalves, Halves
  <2>2. Size(V2[a]) \in Nat
    BY <2>1, NodeFields
  <2> QED
    BY <1>4, <2>1, <2>2
<1>9. Under(V[b]) = {}
  BY <1>4, Kinds DEF Under
<1>10. ASSUME NEW n \in U \ {a, b, P}
       PROVE  Moved(V2[n], V[n], IF n \in Under(V[b]) THEN a ELSE V[n].parent)
  BY <1>1, <1>9, StaysMoved
<1>11. PICK hi2 : hi2 = [hi EXCEPT ![a] = hi[b]]
  OBVIOUS
<1>12. Tree(V2, U \ {b}, r, lo, hi2, ht) /\ Holds(V2, U \ {b}, lo, hi2, map)
  BY ZenonT(60), <1>1, <1>2, <1>6, <1>10, <1>11, TreeMerge
<1>13. TreeOf(V2, U \ {b}, r, map)
  BY <1>12, TreeOfIs
<1> QED
  BY <1>7, <1>8, <1>13

(* The merge of two inner pages, likewise.                                    *)
LEMMA NodesMergeTree ==
  ASSUME NEW V, NEW V2, NEW U, NEW r, NEW lo, NEW hi, NEW ht, Tree(V, U, r, lo, hi, ht),
         NEW P, NEW p, NEW a, NEW b, Beside(V, U, P, p, a, b),
         V[a].kind \in Interiors, MergesNodes(V, V2, U, P, a, b),
         NEW map, Holds(V, U, lo, hi, map)
  PROVE  /\ TreeOf(V2, U \ {b}, r, map) /\ MergedPages(V, V2, P, a, b)
         /\ Size(V2[a]) = Size(V[a]) + Size(V[b]) + 1
<1>1. /\ V2[a] = MergeNodes(V[a], KeyBehind(V[P], a), V[b])
      /\ V2[P] = DeleteKeyIntermediate(V[P], a)
      /\ \A n \in U \ {a, b, P} :
           V2[n] = IF n \in Under(V2[a]) THEN [V[n] EXCEPT !.parent = a] ELSE V[n]
  BY DEF MergesNodes
<1>2. /\ P \in U /\ V[P].kind \in Interiors /\ p \in 1 .. Size(V[P])
      /\ a = V[P].links[p] /\ b = V[P].links[p + 1]
  BY DEF Beside
<1>3. PICK sep : sep = V[P].keys[p]
  OBVIOUS
<1>4. /\ V[a] \in Node /\ V[b] \in Node /\ Shape(V[a]) /\ Shape(V[b])
      /\ V[a].kind = V[b].kind /\ V[a].parent = P /\ V[b].parent = P
      /\ sep \in Keys /\ hi[a] = sep /\ KeyBehind(V[P], a) = sep
      /\ Ordered(V[a], lo[a], sep) /\ Ordered(V[b], sep, hi[b])
      /\ lo[a] \in Nat /\ hi[b] \in Nat /\ a \in U /\ b \in U
      /\ Size(V[a]) \in Nat /\ Size(V[b]) \in Nat
  BY <1>3, BesideAre
<1>5. InnerHalves(V2[a], V[a], V[b], Size(V[a]), lo[a], sep, hi[b])
  <2>1. V2[a] = MergeNodes(V[a], sep, V[b])
    BY <1>1, <1>4
  <2> QED
    BY <1>4, <2>1, MergeNodesHalves
<1>6. Parted(V2[a], V[a], V[b], Size(V[a]), lo[a], hi[a], hi[b])
  BY <1>4, <1>5 DEF Parted
<1>7. MergedPages(V, V2, P, a, b)
  BY <1>1, <1>6, MergedPagesAre
<1>8. Size(V2[a]) = Size(V[a]) + Size(V[b]) + 1
  <2>1. Size(V[b]) = Size(V2[a]) - Size(V[a]) - 1 /\ V2[a] \in Node
    BY <1>5 DEF InnerHalves, Halves
  <2>2. Size(V2[a]) \in Nat
    BY <2>1, NodeFields
  <2> QED
    BY <1>4, <2>1, <2>2
<1>9. V2[a].kind \in Interiors
  BY <1>7 DEF MergedPages
<1>10. \A x : x \in Under(V2[a]) <=> x \in Under(V[a]) \/ x \in Under(V[b])
  BY <1>6, <1>9, PartedUnder
<1>11. ASSUME NEW n \in U \ {a, b, P}
       PROVE  Moved(V2[n], V[n], IF n \in Under(V[b]) THEN a ELSE V[n].parent)
  <2>1. V[n] \in Node /\ a \in Numbers
    BY <1>4, TreePage
  <2>2. Moved([V[n] EXCEPT !.parent = a], V[n], a) /\ Moved(V[n], V[n], V[n].parent)
    BY <2>1, ReparentMoves
  <2>3. n \in Under(V[a]) => V[n].parent = a
    BY <1>4, UnderIs
  <2>4. CASE n \in Under(V[b])
    <3>1. V2[n] = [V[n] EXCEPT !.parent = a]
      BY <1>1, <1>10, <2>4
    <3> QED
      BY <2>2, <2>4, <3>1
  <2>5. CASE n \notin Under(V[b]) /\ n \in Under(V[a])
    <3>1. V2[n] = [V[n] EXCEPT !.parent = a]
      BY <1>1, <1>10, <2>5
    <3> QED
      BY <2>2, <2>3, <2>5, <3>1
  <2>6. CASE n \notin Under(V[b]) /\ n \notin Under(V[a])
    <3>1. V2[n] = V[n]
      BY <1>1, <1>10, <2>6
    <3> QED
      BY <2>2, <2>6, <3>1
  <2> QED
    BY <2>4, <2>5, <2>6
<1>12. PICK hi2 : hi2 = [hi EXCEPT ![a] = hi[b]]
  OBVIOUS
<1>13. Tree(V2, U \ {b}, r, lo, hi2, ht) /\ Holds(V2, U \ {b}, lo, hi2, map)
  BY ZenonT(60), <1>1, <1>2, <1>6, <1>11, <1>12, TreeMerge
<1>14. TreeOf(V2, U \ {b}, r, map)
  BY <1>13, TreeOfIs
<1> QED
  BY <1>7, <1>8, <1>14

(* What is known of the pages of a redistribution.                             *)
SharedPages(V, V2, P, a, b) ==
  /\ V2[a] \in Node /\ V2[a].kind = V[a].kind /\ V2[a].number = a
  /\ V2[b] \in Node /\ V2[b].kind = V[b].kind /\ V2[b].number = b
  /\ Size(V2[a]) \in NodesDown .. NodesUp /\ Size(V2[b]) \in NodesDown .. NodesUp
  /\ V2[P] \in Node /\ Shape(V2[P]) /\ V2[P].kind = V[P].kind /\ V2[P].number = P
  /\ V2[P].parent = V[P].parent /\ Size(V2[P]) = Size(V[P])

(* Neighbours joined to the page VJ[a] that are parted again at another key.   *)
Rejoined(V, VJ, V2, U, P, a, b, c1, sep1, c2, sep2, l, h) ==
  /\ Parted(VJ[a], V[a], V[b], c1, l, sep1, h)
  /\ VJ[P] = DeleteKeyIntermediate(V[P], a)
  /\ \A n \in U \ {a, b, P} :
       Moved(VJ[n], V[n], IF n \in Under(V[b]) THEN a ELSE V[n].parent)
  /\ Parted(VJ[a], V2[a], V2[b], c2, l, sep2, h) /\ V2[b].number = b
  /\ V2[P] = InsertIntoIntermediate(VJ[P], sep2, b)
  /\ \A n \in U \ {a, b, P} :
       Moved(V2[n], VJ[n], IF n \in Under(V2[b]) THEN b ELSE VJ[n].parent)

(* Neighbours put together and cut again elsewhere: a search tree with the    *)
(* same map.                                                                  *)
LEMMA RejoinedTree ==
  ASSUME NEW V, NEW VJ, NEW V2, NEW U, NEW r, NEW lo, NEW hi, NEW ht,
         Tree(V, U, r, lo, hi, ht),
         NEW P, NEW p, NEW a, NEW b, Beside(V, U, P, p, a, b),
         NEW c1, NEW c2, NEW sep2,
         Rejoined(V, VJ, V2, U, P, a, b, c1, hi[a], c2, sep2, lo[a], hi[b]),
         Size(V2[a]) \in NodesDown .. NodesUp, Size(V2[b]) \in NodesDown .. NodesUp,
         NEW map, Holds(V, U, lo, hi, map)
  PROVE  TreeOf(V2, U, r, map) /\ SharedPages(V, V2, P, a, b)
<1>1. /\ Parted(VJ[a], V[a], V[b], c1, lo[a], hi[a], hi[b])
      /\ VJ[P] = DeleteKeyIntermediate(V[P], a)
      /\ \A n \in U \ {a, b, P} :
           Moved(VJ[n], V[n], IF n \in Under(V[b]) THEN a ELSE V[n].parent)
      /\ Parted(VJ[a], V2[a], V2[b], c2, lo[a], sep2, hi[b]) /\ V2[b].number = b
      /\ V2[P] = InsertIntoIntermediate(VJ[P], sep2, b)
      /\ \A n \in U \ {a, b, P} :
           Moved(V2[n], VJ[n], IF n \in Under(V2[b]) THEN b ELSE VJ[n].parent)
  BY DEF Rejoined
<1>2. /\ P \in U /\ V[P].kind \in Interiors /\ p \in 1 .. Size(V[P])
      /\ a = V[P].links[p] /\ b = V[P].links[p + 1]
  BY DEF Beside
<1>3. /\ a \in U /\ b \in U /\ a # b /\ a # r /\ b # r /\ a # P /\ b # P
      /\ V[a].kind = V[b].kind /\ Size(V[P]) \in Nat
  BY BesideAre
<1>4. PICK hi2 : hi2 = [hi EXCEPT ![a] = hi[b]]
  OBVIOUS
<1>5. Tree(VJ, U \ {b}, r, lo, hi2, ht) /\ Holds(VJ, U \ {b}, lo, hi2, map)
  BY <1>1, <1>2, <1>4, TreeMerge
<1>6. MergedPages(V, VJ, P, a, b)
  BY <1>1, MergedPagesAre
<1>7. /\ VJ[a].kind = V[a].kind /\ VJ[a].number = a /\ VJ[a].parent = P
      /\ VJ[P].kind = V[P].kind /\ VJ[P].number = P /\ VJ[P].parent = V[P].parent
      /\ Size(VJ[P]) = Size(V[P]) - 1
  BY <1>6 DEF MergedPages
<1>8. hi2[a] = hi[b]
  <2>1. hi \in [Numbers -> Nat] /\ a \in Numbers
    BY <1>3, TreePage DEF Tree
  <2> QED
    BY <1>4, <2>1
<1>9. b \in PageNums /\ b \in Numbers
  BY <1>3, TreePage
<1>10. a \in U \ {b} /\ b \notin U \ {b} /\ P = VJ[a].parent /\ P \in U \ {b}
  BY <1>2, <1>3, <1>7
<1>11. Parted(VJ[a], V2[a], V2[b], c2, lo[a], sep2, hi2[a])
  BY <1>1, <1>8
<1>12. \A n \in (U \ {b}) \ {a, P} :
         Moved(V2[n], VJ[n], IF n \in Under(V2[b]) THEN b ELSE VJ[n].parent)
  BY <1>1
<1>13. TreeOf(V2, (U \ {b}) \union {b}, r, map)
  BY <1>1, <1>3, <1>5, <1>9, <1>10, <1>11, <1>12, TreeSplit
<1>14. (U \ {b}) \union {b} = U
  BY <1>3
<1>15. Halves(VJ[a], V2[a], V2[b], c2, lo[a], sep2, hi2[a])
  BY <1>11, PartedIs
<1>16. /\ V2[a] \in Node /\ V2[a].kind = V[a].kind /\ V2[a].number = a
       /\ V2[b] \in Node /\ V2[b].kind = V[b].kind
       /\ sep2 \in Keys /\ lo[a] < sep2 /\ sep2 < hi2[a]
  BY <1>3, <1>7, <1>15 DEF Halves
<1>17. PICK p2 \in 1 .. Size(VJ[P]) + 1 :
         Widened(VJ[P], InsertIntoIntermediate(VJ[P], sep2, b), p2, sep2, b, lo[P], hi2[P])
  BY <1>3, <1>5, <1>9, <1>10, <1>16, CutWidens
<1>18. Widened(VJ[P], V2[P], p2, sep2, b, lo[P], hi2[P])
  BY <1>1, <1>17
<1>19. /\ V2[P] \in Node /\ Shape(V2[P]) /\ V2[P].kind = V[P].kind
       /\ V2[P].number = P /\ V2[P].parent = V[P].parent
       /\ Size(V2[P]) = Size(VJ[P]) + 1
  BY <1>7, <1>18 DEF Widened
<1>20. Size(V2[P]) = Size(V[P])
  BY <1>3, <1>7, <1>19
<1>21. SharedPages(V, V2, P, a, b)
  BY <1>1, <1>16, <1>19, <1>20 DEF SharedPages
<1> QED
  BY <1>13, <1>14, <1>21

(* redistribute_keys_leaf, q of neighbours a and b below P.                    *)
Sharers(n1, n2, L, R) ==
  /\ n1 \in Node /\ n2 \in Node /\ Siblings(n1, n2, L, R)
  /\ Size(n1) = NodesDown - 1 /\ Size(n2) > NodesDown /\ Size(n2) <= NodesUp

(* A sequence of three.                                                       *)
Triple(q) == q = <<q[1], q[2], q[3]>>

(* redistribute_keys_leaf, of neighbours a and b with parent P.               *)
SharesLeaves(V, V2, U, P, a, b, q) ==
  /\ V[a].kind \in Leaves
  /\ \E n1, n2 : Sharers(n1, n2, V[a], V[b]) /\ q = RedistributeKeysLeaf(n1, n2, V[P])
  /\ V2[a] = q[1] /\ V2[b] = q[2] /\ V2[P] = q[3]
  /\ \A n \in U \ {a, b, P} : V2[n] = V[n]

(* The redistribution between two leaves: a search tree with the same map.    *)
LEMMA LeavesShareTree ==
  ASSUME NEW V, NEW V2, NEW U, NEW r, NEW lo, NEW hi, NEW ht, Tree(V, U, r, lo, hi, ht),
         NEW P, NEW p, NEW a, NEW b, Beside(V, U, P, p, a, b),
         NEW q, SharesLeaves(V, V2, U, P, a, b, q),
         NEW map, Holds(V, U, lo, hi, map)
  PROVE  TreeOf(V2, U, r, map) /\ SharedPages(V, V2, P, a, b) /\ Triple(q)
<1>0. PICK n1, n2 : Sharers(n1, n2, V[a], V[b]) /\ q = RedistributeKeysLeaf(n1, n2, V[P])
  BY DEF SharesLeaves
<1>s. /\ V[a].kind \in Leaves /\ n1 \in Node /\ n2 \in Node /\ Siblings(n1, n2, V[a], V[b])
      /\ Size(n1) = NodesDown - 1 /\ Size(n2) > NodesDown /\ Size(n2) <= NodesUp
  BY <1>0 DEF Sharers, SharesLeaves
<1>1. /\ V2[a] = q[1] /\ V2[b] = q[2] /\ V2[P] = q[3]
      /\ \A n \in U \ {a, b, P} : V2[n] = V[n]
  BY DEF SharesLeaves
<1>2. PICK sep : sep = V[P].keys[p]
  OBVIOUS
<1>3. /\ V[a] \in Node /\ V[b] \in Node /\ Shape(V[a]) /\ Shape(V[b])
      /\ V[a].kind = V[b].kind /\ V[a].parent = P /\ V[b].parent = P
      /\ V[a].number = a /\ V[b].number = b
      /\ sep \in Keys /\ hi[a] = sep
      /\ Ordered(V[a], lo[a], sep) /\ Ordered(V[b], sep, hi[b])
      /\ lo[a] \in Nat /\ hi[b] \in Nat /\ a \in U /\ b \in U /\ a # b /\ a # P /\ b # P
      /\ P \in U
  BY <1>2, BesideAre
<1>4. PICK N : N = MergeLeaves(V[a], V[b])
  OBVIOUS
<1>5. /\ LeafHalves(N, V[a], V[b], Size(V[a]), lo[a], sep, hi[b])
      /\ \E c, sep2 :
           /\ LeafHalves(N, q[1], q[2], c, lo[a], sep2, hi[b])
           /\ q[3] = NewSeparator(V[P], a, b, sep2)
      /\ q[2].number = b /\ q = <<q[1], q[2], q[3]>>
      /\ Size(q[1]) \in NodesDown .. NodesUp /\ Size(q[2]) \in NodesDown .. NodesUp
  BY <1>0, <1>s, <1>3, <1>4, RedistributeKeysLeafHalves
<1>6. PICK c, sep2 : /\ LeafHalves(N, q[1], q[2], c, lo[a], sep2, hi[b])
                     /\ q[3] = NewSeparator(V[P], a, b, sep2)
  BY <1>5
<1> DEFINE VJ == [n \in Numbers |-> IF n = a THEN N
                                    ELSE IF n = P THEN DeleteKeyIntermediate(V[P], a)
                                    ELSE V[n]]
<1>7. U \subseteq Numbers
  BY DEF Tree, Numbers
<1>8. /\ VJ[a] = N /\ VJ[P] = DeleteKeyIntermediate(V[P], a)
      /\ \A n \in U \ {a, b, P} : VJ[n] = V[n]
  BY <1>3, <1>7
<1> HIDE DEF VJ
<1>9. Under(V[b]) = {} /\ Under(V2[b]) = {}
  <2>1. V2[b].kind = N.kind /\ N.kind \in Leaves
    BY <1>1, <1>6 DEF LeafHalves, Halves
  <2> QED
    BY <1>s, <1>3, <2>1, Kinds DEF Under
<1>10. /\ Parted(VJ[a], V[a], V[b], Size(V[a]), lo[a], hi[a], hi[b])
       /\ Parted(VJ[a], V2[a], V2[b], c, lo[a], sep2, hi[b])
  BY <1>s, <1>1, <1>3, <1>5, <1>6, <1>8 DEF Parted
<1>11. ASSUME NEW n \in U \ {a, b, P}
       PROVE  /\ Moved(VJ[n], V[n], IF n \in Under(V[b]) THEN a ELSE V[n].parent)
              /\ Moved(V2[n], VJ[n], IF n \in Under(V2[b]) THEN b ELSE VJ[n].parent)
  <2>1. VJ[n] = V[n] /\ V2[n] = V[n] /\ Moved(V[n], V[n], V[n].parent)
    BY <1>1, <1>8, StaysMoved
  <2> QED
    BY <1>9, <2>1
<1>12. V2[P] = InsertIntoIntermediate(VJ[P], sep2, b) /\ V2[b].number = b
  BY <1>1, <1>5, <1>6, <1>8 DEF NewSeparator
<1>13. Rejoined(V, VJ, V2, U, P, a, b, Size(V[a]), hi[a], c, sep2, lo[a], hi[b])
  BY <1>8, <1>10, <1>11, <1>12 DEF Rejoined
<1>14. Size(V2[a]) \in NodesDown .. NodesUp /\ Size(V2[b]) \in NodesDown .. NodesUp
  BY <1>1, <1>5
<1>15. TreeOf(V2, U, r, map) /\ SharedPages(V, V2, P, a, b)
  BY <1>13, <1>14, RejoinedTree
<1> QED
  BY <1>5, <1>15 DEF Triple

(* The second part of a page when it begins further left or right.             *)
LEMMA LaterParts ==
  ASSUME NEW n, NEW L, NEW R, NEW c, NEW l, NEW sep, NEW h,
         Parted(n, L, R, c, l, sep, h), n.kind \in Interiors,
         NEW L2, NEW R2, NEW c2, NEW sep2, Parted(n, L2, R2, c2, l, sep2, h), c <= c2
  PROVE  \A x \in Under(R2) : x \in Under(R)
<1>1. /\ R.kind \in Interiors /\ c \in Nat /\ Size(n) \in Nat /\ c < Size(n)
      /\ Size(R) = Size(n) - c - 1
      /\ \A j \in 1 .. Size(n) - c : R.links[j] = n.links[c + 1 + j]
  BY PartedLinks
<1>2. /\ R2.kind \in Interiors /\ c2 \in Nat /\ c2 < Size(n)
      /\ Size(R2) = Size(n) - c2 - 1
      /\ \A j \in 1 .. Size(n) - c2 : R2.links[j] = n.links[c2 + 1 + j]
  BY PartedLinks
<1>3. Size(R) + 1 = Size(n) - c /\ Size(R2) + 1 = Size(n) - c2
  <2>1. Size(R) + 1 = (Size(n) - c - 1) + 1 /\ Size(R2) + 1 = (Size(n) - c2 - 1) + 1
    BY <1>1, <1>2
  <2> QED
    BY <1>1, <1>2, <2>1
<1>4. /\ Under(R) = {R.links[i] : i \in 1 .. Size(n) - c}
      /\ Under(R2) = {R2.links[i] : i \in 1 .. Size(n) - c2}
  BY <1>1, <1>2, <1>3 DEF Under
<1>5. ASSUME NEW x, x \in Under(R2) PROVE x \in Under(R)
  <2>1. PICK j \in 1 .. Size(n) - c2 : x = R2.links[j]
    BY <1>4, <1>5
  <2> DEFINE i == (c2 - c) + j
  <2>2. i \in 1 .. Size(n) - c /\ c + 1 + i = c2 + 1 + j
    BY <1>1, <1>2
  <2> HIDE DEF i
  <2>3. x = n.links[c2 + 1 + j] /\ R.links[i] = n.links[c + 1 + i]
    BY <1>1, <1>2, <2>1, <2>2
  <2>4. x = R.links[i]
    BY <2>2, <2>3
  <2> QED
    BY <1>4, <2>2, <2>4
<1> QED
  BY <1>5

(* The children of a page that is parted in a tree have one parent only.       *)
LEMMA PartsApart ==
  ASSUME NEW V, NEW U, NEW r, NEW lo, NEW hi, NEW ht, Tree(V, U, r, lo, hi, ht),
         NEW a \in U, V[a].kind \in Interiors,
         NEW L, NEW R, NEW c, NEW l, NEW sep, NEW h, Parted(V[a], L, R, c, l, sep, h),
         NEW x \in Under(L)
  PROVE  x \notin Under(R)
<1>1. /\ L.kind \in Interiors /\ R.kind \in Interiors
      /\ c \in Nat /\ Size(V[a]) \in Nat /\ c < Size(V[a])
      /\ Size(L) = c /\ Size(R) = Size(V[a]) - c - 1
      /\ \A j \in 1 .. c + 1 : L.links[j] = V[a].links[j]
      /\ \A j \in 1 .. Size(V[a]) - c : R.links[j] = V[a].links[c + 1 + j]
  BY PartedLinks
<1>2. Size(L) + 1 = c + 1 /\ Size(R) + 1 = Size(V[a]) - c
  <2>1. Size(R) + 1 = (Size(V[a]) - c - 1) + 1
    BY <1>1
  <2> QED
    BY <1>1, <2>1
<1>3. PICK i \in 1 .. c + 1 : x = L.links[i]
  BY <1>1, <1>2 DEF Under
<1> SUFFICES ASSUME x \in Under(R) PROVE FALSE
  OBVIOUS
<1>4. PICK j \in 1 .. Size(V[a]) - c : x = R.links[j]
  BY <1>1, <1>2 DEF Under
<1> DEFINE k == c + 1 + j
<1>5. k \in 1 .. Size(V[a]) + 1 /\ i \in 1 .. Size(V[a]) + 1 /\ i # k
  BY <1>1
<1>6. V[a].links[i] = V[a].links[k]
  BY <1>1, <1>3, <1>4
<1> HIDE DEF k
<1> QED
  BY <1>5, <1>6, LinksDiffer

(* redistribute_keys_intermediate, q of neighbours a and b below P, of which z *)
(* got keys and links from w.                                                  *)
SharesNodes(V, V2, U, P, a, b, q, z, w) ==
  /\ V[a].kind \in Interiors /\ Siblings(z, w, a, b)
  /\ Size(V[z]) = NodesDown - 1 /\ Size(V[w]) > NodesDown /\ Size(V[w]) <= NodesUp
  /\ q = RedistributeKeysIntermediate(V[z], V[w], V[P])
  /\ V2[a] = q[1] /\ V2[b] = q[2] /\ V2[P] = q[3]
  /\ \A n \in U \ {a, b, P} :
       V2[n] = IF n \in Under(V2[z]) THEN [V[n] EXCEPT !.parent = z] ELSE V[n]

(* The redistribution between two inner pages, likewise.                      *)
LEMMA NodesShareTree ==
  ASSUME NEW V, NEW V2, NEW U, NEW r, NEW lo, NEW hi, NEW ht, Tree(V, U, r, lo, hi, ht),
         NEW P, NEW p, NEW a, NEW b, Beside(V, U, P, p, a, b),
         NEW q, NEW z, NEW w, SharesNodes(V, V2, U, P, a, b, q, z, w),
         NEW map, Holds(V, U, lo, hi, map)
  PROVE  TreeOf(V2, U, r, map) /\ SharedPages(V, V2, P, a, b) /\ Triple(q)
<1>0. /\ V[a].kind \in Interiors /\ Siblings(z, w, a, b)
      /\ Size(V[z]) = NodesDown - 1 /\ Size(V[w]) > NodesDown /\ Size(V[w]) <= NodesUp
      /\ q = RedistributeKeysIntermediate(V[z], V[w], V[P])
  BY DEF SharesNodes
<1>1. /\ V2[a] = q[1] /\ V2[b] = q[2] /\ V2[P] = q[3]
      /\ \A n \in U \ {a, b, P} :
           V2[n] = IF n \in Under(V2[z]) THEN [V[n] EXCEPT !.parent = z] ELSE V[n]
  BY DEF SharesNodes
<1>2. PICK sep : sep = V[P].keys[p]
  OBVIOUS
<1>3. /\ V[a] \in Node /\ V[b] \in Node /\ Shape(V[a]) /\ Shape(V[b])
      /\ V[a].kind = V[b].kind /\ V[a].parent = P /\ V[b].parent = P
      /\ V[a].number = a /\ V[b].number = b
      /\ sep \in Keys /\ hi[a] = sep /\ KeyBehind(V[P], a) = sep
      /\ Ordered(V[a], lo[a], sep) /\ Ordered(V[b], sep, hi[b])
      /\ lo[a] \in Nat /\ hi[b] \in Nat /\ a \in U /\ b \in U /\ a # b /\ a # P /\ b # P
      /\ P \in U /\ Size(V[a]) \in Nat /\ Size(V[b]) \in Nat /\ Size(V[P]) \in Nat
  BY <1>2, BesideAre
<1>s. /\ Siblings(V[z], V[w], V[a], V[b]) /\ V[z] \in Node /\ V[w] \in Node
      /\ (z = a /\ w = b) \/ (z = b /\ w = a)
  BY <1>0, <1>3 DEF Siblings
<1>4. PICK N : N = MergeNodes(V[a], sep, V[b])
  OBVIOUS
<1>5. /\ InnerHalves(N, V[a], V[b], Size(V[a]), lo[a], sep, hi[b])
      /\ \E c, sep2 :
           /\ InnerHalves(N, q[1], q[2], c, lo[a], sep2, hi[b])
           /\ q[3] = NewSeparator(V[P], a, b, sep2)
      /\ q[2].number = b /\ q = <<q[1], q[2], q[3]>>
      /\ Size(q[1]) \in NodesDown .. NodesUp /\ Size(q[2]) \in NodesDown .. NodesUp
  <2>1. PICK L, R, P0 : L = V[a] /\ R = V[b] /\ P0 = V[P]
    OBVIOUS
  <2>2. PICK n1, n2 : n1 = V[z] /\ n2 = V[w]
    OBVIOUS
  <2>3. /\ L \in Node /\ Shape(L) /\ L.kind \in Interiors /\ R \in Node /\ Shape(R)
        /\ R.kind = L.kind /\ R.parent = L.parent /\ L.number = a /\ R.number = b
        /\ Ordered(L, lo[a], sep) /\ Ordered(R, sep, hi[b])
        /\ KeyBehind(P0, L.number) = sep
    BY <1>0, <1>3, <2>1
  <2>4. /\ n1 \in Node /\ n2 \in Node /\ Siblings(n1, n2, L, R)
        /\ Size(n1) = NodesDown - 1 /\ Size(n2) > NodesDown /\ Size(n2) <= NodesUp
    BY <1>0, <1>s, <2>1, <2>2
  <2>5. N = MergeNodes(L, sep, R) /\ q = RedistributeKeysIntermediate(n1, n2, P0)
    BY <1>0, <1>4, <2>1, <2>2
  <2>6. /\ InnerHalves(N, L, R, Size(L), lo[a], sep, hi[b])
        /\ \E c, sep2 :
             /\ InnerHalves(N, q[1], q[2], c, lo[a], sep2, hi[b])
             /\ q[3] = NewSeparator(P0, L.number, R.number, sep2)
        /\ q[2].number = R.number /\ q = <<q[1], q[2], q[3]>>
        /\ Size(q[1]) \in NodesDown .. NodesUp /\ Size(q[2]) \in NodesDown .. NodesUp
    BY <1>3, <2>3, <2>4, <2>5, RedistributeKeysIntermediateHalves
  <2> QED
    BY <2>1, <2>3, <2>6
<1>6. PICK c, sep2 : /\ InnerHalves(N, q[1], q[2], c, lo[a], sep2, hi[b])
                     /\ q[3] = NewSeparator(V[P], a, b, sep2)
  BY <1>5
<1> DEFINE VJ == [n \in Numbers |-> IF n = a THEN N
                                    ELSE IF n = P THEN DeleteKeyIntermediate(V[P], a)
                                    ELSE IF n \in Under(V[b]) THEN [V[n] EXCEPT !.parent = a]
                                    ELSE V[n]]
<1>7. U \subseteq Numbers
  BY DEF Tree, Numbers
<1>8. /\ VJ[a] = N /\ VJ[P] = DeleteKeyIntermediate(V[P], a)
      /\ \A n \in U \ {a, b, P} :
           VJ[n] = IF n \in Under(V[b]) THEN [V[n] EXCEPT !.parent = a] ELSE V[n]
  BY <1>3, <1>7
<1> HIDE DEF VJ
<1>9. /\ Parted(VJ[a], V[a], V[b], Size(V[a]), lo[a], hi[a], hi[b])
      /\ Parted(VJ[a], V2[a], V2[b], c, lo[a], sep2, hi[b])
  BY <1>0, <1>1, <1>3, <1>5, <1>6, <1>8 DEF Parted
<1>10. \A n \in U \ {a, b, P} :
         Moved(VJ[n], V[n], IF n \in Under(V[b]) THEN a ELSE V[n].parent)
  <2>1. SUFFICES ASSUME NEW n \in U \ {a, b, P}
                 PROVE  Moved(VJ[n], V[n], IF n \in Under(V[b]) THEN a ELSE V[n].parent)
    OBVIOUS
  <2>2. V[n] \in Node /\ a \in Numbers
    BY <1>3, TreePage
  <2>3. Moved([V[n] EXCEPT !.parent = a], V[n], a) /\ Moved(V[n], V[n], V[n].parent)
    BY <2>2, ReparentMoves
  <2>4. VJ[n] = IF n \in Under(V[b]) THEN [V[n] EXCEPT !.parent = a] ELSE V[n]
    BY <1>8
  <2> QED
    BY <2>3, <2>4
<1>11. VJ[a].kind \in Interiors
  BY <1>5, <1>8 DEF InnerHalves
<1>12. /\ \A x : x \in Under(VJ[a]) <=> x \in Under(V[a]) \/ x \in Under(V[b])
       /\ \A x : x \in Under(VJ[a]) <=> x \in Under(V2[a]) \/ x \in Under(V2[b])
  BY <1>9, <1>11, PartedUnder
<1>13. \A x \in Under(V2[a]) : x \notin Under(V2[b])
  <2>1. PICK hi2 : hi2 = [hi EXCEPT ![a] = hi[b]]
    OBVIOUS
  <2>2. /\ P \in U /\ V[P].kind \in Interiors /\ p \in 1 .. Size(V[P])
        /\ a = V[P].links[p] /\ b = V[P].links[p + 1]
    BY DEF Beside
  <2>3. Tree(VJ, U \ {b}, r, lo, hi2, ht)
    BY <1>8, <1>9, <1>10, <2>1, <2>2, TreeMerge
  <2>4. a \in U \ {b}
    BY <1>3
  <2> QED
    BY <1>9, <1>11, <2>3, <2>4, PartsApart
<1>14. Size(V2[a]) = c /\ c \in Nat /\ Size(V2[b]) = Size(N) - c - 1
       /\ Size(V[b]) = Size(N) - Size(V[a]) - 1 /\ Size(N) \in Nat
  <2>1. /\ Size(q[1]) = c /\ Size(q[2]) = Size(N) - c - 1 /\ N \in Node
        /\ c \in 0 .. Size(N) /\ Size(V[b]) = Size(N) - Size(V[a]) - 1
    BY <1>5, <1>6 DEF InnerHalves, Halves
  <2>2. Size(N) \in Nat
    BY <2>1, NodeFields
  <2> QED
    BY <1>1, <2>1, <2>2
<1>15. Size(V2[a]) \in NodesDown .. NodesUp /\ Size(V2[b]) \in NodesDown .. NodesUp
  BY <1>1, <1>5
<1>16. /\ z = a => \A x \in Under(V2[b]) : x \in Under(V[b])
       /\ z = b => \A x \in Under(V[b]) : x \in Under(V2[b])
  <2>1. NodesDown \in Nat
    BY NodesDownIs
  <2>2. CASE z = a
    <3>1. Size(V[a]) <= c
      BY <1>0, <1>3, <1>14, <1>15, <2>1, <2>2
    <3> QED
      BY <1>3, <1>9, <1>11, <2>2, <3>1, LaterParts
  <2>3. CASE z = b
    <3>1. c <= Size(V[a])
      BY <1>0, <1>3, <1>14, <1>15, <2>1, <2>3
    <3> QED
      BY <1>3, <1>9, <1>11, <2>3, <3>1, LaterParts
  <2> QED
    BY <1>s, <2>2, <2>3
<1>17. \A n \in U \ {a, b, P} :
         Moved(V2[n], VJ[n], IF n \in Under(V2[b]) THEN b ELSE VJ[n].parent)
  <2>1. SUFFICES ASSUME NEW n \in U \ {a, b, P}
                 PROVE  Moved(V2[n], VJ[n], IF n \in Under(V2[b]) THEN b ELSE VJ[n].parent)
    OBVIOUS
  <2>2. V[n] \in Node /\ a \in Numbers /\ b \in Numbers /\ z \in Numbers
    BY <1>3, <1>s, TreePage
  <2>3. /\ Moved([V[n] EXCEPT !.parent = z], V[n], z) /\ Moved(V[n], V[n], V[n].parent)
    BY <2>2, ReparentMoves
  <2>4. V2[n] = IF n \in Under(V2[z]) THEN [V[n] EXCEPT !.parent = z] ELSE V[n]
    BY <1>1
  <2>5. Moved(VJ[n], V[n], IF n \in Under(V[b]) THEN a ELSE V[n].parent)
    BY <1>10
  <2>6. Moved(V2[n], V[n], IF n \in Under(V2[z]) THEN z ELSE V[n].parent)
    BY <2>3, <2>4
  <2>7. VJ[n].parent = IF n \in Under(V[b]) THEN a ELSE V[n].parent
    BY <2>5 DEF Moved
  <2>8. n \in Under(V[a]) => V[n].parent = a
    BY <1>0, <1>3, UnderIs
  <2>b. n \in Under(V[b]) => V[n].parent = b
    BY <1>0, <1>3, UnderIs
  <2>9. (IF n \in Under(V2[z]) THEN z ELSE V[n].parent)
          = IF n \in Under(V2[b]) THEN b ELSE VJ[n].parent
    <3>1. /\ n \in Under(V[a]) \/ n \in Under(V[b]) <=> n \in Under(V2[a]) \/ n \in Under(V2[b])
          /\ n \in Under(V2[a]) => n \notin Under(V2[b])
      BY <1>12, <1>13
    <3>2. CASE z = a
      <4>1. n \in Under(V2[b]) => n \in Under(V[b])
        BY <1>16, <3>2
      <4> QED
        BY <2>7, <2>8, <2>b, <3>1, <3>2, <4>1
    <3>3. CASE z = b
      <4>1. n \in Under(V[b]) => n \in Under(V2[b])
        BY <1>16, <3>3
      <4> QED
        BY <2>7, <2>8, <2>b, <3>1, <3>3, <4>1
    <3> QED
      BY <1>s, <3>2, <3>3
  <2> QED
    BY <2>5, <2>6, <2>9 DEF Moved
<1>18. V2[P] = InsertIntoIntermediate(VJ[P], sep2, b) /\ V2[b].number = b
  BY <1>1, <1>5, <1>6, <1>8 DEF NewSeparator
<1>19. Rejoined(V, VJ, V2, U, P, a, b, Size(V[a]), hi[a], c, sep2, lo[a], hi[b])
  BY <1>8, <1>9, <1>10, <1>17, <1>18 DEF Rejoined
<1>20. TreeOf(V2, U, r, map) /\ SharedPages(V, V2, P, a, b)
  BY <1>15, <1>19, RejoinedTree
<1> QED
  BY <1>5, <1>20 DEF Triple

(* A page as the root.                                                         *)
Raised(n, kind) == [n EXCEPT !.kind = kind]

(* A page becomes the root as a page of another kind.                         *)
LEMMA RaisedIs ==
  ASSUME NEW n \in Node, NEW kind \in {"Root", "RootLeaf"},
         (kind \in Leaves) = (n.kind \in Leaves),
         NEW n2, n2 = Raised(n, kind), NEW q, q = n.parent
  PROVE  Recast(n2, n, kind, q)
<1>1. n2 = [n EXCEPT !.kind = kind]
  BY DEF Raised
<1>2. kind \in Leaves \union Interiors
  BY DEF Leaves, Interiors
<1>3. /\ n2 \in Node /\ n2.kind = kind /\ n2.number = n.number /\ n2.parent = n.parent
      /\ n2.keys = n.keys /\ n2.vals = n.vals /\ n2.links = n.links
  BY <1>1, <1>2 DEF Node
<1> QED
  BY <1>2, <1>3 DEF Recast

(* A root without keys gives way to its only child: the map is the same.      *)
LEMMA LiftedTree ==
  ASSUME NEW V, NEW V2, NEW U, NEW r, NEW map, TreeOf(V, U, r, map),
         NEW s, Lifted(V, V2, U, r, s)
  PROVE  TreeOf(V2, U \ {r}, s, map)
<1>1. PICK lo, hi, ht : Tree(V, U, r, lo, hi, ht) /\ Holds(V, U, lo, hi, map)
  BY DEF TreeOf
<1>2. Tree(V2, U \ {r}, s, lo, hi, ht) /\ Holds(V2, U \ {r}, lo, hi, map)
  BY <1>1, TreeShrink
<1> QED
  BY <1>1, <1>2, TreeOfIs

-------------------------------------------------------------------------------
(* The powers of two *)

(* The recursion, up to a number: Pow2 is put together from such functions.    *)
Doubles(f, n) ==
  /\ f \in [0 .. n -> Nat] /\ f[0] = 1
  /\ \A i \in 1 .. n : f[i] = 2 * f[i - 1]

(* There is a table of doublings of each length.                              *)
LEMMA DoublesExist ==
  ASSUME NEW n \in Nat
  PROVE  \E f : Doubles(f, n)
<1> DEFINE S == {i \in Nat : ~\E f : Doubles(f, i)}
<1> SUFFICES ASSUME S # {} PROVE FALSE
  BY Zenon
<1> DEFINE m == Min(S)
<1>1. S \in SUBSET Nat
  OBVIOUS
<1>2. m \in S /\ \A i \in S : m <= i
  BY <1>1, MinIsLeast
<1> HIDE DEF m
<1>3. m \in Nat /\ ~\E f : Doubles(f, m)
  BY <1>2
<1>4. m # 0
  <2> SUFFICES ASSUME m = 0 PROVE FALSE
    OBVIOUS
  <2> DEFINE f == [i \in 0 .. 0 |-> 1]
  <2>1. Doubles(f, 0)
    BY DEF Doubles
  <2> QED
    BY <1>3, <2>1
<1>5. m - 1 \in Nat /\ m - 1 \notin S
  BY <1>2, <1>3, <1>4
<1>6. PICK g : Doubles(g, m - 1)
  BY <1>5
<1> DEFINE f == [i \in 0 .. m |-> IF i = m THEN 2 * g[m - 1] ELSE g[i]]
<1>7. Doubles(f, m)
  <2>1. g \in [0 .. m - 1 -> Nat] /\ g[0] = 1 /\ \A i \in 1 .. m - 1 : g[i] = 2 * g[i - 1]
    BY <1>6 DEF Doubles
  <2>2. f \in [0 .. m -> Nat] /\ f[0] = 1
    BY <1>3, <1>4, <2>1
  <2>3. ASSUME NEW i \in 1 .. m PROVE f[i] = 2 * f[i - 1]
    BY <1>3, <1>4, <2>1
  <2> QED
    BY <2>2, <2>3 DEF Doubles
<1> QED
  BY <1>3, <1>7

(* Two tables of doublings agree where both have an entry.                    *)
LEMMA DoublesAgree ==
  ASSUME NEW n \in Nat, NEW m \in Nat, NEW f, Doubles(f, n), NEW g, Doubles(g, m),
         NEW i \in Nat, i <= n, i <= m
  PROVE  f[i] = g[i]
<1> DEFINE S == {j \in Nat : j <= n /\ j <= m /\ f[j] # g[j]}
<1> SUFFICES ASSUME S # {} PROVE FALSE
  OBVIOUS
<1> DEFINE k == Min(S)
<1>1. S \in SUBSET Nat
  OBVIOUS
<1>2. k \in S /\ \A j \in S : k <= j
  BY <1>1, MinIsLeast
<1> HIDE DEF k
<1>3. k # 0
  BY <1>2 DEF Doubles
<1>4. k - 1 \in Nat /\ k - 1 \notin S /\ k \in 1 .. n /\ k \in 1 .. m
  BY <1>2, <1>3
<1>5. f[k - 1] = g[k - 1]
  BY <1>4
<1> QED
  BY <1>2, <1>4, <1>5 DEF Doubles

(* The recursive definition of Pow2 defines the powers of two.                *)
LEMMA Pow2Is ==
  /\ Pow2 \in [Nat -> Nat] /\ Pow2[0] = 1
  /\ \A n \in Nat : Pow2[n + 1] = 2 * Pow2[n]
<1> DEFINE F(n) == CHOOSE f : Doubles(f, n)
           g == [n \in Nat |-> F(n)[n]]
<1>1. ASSUME NEW n \in Nat PROVE Doubles(F(n), n)
  BY DoublesExist
<1> HIDE DEF F
<1>2. ASSUME NEW n \in Nat PROVE F(n)[n] \in Nat
  BY <1>1 DEF Doubles
<1>3. ASSUME NEW n \in Nat PROVE g[n] = IF n = 0 THEN 1 ELSE 2 * g[n - 1]
  <2>1. CASE n = 0
    BY <1>1, <2>1 DEF Doubles
  <2>2. CASE n # 0
    <3>1. n - 1 \in Nat /\ n \in 1 .. n /\ n - 1 <= n /\ n - 1 <= n - 1
      BY <2>2
    <3>2. F(n)[n] = 2 * F(n)[n - 1]
      BY <1>1, <3>1 DEF Doubles
    <3>3. F(n)[n - 1] = F(n - 1)[n - 1]
      BY <1>1, <3>1, DoublesAgree
    <3> QED
      BY <2>2, <3>1, <3>2, <3>3
  <2> QED
    BY <2>1, <2>2
<1>4. g = [n \in Nat |-> IF n = 0 THEN 1 ELSE 2 * g[n - 1]]
  <2> DEFINE b == [n \in Nat |-> IF n = 0 THEN 1 ELSE 2 * g[n - 1]]
  <2>1. \A n \in Nat : b[n] = g[n]
    BY <1>3
  <2> QED
    BY <2>1
<1> HIDE DEF g
<1>5. Pow2 = [n \in Nat |-> IF n = 0 THEN 1 ELSE 2 * Pow2[n - 1]]
  BY <1>4 DEF Pow2
<1>6. Pow2[0] = 1 /\ \A n \in Nat : Pow2[n + 1] = 2 * Pow2[n]
  <2>1. \A n \in Nat : Pow2[n] = IF n = 0 THEN 1 ELSE 2 * Pow2[n - 1]
    BY <1>5
  <2>2. ASSUME NEW n \in Nat PROVE Pow2[n + 1] = 2 * Pow2[n]
    <3>1. n + 1 \in Nat /\ n + 1 # 0 /\ (n + 1) - 1 = n
      OBVIOUS
    <3> QED
      BY <2>1, <3>1
  <2> QED
    BY <2>1, <2>2
<1>7. \A n \in Nat : Pow2[n] \in Nat
  <2> DEFINE S == {n \in Nat : Pow2[n] \notin Nat}
  <2> SUFFICES ASSUME S # {} PROVE FALSE
    OBVIOUS
  <2> DEFINE k == Min(S)
  <2>1. k \in S /\ \A j \in S : k <= j
    <3>1. S \in SUBSET Nat
      OBVIOUS
    <3> QED
      BY <3>1, MinIsLeast
  <2> HIDE DEF k
  <2>2. k # 0
    BY <1>6, <2>1
  <2>3. k - 1 \in Nat /\ k - 1 \notin S /\ (k - 1) + 1 = k
    BY <2>1, <2>2
  <2>4. Pow2[k] = 2 * Pow2[k - 1] /\ Pow2[k - 1] \in Nat
    BY <1>6, <2>3
  <2> QED
    BY <2>1, <2>4
<1>8. DOMAIN Pow2 = Nat
  BY <1>5
<1>9. Pow2 \in [Nat -> Nat]
  BY <1>5, <1>7, <1>8
<1> QED
  BY <1>6, <1>9

(* The powers of two outgrow their exponents and ascend.                      *)
LEMMA Pow2Grows ==
  /\ \A n \in Nat : n + 1 <= Pow2[n]
  /\ \A m, n \in Nat : m <= n => Pow2[m] <= Pow2[n]
<1>1. /\ \A n \in Nat : Pow2[n] \in Nat
      /\ Pow2[0] = 1 /\ \A n \in Nat : Pow2[n + 1] = 2 * Pow2[n]
  BY Pow2Is
<1>2. ASSUME NEW n \in Nat PROVE n + 1 <= Pow2[n]
  <2> DEFINE S == {i \in Nat : ~(i + 1 <= Pow2[i])}
  <2> SUFFICES ASSUME S # {} PROVE FALSE
    OBVIOUS
  <2> DEFINE k == Min(S)
  <2>1. k \in S /\ \A j \in S : k <= j
    <3>1. S \in SUBSET Nat
      OBVIOUS
    <3> QED
      BY <3>1, MinIsLeast
  <2> HIDE DEF k
  <2>2. k # 0
    BY <1>1, <2>1
  <2>3. k - 1 \in Nat /\ k - 1 \notin S /\ (k - 1) + 1 = k
    BY <2>1, <2>2
  <2>4. Pow2[k] = 2 * Pow2[k - 1] /\ Pow2[k - 1] \in Nat /\ k <= Pow2[k - 1]
    BY <1>1, <2>3
  <2> QED
    BY <2>1, <2>2, <2>4
<1>3. ASSUME NEW m \in Nat, NEW n \in Nat, m <= n PROVE Pow2[m] <= Pow2[n]
  <2> DEFINE S == {i \in Nat : m <= i /\ ~(Pow2[m] <= Pow2[i])}
  <2> SUFFICES ASSUME S # {} PROVE FALSE
    BY <1>3
  <2> DEFINE k == Min(S)
  <2>1. k \in S /\ \A j \in S : k <= j
    <3>1. S \in SUBSET Nat
      OBVIOUS
    <3> QED
      BY <3>1, MinIsLeast
  <2> HIDE DEF k
  <2>2. k # m
    BY <1>1, <2>1
  <2>3. k - 1 \in Nat /\ m <= k - 1 /\ k - 1 \notin S /\ (k - 1) + 1 = k
    BY <2>1, <2>2
  <2>4. /\ Pow2[k] = 2 * Pow2[k - 1] /\ Pow2[k - 1] \in Nat
        /\ Pow2[m] <= Pow2[k - 1] /\ Pow2[m] \in Nat
    BY <1>1, <2>3
  <2> QED
    BY <2>1, <2>4
<1> QED
  BY <1>2, <1>3

(* Levels bounds the height of every tree that fits in the pages.             *)
LEMMA LevelsIs ==
  /\ Levels \in Nat /\ Cardinality(PageNums) \in Nat
  /\ \A h \in Nat : Pow2[h] <= Cardinality(PageNums) => h <= Levels
<1> DEFINE N == Cardinality(PageNums)
           S == {h \in Nat : N + 1 < Pow2[h + 1]}
           h == Min(S)
<1>1. N \in Nat
  BY BTreeAssumption, BTreeNodeAssumption, FS_CardinalityType
<1> HIDE DEF N
<1>2. /\ \A n \in Nat : Pow2[n] \in Nat
      /\ Pow2[0] = 1 /\ \A n \in Nat : Pow2[n + 1] = 2 * Pow2[n]
      /\ \A n \in Nat : n + 1 <= Pow2[n]
      /\ \A m, n \in Nat : m <= n => Pow2[m] <= Pow2[n]
  BY Pow2Is, Pow2Grows
<1>3. N \in S
  <2>1. N + 1 \in Nat /\ (N + 1) + 1 <= Pow2[N + 1] /\ Pow2[N + 1] \in Nat
    BY <1>1, <1>2
  <2> QED
    BY <1>1, <2>1
<1>4. h \in S /\ h <= N
  <2>1. S \in SUBSET Nat /\ S # {}
    BY <1>3
  <2> QED
    BY <1>3, <2>1, MinIsLeast
<1>5. \A i \in S : h <= i
  <2>1. S \in SUBSET Nat /\ S # {}
    BY <1>3
  <2> QED
    BY <2>1, MinIsLeast
<1> HIDE DEF h
<1>6. Pow2[h] <= N + 1
  <2>1. CASE h = 0
    BY <1>1, <1>2, <2>1
  <2>2. CASE h # 0
    <3>1. h - 1 \in Nat /\ h - 1 \notin S /\ (h - 1) + 1 = h
      BY <1>4, <1>5, <2>2
    <3> QED
      BY <1>1, <1>2, <1>4, <3>1
  <2> QED
    BY <2>1, <2>2
<1>7. h \in 0 .. N /\ Pow2[h] <= N + 1 /\ N + 1 < Pow2[h + 1]
  BY <1>1, <1>4, <1>6
<1>8. /\ Levels \in 0 .. N
      /\ Pow2[Levels] <= N + 1 /\ N + 1 < Pow2[Levels + 1]
  BY <1>7 DEF Levels, N
<1>9. ASSUME NEW i \in Nat, Pow2[i] <= N PROVE i <= Levels
  <2> SUFFICES ASSUME ~(i <= Levels) PROVE FALSE
    OBVIOUS
  <2>1. Levels \in Nat /\ Levels + 1 \in Nat /\ Levels + 1 <= i
    BY <1>1, <1>8
  <2>2. Pow2[Levels + 1] <= Pow2[i] /\ Pow2[i] \in Nat /\ Pow2[Levels + 1] \in Nat
    BY <1>2, <2>1
  <2> QED
    BY <1>1, <1>8, <1>9, <2>2
<1>10. Levels \in Nat
  BY <1>1, <1>8
<1> QED
  BY <1>1, <1>9, <1>10 DEF N

-------------------------------------------------------------------------------
(* The height of a tree *)

(* Inner pages have at least two links.                                        *)
Wide(V, U) == \A n \in U : V[n].kind \in Interiors => Size(V[n]) >= 1

(* The pages of height d.                                                     *)
AtHeight(U, ht, d) == {n \in U : ht[n] = d}

(* The pages of a tree, and those of one height, can be counted.              *)
LEMMA PagesFinite ==
  ASSUME NEW U, U \subseteq PageNums, NEW ht, NEW d
  PROVE  /\ IsFiniteSet(U) /\ Cardinality(U) \in Nat
         /\ Cardinality(U) <= Cardinality(PageNums)
         /\ IsFiniteSet(AtHeight(U, ht, d)) /\ Cardinality(AtHeight(U, ht, d)) \in Nat
         /\ Cardinality(AtHeight(U, ht, d)) <= Cardinality(U)
<1>1. IsFiniteSet(U) /\ Cardinality(U) <= Cardinality(PageNums)
  BY BTreeAssumption, BTreeNodeAssumption, FS_Subset
<1>2. /\ IsFiniteSet(AtHeight(U, ht, d))
      /\ Cardinality(AtHeight(U, ht, d)) <= Cardinality(U)
  <2>1. AtHeight(U, ht, d) \in SUBSET U
    BY DEF AtHeight
  <2> QED
    BY <1>1, <2>1, FS_Subset
<1> QED
  BY <1>1, <1>2, FS_CardinalityType

(* Each height has twice the pages of the one above, or more.                  *)
LEMMA HeightDoubles ==
  ASSUME NEW V, NEW U, NEW r, NEW lo, NEW hi, NEW ht, Tree(V, U, r, lo, hi, ht),
         Wide(V, U), NEW d \in Nat
  PROVE  2 * Cardinality(AtHeight(U, ht, d + 1)) <= Cardinality(AtHeight(U, ht, d))
<1> DEFINE A == AtHeight(U, ht, d + 1)
           B == AtHeight(U, ht, d)
           f == [q \in A \X (1 .. 2) |-> V[q[1]].links[q[2]]]
<1>1. U \subseteq PageNums
  BY DEF Tree
<1>2. /\ IsFiniteSet(A) /\ Cardinality(A) \in Nat
      /\ IsFiniteSet(B) /\ Cardinality(B) \in Nat
  BY <1>1, PagesFinite
<1>3. ASSUME NEW n \in A
      PROVE  /\ n \in U /\ V[n].kind \in Interiors
             /\ 1 .. 2 \subseteq 1 .. Size(V[n]) + 1
  <2>1. n \in U /\ ht[n] # 0
    BY DEF AtHeight
  <2>2. V[n].kind \in Interiors /\ Size(V[n]) \in Nat
    BY <2>1, TreePage
  <2>3. Size(V[n]) >= 1
    BY <2>1, <2>2 DEF Wide
  <2> QED
    BY <2>1, <2>2, <2>3
<1>4. ASSUME NEW n \in A, NEW i \in 1 .. 2
      PROVE  V[n].links[i] \in B /\ V[V[n].links[i]].parent = n
  <2> DEFINE c == V[n].links[i]
  <2>1. n \in U /\ V[n].kind \in Interiors /\ i \in 1 .. Size(V[n]) + 1
    BY <1>3
  <2>2. c \in U /\ V[c].parent = n /\ ht[n] = ht[c] + 1
    BY <2>1, TreeChild
  <2>3. ht[n] = d + 1 /\ ht[c] \in Nat
    BY <2>2, TreePage DEF AtHeight
  <2>4. ht[c] = d
    BY <2>2, <2>3
  <2> QED
    BY <2>2, <2>4 DEF AtHeight
<1>5. f \in [A \X (1 .. 2) -> B]
  BY <1>4
<1>6. ASSUME NEW n \in A, NEW i \in 1 .. 2, NEW m \in A, NEW j \in 1 .. 2,
             V[n].links[i] = V[m].links[j]
      PROVE  n = m /\ i = j
  <2>1. n = m
    BY <1>4, <1>6
  <2>2. n \in U /\ V[n].kind \in Interiors
        /\ i \in 1 .. Size(V[n]) + 1 /\ j \in 1 .. Size(V[n]) + 1
    BY <1>3, <2>1
  <2>3. V[n].links[i] = V[n].links[j]
    BY <1>6, <2>1
  <2> QED
    BY <2>1, <2>2, <2>3, LinksDiffer
<1>7. f \in Injection(A \X (1 .. 2), B)
  <2>1. ASSUME NEW p \in A \X (1 .. 2), NEW q \in A \X (1 .. 2), f[p] = f[q]
        PROVE  p = q
    <3>1. /\ p = <<p[1], p[2]>> /\ q = <<q[1], q[2]>>
          /\ p[1] \in A /\ p[2] \in 1 .. 2 /\ q[1] \in A /\ q[2] \in 1 .. 2
      OBVIOUS
    <3>2. V[p[1]].links[p[2]] = V[q[1]].links[q[2]]
      BY <2>1
    <3>3. p[1] = q[1] /\ p[2] = q[2]
      BY <1>6, <3>1, <3>2
    <3> QED
      BY <3>1, <3>3
  <2> QED
    BY <1>5, <2>1 DEF Injection, IsInjective
<1>8. IsFiniteSet(1 .. 2) /\ Cardinality(1 .. 2) = 2
  <2>1. 1 \in Int /\ 2 \in Int /\ ~(1 > 2) /\ 2 - 1 + 1 = 2
    OBVIOUS
  <2>2. /\ IsFiniteSet(1 .. 2)
        /\ Cardinality(1 .. 2) = IF 1 > 2 THEN 0 ELSE 2 - 1 + 1
    BY <2>1, FS_Interval
  <2> QED
    BY <2>1, <2>2
<1>9. Cardinality(A \X (1 .. 2)) = Cardinality(A) * 2
  BY <1>2, <1>8, FS_Product
<1>10. Cardinality(A \X (1 .. 2)) <= Cardinality(B)
  BY <1>2, <1>7, FS_Injection
<1> HIDE DEF A, B
<1>11. 2 * Cardinality(A) <= Cardinality(B)
  BY <1>2, <1>9, <1>10
<1> QED
  BY <1>11 DEF A, B

(* A search walks enough levels.                                               *)
LEMMA HeightInLevels ==
  ASSUME NEW V, NEW U, NEW r, NEW lo, NEW hi, NEW ht, Tree(V, U, r, lo, hi, ht),
         Wide(V, U)
  PROVE  ht[r] \in Nat /\ ht[r] <= Levels
<1> DEFINE C(d) == Cardinality(AtHeight(U, ht, d))
<1>1. r \in U /\ U \subseteq PageNums /\ ht[r] \in Nat
  <2>1. r \in U /\ U \subseteq PageNums
    BY DEF Tree, RootOK
  <2> QED
    BY <2>1, TreePage
<1>2. /\ \A n \in Nat : Pow2[n] \in Nat
      /\ Pow2[0] = 1 /\ \A n \in Nat : Pow2[n + 1] = 2 * Pow2[n]
  BY Pow2Is
<1>3. \A d : C(d) \in Nat
  BY <1>1, PagesFinite
<1>4. \A d \in Nat : 2 * C(d + 1) <= C(d)
  BY HeightDoubles
<1>5. C(ht[r]) >= 1
  <2>1. r \in AtHeight(U, ht, ht[r]) /\ IsFiniteSet(AtHeight(U, ht, ht[r]))
    BY <1>1, PagesFinite DEF AtHeight
  <2>2. C(ht[r]) # 0
    BY <2>1, FS_EmptySet
  <2> QED
    BY <1>3, <2>2
<1>6. C(0) <= Cardinality(PageNums)
  <2>1. C(0) \in Nat /\ C(0) <= Cardinality(U) /\ Cardinality(U) \in Nat
        /\ Cardinality(U) <= Cardinality(PageNums)
    BY <1>1, PagesFinite
  <2> QED
    BY <2>1, LevelsIs
<1> HIDE DEF C
<1> DEFINE H == ht[r]
           S == {h \in Nat : h <= H /\ ~(Pow2[h] <= C(H - h))}
<1>7. S = {}
  <2> SUFFICES ASSUME S # {} PROVE FALSE
    OBVIOUS
  <2> DEFINE k == Min(S)
  <2>1. k \in S /\ \A j \in S : k <= j
    <3>1. S \in SUBSET Nat
      OBVIOUS
    <3> QED
      BY <3>1, MinIsLeast
  <2> HIDE DEF k
  <2>2. k # 0
    <3>1. H - 0 = H
      BY <1>1
    <3> QED
      BY <1>2, <1>5, <2>1, <3>1
  <2>3. k - 1 \in Nat /\ k - 1 \notin S /\ (k - 1) + 1 = k /\ k - 1 <= H
    BY <1>1, <2>1, <2>2
  <2>4. /\ Pow2[k] = 2 * Pow2[k - 1] /\ Pow2[k - 1] \in Nat
        /\ Pow2[k - 1] <= C(H - (k - 1))
    BY <1>2, <2>3
  <2>5. H - k \in Nat /\ H - (k - 1) = (H - k) + 1
    BY <1>1, <2>1
  <2>6. 2 * C(H - (k - 1)) <= C(H - k)
    BY <1>4, <2>5
  <2>7. C(H - k) \in Nat /\ C(H - (k - 1)) \in Nat
    BY <1>3
  <2>8. Pow2[k] <= C(H - k)
    BY <2>4, <2>6, <2>7
  <2> QED
    BY <2>1, <2>8
<1>8. Pow2[H] <= C(0)
  <2>1. H \in Nat /\ H <= H /\ H - H = 0
    BY <1>1
  <2> QED
    BY <1>7, <2>1
<1>9. Pow2[H] <= Cardinality(PageNums)
  <2>1. Pow2[H] \in Nat /\ C(0) \in Nat /\ Cardinality(PageNums) \in Nat
    BY <1>1, <1>2, <1>3, LevelsIs
  <2> QED
    BY <1>6, <1>8, <2>1
<1> QED
  BY <1>1, <1>9, LevelsIs

-------------------------------------------------------------------------------
(* Searches *)

(* At each height one page at most answers for a key.                         *)
LEMMA OneAnswers ==
  ASSUME NEW V, NEW U, NEW r, NEW lo, NEW hi, NEW ht, Tree(V, U, r, lo, hi, ht),
         NEW m \in U, NEW n \in U, ht[m] = ht[n], NEW k \in Keys,
         Answers(lo, hi, m, k), Answers(lo, hi, n, k)
  PROVE  m = n
<1>1. m # n => hi[m] <= lo[n] \/ hi[n] <= lo[m]
  BY DEF Tree, Apart
<1>2. /\ lo[m] \in Nat /\ hi[m] \in Nat /\ lo[n] \in Nat /\ hi[n] \in Nat
      /\ k \in Nat
  BY TreePage, NumbersAreNat
<1>3. lo[m] <= k /\ k < hi[m] /\ lo[n] <= k /\ k < hi[n]
  BY DEF Answers
<1> QED
  BY <1>1, <1>2, <1>3

(* One level down.                                                             *)
LEMMA StepDown ==
  ASSUME NEW V, NEW U, NEW r, NEW lo, NEW hi, NEW ht, Tree(V, U, r, lo, hi, ht),
         NEW n \in U, V[n].kind \in Interiors, NEW k \in Keys,
         Answers(lo, hi, n, k), NEW c, c = LinkFor(V[n], k)
  PROVE  c \in U /\ ht[n] = ht[c] + 1 /\ Answers(lo, hi, c, k)
<1> DEFINE p == FindPos(V[n], k)
<1>1. V[n] \in Node /\ lo[n] \in Nat /\ hi[n] \in Nat /\ Size(V[n]) \in Nat
  BY TreePage
<1>2. k \in Nat /\ V[n].keys \in Seq(Nat)
  BY <1>1, NumbersAreNat, NodeFields
<1>3. /\ p \in 0 .. Size(V[n])
      /\ \A j \in 1 .. p : V[n].keys[j] <= k
      /\ p < Size(V[n]) => V[n].keys[p + 1] > k
  BY <1>2, FindPosStops
<1>4. c = V[n].links[p + 1]
  BY DEF LinkFor
<1> HIDE DEF p
<1>5. p + 1 \in 1 .. Size(V[n]) + 1 /\ (p + 1) - 1 = p
  BY <1>1, <1>3
<1>6. /\ c \in U /\ ht[n] = ht[c] + 1
      /\ lo[c] = Fence(V[n], lo[n], hi[n], p)
      /\ hi[c] = Fence(V[n], lo[n], hi[n], p + 1)
  BY <1>4, <1>5, TreeChild
<1>7. lo[n] <= k /\ k < hi[n]
  BY DEF Answers
<1>8. Fence(V[n], lo[n], hi[n], p) <= k
  <2>1. CASE p = 0
    BY <1>7, <2>1 DEF Fence
  <2>2. CASE p # 0
    <3>1. p \in 1 .. p /\ p # Size(V[n]) + 1
      BY <1>1, <1>3, <2>2
    <3> QED
      BY <1>3, <2>2, <3>1 DEF Fence
  <2> QED
    BY <2>1, <2>2
<1>9. k < Fence(V[n], lo[n], hi[n], p + 1)
  <2>1. CASE p = Size(V[n])
    <3>1. p + 1 # 0
      BY <1>3
    <3> QED
      BY <1>7, <2>1, <3>1 DEF Fence
  <2>2. CASE p # Size(V[n])
    <3>1. p < Size(V[n]) /\ p + 1 # Size(V[n]) + 1 /\ p + 1 # 0
          /\ p + 1 \in 1 .. Size(V[n])
      BY <1>1, <1>3, <2>2
    <3>2. V[n].keys[p + 1] > k /\ V[n].keys[p + 1] \in Nat
      BY <1>1, <1>3, <3>1, NodeFields
    <3>3. k < V[n].keys[p + 1]
      BY <1>2, <3>2
    <3> QED
      BY <3>1, <3>3 DEF Fence
  <2> QED
    BY <2>1, <2>2
<1> QED
  BY <1>6, <1>8, <1>9 DEF Answers

(* A finite set of numbers that is not empty has a greatest one.              *)
LEMMA GreatestOfFinite ==
  ASSUME NEW S \in SUBSET Nat, IsFiniteSet(S), S # {}
  PROVE  \E m \in S : \A x \in S : x <= m
<1> DEFINE n == Cardinality(S)
<1>1. n \in Nat /\ ExistsBijection(1 .. n, S)
  BY FS_CardinalityType
<1>2. PICK f \in [1 .. n -> S] : \A x \in S : \E i \in 1 .. n : f[i] = x
  <2>1. PICK f : f \in Bijection(1 .. n, S)
    BY <1>1 DEF ExistsBijection
  <2> QED
    BY <2>1 DEF Bijection, Injection, Surjection
<1> HIDE DEF n
<1>3. \A i \in 1 .. n : f[i] \in Nat
  BY <1>2
<1> DEFINE Bound(i, b) == b \in Nat /\ \A j \in 1 .. i : f[j] <= b
           B == {i \in Nat : i <= n /\ ~\E b : Bound(i, b)}
<1>4. Bound(0, 0)
  OBVIOUS
<1>5. ASSUME NEW i \in Nat, i + 1 <= n, NEW b, Bound(i, b)
      PROVE  \E c : Bound(i + 1, c)
  <2> DEFINE c == IF f[i + 1] <= b THEN b ELSE f[i + 1]
  <2>1. i + 1 \in 1 .. n /\ f[i + 1] \in Nat /\ b \in Nat
    BY <1>1, <1>3, <1>5
  <2>2. c \in Nat /\ b <= c /\ f[i + 1] <= c
    BY <2>1
  <2> HIDE DEF c
  <2>3. ASSUME NEW j \in 1 .. i + 1 PROVE f[j] <= c
    <3>1. CASE j = i + 1
      BY <2>2, <3>1
    <3>2. CASE j # i + 1
      <4>1. j \in 1 .. i /\ j \in 1 .. n
        BY <1>1, <1>5, <3>2
      <4>2. f[j] <= b /\ f[j] \in Nat
        BY <1>3, <1>5, <4>1
      <4> QED
        BY <2>1, <2>2, <4>2
    <3> QED
      BY <3>1, <3>2
  <2>4. Bound(i + 1, c)
    BY <2>2, <2>3
  <2> QED
    BY <2>4
<1> HIDE DEF Bound
<1>6. B = {}
  <2> SUFFICES ASSUME B # {} PROVE FALSE
    OBVIOUS
  <2> DEFINE i == Min(B)
  <2>1. i \in B /\ \A j \in B : i <= j
    <3>1. B \in SUBSET Nat
      OBVIOUS
    <3> QED
      BY <3>1, MinIsLeast
  <2> HIDE DEF i
  <2>2. i # 0
    BY <1>4, <2>1
  <2>3. /\ i - 1 \in Nat /\ i - 1 <= n /\ i - 1 \notin B
        /\ (i - 1) + 1 = i /\ (i - 1) + 1 <= n
    BY <1>1, <2>1, <2>2
  <2>4. PICK b : Bound(i - 1, b)
    BY <2>3
  <2>5. \E c : Bound((i - 1) + 1, c)
    BY <1>5, <2>3, <2>4
  <2> QED
    BY <2>1, <2>3, <2>5
<1>7. PICK b : Bound(n, b)
  <2>1. n \notin B
    BY <1>6
  <2>2. n \in Nat /\ n <= n
    BY <1>1
  <2> QED
    BY <2>1, <2>2
<1> DEFINE C == {c \in Nat : \A x \in S : x <= c}
           m == Min(C)
<1>8. b \in C
  BY <1>2, <1>7 DEF Bound
<1>9. m \in C /\ \A c \in C : m <= c
  <2>1. C \in SUBSET Nat /\ C # {}
    BY <1>8
  <2> QED
    BY <2>1, MinIsLeast
<1> HIDE DEF m
<1>10. ASSUME m \notin S PROVE FALSE
  <2>1. m \in Nat /\ \A x \in S : x \in Nat /\ x <= m /\ x # m
    BY <1>9, <1>10
  <2>2. PICK x \in S : TRUE
    OBVIOUS
  <2>3. m # 0
    BY <2>1, <2>2
  <2>4. m - 1 \in C /\ ~(m <= m - 1)
    BY <2>1, <2>3
  <2> QED
    BY <1>9, <2>4
<1> QED
  BY <1>9, <1>10

(* The root answers for every key.                                            *)
LEMMA RootAnswers ==
  ASSUME NEW V, NEW U, NEW r, NEW lo, NEW hi, NEW ht, Tree(V, U, r, lo, hi, ht),
         NEW k \in Keys
  PROVE  r \in U /\ Answers(lo, hi, r, k)
<1>1. r \in U /\ lo[r] = 0 /\ hi[r] = Max(Keys) + 1 /\ k \in Nat
  BY NumbersAreNat DEF Tree, RootOK
<1>2. k <= Max(Keys) /\ Max(Keys) \in Nat
  <2>1. Keys \in SUBSET Nat /\ IsFiniteSet(Keys)
    BY BTreeAssumption, BTreeNodeAssumption
  <2>2. PICK mx \in Keys : \A x \in Keys : x <= mx
    BY <2>1, GreatestOfFinite
  <2>3. Max(Keys) = mx
    BY <2>1, <2>2, MaxIs
  <2> QED
    BY <2>1, <2>2, <2>3
<1> QED
  BY <1>1, <1>2 DEF Answers

(* bt_search from the root comes to the leaf that answers for the key.         *)
LEMMA DescentIs ==
  ASSUME NEW V, NEW U, NEW r, NEW lo, NEW hi, NEW ht, Tree(V, U, r, lo, hi, ht),
         Wide(V, U), NEW k \in Keys
  PROVE  /\ \A h \in 0 .. Levels : \E n \in U : Descent(V, V[r], k)[h] = V[n]
         /\ \E n \in U : /\ Search(V, V[r], k) = V[n] /\ V[n].kind \in Leaves
                         /\ Answers(lo, hi, n, k)
<1> DEFINE H == ht[r]
           At(h, n) == n \in U /\ ht[n] = (IF h <= H THEN H - h ELSE 0)
                       /\ Answers(lo, hi, n, k)
           W(h) == CHOOSE n \in U : At(h, n)
           g == [h \in 0 .. Levels |-> V[W(h)]]
<1>1. H \in Nat /\ Levels \in Nat /\ H <= Levels
  BY HeightInLevels, LevelsIs
<1>2. r \in U /\ Answers(lo, hi, r, k)
  BY RootAnswers
<1>3. At(0, r)
  BY <1>1, <1>2
<1>4. ASSUME NEW h \in Nat, NEW m, NEW n, At(h, m), At(h, n) PROVE m = n
  BY <1>4, OneAnswers
<1>5. ASSUME NEW h \in Nat, NEW n, At(h, n), V[n].kind \in Interiors
      PROVE  At(h + 1, LinkFor(V[n], k))
  <2> DEFINE c == LinkFor(V[n], k)
  <2>1. c \in U /\ ht[n] = ht[c] + 1 /\ Answers(lo, hi, c, k)
    BY <1>5, StepDown
  <2>2. ht[c] \in Nat
    BY <2>1, TreePage
  <2>3. h <= H /\ h + 1 <= H /\ ht[c] = H - (h + 1)
    BY <1>1, <1>5, <2>1, <2>2
  <2> QED
    BY <2>1, <2>3
<1>6. ASSUME NEW h \in Nat, NEW n, At(h, n), V[n].kind \notin Interiors
      PROVE  At(h + 1, n)
  <2>1. V[n].kind \in Leaves /\ ht[n] = 0
    BY <1>6, TreePage
  <2>2. h + 1 <= H => h <= H /\ H - h # 0
    BY <1>1
  <2> QED
    BY <1>6, <2>1, <2>2
<1> HIDE DEF At
<1>7. ASSUME NEW h \in Nat PROVE \E n : At(h, n)
  <2> DEFINE S == {i \in Nat : ~\E n : At(i, n)}
  <2> SUFFICES ASSUME S # {} PROVE FALSE
    BY Zenon
  <2> DEFINE j == Min(S)
  <2>1. j \in S /\ \A i \in S : j <= i
    <3>1. S \in SUBSET Nat
      OBVIOUS
    <3> QED
      BY <3>1, MinIsLeast
  <2> HIDE DEF j
  <2>2. j # 0
    BY <1>3, <2>1
  <2>3. j - 1 \in Nat /\ j - 1 \notin S /\ (j - 1) + 1 = j
    BY <2>1, <2>2
  <2>4. PICK n : At(j - 1, n)
    BY <2>3
  <2>5. \E m : At((j - 1) + 1, m)
    BY <1>5, <1>6, <2>3, <2>4
  <2> QED
    BY <2>1, <2>3, <2>5
<1>8. ASSUME NEW h \in Nat PROVE W(h) \in U /\ At(h, W(h))
  <2>1. \E n \in U : At(h, n)
    BY <1>7 DEF At
  <2> QED
    BY <2>1
<1>9. W(0) = r
  BY <1>3, <1>4, <1>8
<1>10. ASSUME NEW h \in Nat
       PROVE  V[W(h + 1)] = IF V[W(h)].kind \in Interiors
                            THEN V[LinkFor(V[W(h)], k)] ELSE V[W(h)]
  <2>1. h + 1 \in Nat
    OBVIOUS
  <2>2. At(h, W(h)) /\ At(h + 1, W(h + 1))
    BY <1>8, <2>1
  <2> HIDE DEF W
  <2>3. CASE V[W(h)].kind \in Interiors
    BY <1>4, <1>5, <2>1, <2>2, <2>3
  <2>4. CASE V[W(h)].kind \notin Interiors
    BY <1>4, <1>6, <2>1, <2>2, <2>4
  <2> QED
    BY <2>3, <2>4
<1> HIDE DEF W
<1> DEFINE Step(f) ==
      [h \in 0 .. Levels |->
         IF h = 0 THEN V[r]
         ELSE LET n == f[h - 1]
              IN  IF n.kind \in Interiors THEN V[LinkFor(n, k)] ELSE n]
<1>11. g = Step(g)
  <2>1. ASSUME NEW h \in 0 .. Levels PROVE g[h] = Step(g)[h]
    <3>1. CASE h = 0
      BY <1>9, <3>1
    <3>2. CASE h # 0
      <4>1. h - 1 \in Nat /\ h - 1 \in 0 .. Levels /\ (h - 1) + 1 = h
        BY <1>1, <3>2
      <4>2. g[h - 1] = V[W(h - 1)] /\ g[h] = V[W((h - 1) + 1)]
        BY <4>1
      <4> HIDE DEF g
      <4>3. g[h] = IF V[W(h - 1)].kind \in Interiors
                   THEN V[LinkFor(V[W(h - 1)], k)] ELSE V[W(h - 1)]
        BY <1>10, <4>1, <4>2
      <4> QED
        BY <3>2, <4>2, <4>3
    <3> QED
      BY <3>1, <3>2
  <2> DEFINE b == Step(g)
  <2>2. DOMAIN b = 0 .. Levels /\ b = [h \in 0 .. Levels |-> b[h]]
    OBVIOUS
  <2>3. \A h \in 0 .. Levels : g[h] = b[h]
    BY <2>1
  <2> HIDE DEF b
  <2>4. g = [h \in 0 .. Levels |-> b[h]]
    BY <2>3
  <2> QED
    BY <2>2, <2>4 DEF b
<1> DEFINE at == Descent(V, V[r], k)
<1> HIDE DEF g
<1>12. at = Step(at)
  BY <1>11 DEF Descent
<1> HIDE DEF at
<1>13. \A h \in 0 .. Levels : at[h] = V[W(h)]
  <2> DEFINE S == {h \in 0 .. Levels : at[h] # V[W(h)]}
  <2> SUFFICES ASSUME S # {} PROVE FALSE
    OBVIOUS
  <2> DEFINE j == Min(S)
  <2>1. j \in S /\ \A i \in S : j <= i
    <3>1. S \in SUBSET Nat
      OBVIOUS
    <3> QED
      BY <3>1, MinIsLeast
  <2> HIDE DEF j
  <2>2. j # 0
    <3>1. 0 \in 0 .. Levels
      BY <1>1
    <3>2. at[0] = V[r]
      BY <1>12, <3>1
    <3> QED
      BY <1>9, <2>1, <3>2
  <2>3. /\ j - 1 \in Nat /\ j - 1 \in 0 .. Levels /\ j - 1 \notin S /\ (j - 1) + 1 = j
        /\ j \in 0 .. Levels
    BY <1>1, <2>1, <2>2
  <2>4. at[j - 1] = V[W(j - 1)]
    BY <2>3
  <2>5. at[j] = IF at[j - 1].kind \in Interiors
                THEN V[LinkFor(at[j - 1], k)] ELSE at[j - 1]
    BY <1>12, <2>2, <2>3
  <2>6. at[j] = V[W(j)]
    BY <1>10, <2>3, <2>4, <2>5
  <2> QED
    BY <2>1, <2>6
<1>14. Search(V, V[r], k) = V[W(Levels)]
  BY <1>1, <1>13 DEF Search, at
<1>15. At(Levels, W(Levels))
  BY <1>1, <1>8
<1>16. W(Levels) \in U /\ ht[W(Levels)] = 0 /\ Answers(lo, hi, W(Levels), k)
  BY <1>1, <1>15 DEF At
<1>17. \A h \in 0 .. Levels : \E n \in U : Descent(V, V[r], k)[h] = V[n]
  <2> SUFFICES ASSUME NEW h \in 0 .. Levels PROVE \E n \in U : at[h] = V[n]
    BY DEF at
  <2>1. h \in Nat
    OBVIOUS
  <2> QED
    BY <1>8, <1>13, <2>1
<1>18. \E n \in U : /\ Search(V, V[r], k) = V[n] /\ V[n].kind \in Leaves
                     /\ Answers(lo, hi, n, k)
  BY <1>14, <1>16, TreePage
<1> QED
  BY <1>17, <1>18

(* The leaf that a search comes to.                                           *)
LEMMA SearchIs ==
  ASSUME NEW V, NEW U, NEW r, NEW lo, NEW hi, NEW ht, Tree(V, U, r, lo, hi, ht),
         Wide(V, U), NEW k \in Keys
  PROVE  \E n \in U : /\ Search(V, V[r], k) = V[n] /\ V[n].kind \in Leaves
                      /\ Answers(lo, hi, n, k)
BY DescentIs

(* The pages between calls have at least the links that make a tree wide, and  *)
(* so has a tree in which a climbing recursion is at a page.                   *)
LEMMA FilledWide ==
  ASSUME NEW V, NEW U, NEW r, NEW lo, NEW hi, NEW ht, Tree(V, U, r, lo, hi, ht),
         NEW X, Filled(V, U, X), \A n \in U \intersect X : Size(V[n]) >= 1
  PROVE  Wide(V, U)
<1> SUFFICES ASSUME NEW n \in U, V[n].kind \in Interiors PROVE Size(V[n]) >= 1
  BY DEF Wide
<1>1. CASE n \in X
  BY <1>1
<1>2. CASE n \notin X
  <2>1. Size(V[n]) \in Least(V[n]) .. NodesUp /\ Size(V[n]) \in Nat
    BY <1>2, TreePage DEF Filled
  <2>2. Least(V[n]) \in {1, NodesDown}
    BY DEF Least, Interiors
  <2>3. NodesDown \in Nat /\ NodesDown >= 2
    BY NodesDownIs
  <2> QED
    BY <2>1, <2>2, <2>3
<1> QED
  BY <1>1, <1>2

(* The tree holds the map: the searches of all keys find it.                   *)
LEMMA ContentsIs ==
  ASSUME NEW V, NEW U, NEW r, NEW lo, NEW hi, NEW ht, Tree(V, U, r, lo, hi, ht),
         Wide(V, U), NEW m \in [Keys -> Values \union {Absent}],
         Holds(V, U, lo, hi, m)
  PROVE  ContentsOf(V, V[r]) = m
<1>1. ASSUME NEW k \in Keys PROVE ValueIn(Search(V, V[r], k), k) = m[k]
  <2>1. PICK n \in U : /\ Search(V, V[r], k) = V[n] /\ V[n].kind \in Leaves
                       /\ Answers(lo, hi, n, k)
    BY SearchIs
  <2> QED
    BY <2>1 DEF Holds, Answers
<1>2. m = [k \in Keys |-> m[k]]
  OBVIOUS
<1> QED
  BY <1>1, <1>2 DEF ContentsOf

-------------------------------------------------------------------------------
(* The walk from the root *)

(* A page with the bounds that a traversal from the root comes to it with.    *)
FrameOf(lo, hi, n) == <<n, lo[n], hi[n]>>

(* The pages of a set, with their bounds.                                     *)
FramesOf(S, lo, hi) == {FrameOf(lo, hi, n) : n \in S}

(* A step of the traversal goes to the children, with the bounds of the       *)
(* tree.                                                                      *)
LEMMA BelowIs ==
  ASSUME NEW V, NEW U, NEW r, NEW lo, NEW hi, NEW ht, Tree(V, U, r, lo, hi, ht),
         NEW n \in U
  PROVE  Below(V, FrameOf(lo, hi, n)) = FramesOf(Under(V[n]), lo, hi)
<1> DEFINE N == V[n]
<1>1. N \in Node /\ Shape(N) /\ Size(N) \in Nat /\ N.kind \in Leaves \union Interiors
  BY TreePage
<1>2. Below(V, FrameOf(lo, hi, n)) =
        {<<N.links[i], IF i = 1 THEN lo[n] ELSE N.keys[i - 1],
           IF i = Len(N.links) THEN hi[n] ELSE N.keys[i]>> : i \in DOMAIN N.links}
  BY DEF Below, FrameOf
<1>3. CASE N.kind \in Leaves
  <2>1. N.links = <<>> /\ Under(N) = {}
    BY <1>1, <1>3, Kinds DEF Shape, Under
  <2>2. DOMAIN N.links = {}
    BY <2>1
  <2> HIDE DEF N
  <2> QED
    BY <1>2, <2>1, <2>2 DEF FramesOf, N
<1>4. CASE N.kind \in Interiors
  <2>1. N.links \in Seq(Numbers) /\ Len(N.links) = Size(N) + 1
    BY <1>1, <1>4, NodeFields DEF Shape
  <2>2. DOMAIN N.links = 1 .. Size(N) + 1
    BY <2>1
  <2>3. ASSUME NEW i \in 1 .. Size(N) + 1
        PROVE  <<N.links[i], IF i = 1 THEN lo[n] ELSE N.keys[i - 1],
                 IF i = Len(N.links) THEN hi[n] ELSE N.keys[i]>>
                 = FrameOf(lo, hi, N.links[i])
    <3>1. /\ lo[N.links[i]] = Fence(N, lo[n], hi[n], i - 1)
          /\ hi[N.links[i]] = Fence(N, lo[n], hi[n], i)
      BY <1>4, TreeChild
    <3>2. Fence(N, lo[n], hi[n], i - 1) = IF i = 1 THEN lo[n] ELSE N.keys[i - 1]
      <4>1. (i - 1 = 0) = (i = 1) /\ i - 1 # Size(N) + 1
        BY <1>1
      <4> QED
        BY <4>1 DEF Fence
    <3>3. Fence(N, lo[n], hi[n], i) = IF i = Len(N.links) THEN hi[n] ELSE N.keys[i]
      BY <1>1, <2>1 DEF Fence
    <3> QED
      BY <3>1, <3>2, <3>3 DEF FrameOf
  <2>4. Under(N) = {N.links[i] : i \in 1 .. Size(N) + 1}
    BY <1>4 DEF Under
  <2> HIDE DEF N
  <2>5. Below(V, FrameOf(lo, hi, n)) = {FrameOf(lo, hi, N.links[i]) : i \in 1 .. Size(N) + 1}
    BY SMTT(30), <1>2, <2>2, <2>3
  <2>6. FramesOf(Under(N), lo, hi) = {FrameOf(lo, hi, N.links[i]) : i \in 1 .. Size(N) + 1}
    BY <2>4 DEF FramesOf
  <2> QED
    BY <2>5, <2>6 DEF N
<1> QED
  BY <1>1, <1>3, <1>4

(* A level below the root has the pages that are as many heights below it.     *)
AtDepth(U, ht, r, h) == {n \in U : ht[n] + h = ht[r]}

(* A step from all pages of one depth goes to all pages of the next.          *)
LEMMA LevelBelow ==
  ASSUME NEW V, NEW U, NEW r, NEW lo, NEW hi, NEW ht, Tree(V, U, r, lo, hi, ht),
         NEW h \in Nat
  PROVE  UNION {Below(V, f) : f \in FramesOf(AtDepth(U, ht, r, h), lo, hi)}
           = FramesOf(AtDepth(U, ht, r, h + 1), lo, hi)
<1> DEFINE A == AtDepth(U, ht, r, h)
           B == AtDepth(U, ht, r, h + 1)
<1>1. r \in U /\ ht[r] \in Nat
  <2>1. r \in U
    BY DEF Tree, RootOK
  <2> QED
    BY <2>1, TreePage
<1>2. \A n \in A : Below(V, FrameOf(lo, hi, n)) = FramesOf(Under(V[n]), lo, hi)
  BY BelowIs DEF AtDepth
<1>3. ASSUME NEW c PROVE (\E n \in A : c \in Under(V[n])) <=> c \in B
  <2>1. ASSUME NEW n \in A, c \in Under(V[n]) PROVE c \in B
    <3>1. n \in U /\ ht[n] + h = ht[r]
      BY DEF AtDepth
    <3>2. V[n].kind \in Interiors /\ \E i \in 1 .. Size(V[n]) + 1 : c = V[n].links[i]
      BY <2>1 DEF Under
    <3>3. c \in U /\ ht[n] = ht[c] + 1
      BY <3>1, <3>2, TreeChild
    <3>4. ht[c] \in Nat
      BY <3>3, TreePage
    <3>5. ht[c] + (h + 1) = ht[r]
      BY <3>1, <3>3, <3>4
    <3> QED
      BY <3>3, <3>5 DEF AtDepth
  <2>2. ASSUME c \in B PROVE \E n \in A : c \in Under(V[n])
    <3>1. c \in U /\ ht[c] + (h + 1) = ht[r]
      BY <2>2 DEF AtDepth
    <3>2. ht[c] \in Nat
      BY <3>1, TreePage
    <3>3. c # r
      BY <1>1, <3>1, <3>2
    <3> DEFINE p == V[c].parent
    <3>4. p \in U /\ ht[p] = ht[c] + 1
      BY <3>1, <3>3, TreeParent
    <3>5. ht[p] + h = ht[r]
      BY <3>1, <3>2, <3>4
    <3>6. p \in A
      BY <3>4, <3>5 DEF AtDepth
    <3>7. (c \in Under(V[p])) = (c \in U /\ c # r /\ V[c].parent = p)
      BY <3>4, UnderIs
    <3> QED
      BY <3>1, <3>3, <3>6, <3>7
  <2> HIDE DEF A, B
  <2> QED
    BY <2>1, <2>2
<1>4. ASSUME NEW f \in FramesOf(A, lo, hi), NEW g \in Below(V, f)
      PROVE  g \in FramesOf(B, lo, hi)
  <2>1. PICK n \in A : f = FrameOf(lo, hi, n)
    BY DEF FramesOf
  <2>2. g \in FramesOf(Under(V[n]), lo, hi)
    BY <1>2, <2>1
  <2>3. PICK c \in Under(V[n]) : g = FrameOf(lo, hi, c)
    BY <2>2 DEF FramesOf
  <2>4. c \in B
    BY <1>3
  <2> QED
    BY <2>3, <2>4 DEF FramesOf
<1>5. ASSUME NEW g \in FramesOf(B, lo, hi)
      PROVE  \E f \in FramesOf(A, lo, hi) : g \in Below(V, f)
  <2>1. PICK c \in B : g = FrameOf(lo, hi, c)
    BY DEF FramesOf
  <2>2. PICK n \in A : c \in Under(V[n])
    BY <1>3
  <2>3. g \in FramesOf(Under(V[n]), lo, hi)
    BY <2>1, <2>2 DEF FramesOf
  <2>4. g \in Below(V, FrameOf(lo, hi, n)) /\ FrameOf(lo, hi, n) \in FramesOf(A, lo, hi)
    BY <1>2, <2>3 DEF FramesOf
  <2> QED
    BY <2>4
<1> HIDE DEF A, B
<1>6. UNION {Below(V, f) : f \in FramesOf(A, lo, hi)} = FramesOf(B, lo, hi)
  BY <1>4, <1>5
<1> QED
  BY <1>6 DEF A, B

(* The traversal reaches the pages of each depth, with the bounds of the      *)
(* tree.                                                                      *)
LEMMA LevelIs ==
  ASSUME NEW V, NEW U, NEW lo, NEW hi, NEW ht, Tree(V, U, root.number, lo, hi, ht),
         NEW h \in 0 .. Levels
  PROVE  Level(V)[h] = FramesOf(AtDepth(U, ht, root.number, h), lo, hi)
<1> DEFINE r == root.number
           F(i) == FramesOf(AtDepth(U, ht, r, i), lo, hi)
           Step(f) ==
             [i \in 0 .. Levels |->
                IF i = 0 THEN {<<r, 0, Max(Keys) + 1>>}
                ELSE UNION {Below(V, e) : e \in f[i - 1]}]
           g == [i \in 0 .. Levels |-> F(i)]
<1>1. /\ r \in U /\ ht[r] \in Nat /\ lo[r] = 0 /\ hi[r] = Max(Keys) + 1
      /\ Levels \in Nat
  <2>1. r \in U /\ lo[r] = 0 /\ hi[r] = Max(Keys) + 1
    BY DEF Tree, RootOK
  <2> QED
    BY <2>1, TreePage, LevelsIs
<1>2. F(0) = {<<r, 0, Max(Keys) + 1>>}
  <2>1. ASSUME NEW n PROVE n \in AtDepth(U, ht, r, 0) <=> n = r
    <3>1. n \in U => ht[n] \in Nat
      BY TreePage
    <3>2. n \in U /\ n # r => ht[n] < ht[r]
      BY DEF Tree, RootOK
    <3> QED
      BY <1>1, <3>1, <3>2 DEF AtDepth
  <2>2. AtDepth(U, ht, r, 0) = {r}
    BY <2>1
  <2> QED
    BY <1>1, <2>2 DEF FramesOf, FrameOf
<1>3. ASSUME NEW i \in Nat PROVE F(i + 1) = UNION {Below(V, e) : e \in F(i)}
  BY LevelBelow
<1> HIDE DEF F
<1>4. g = Step(g)
  <2> DEFINE b == Step(g)
  <2>1. ASSUME NEW i \in 0 .. Levels PROVE g[i] = b[i]
    <3>1. CASE i = 0
      BY <1>2, <3>1
    <3>2. CASE i # 0
      <4>1. i - 1 \in Nat /\ i - 1 \in 0 .. Levels /\ (i - 1) + 1 = i
        BY <1>1, <3>2
      <4>2. g[i - 1] = F(i - 1) /\ g[i] = F(i)
        BY <4>1
      <4>3. F(i) = UNION {Below(V, e) : e \in F(i - 1)}
        BY <1>3, <4>1
      <4>4. b[i] = UNION {Below(V, e) : e \in g[i - 1]}
        BY <3>2
      <4> HIDE DEF g, b
      <4> QED
        BY <4>2, <4>3, <4>4
    <3> QED
      BY <3>1, <3>2
  <2>2. b = [i \in 0 .. Levels |-> b[i]] /\ g = [i \in 0 .. Levels |-> g[i]]
    OBVIOUS
  <2> HIDE DEF b, g
  <2>3. g = b
    BY <2>1, <2>2
  <2> QED
    BY <2>3 DEF b
<1> HIDE DEF g
<1> DEFINE at == Level(V)
<1>5. at = Step(at)
  BY <1>4 DEF Level
<1> HIDE DEF at
<1>6. \A i \in 0 .. Levels : at[i] = F(i)
  <2> DEFINE S == {i \in 0 .. Levels : at[i] # F(i)}
  <2> SUFFICES ASSUME S # {} PROVE FALSE
    OBVIOUS
  <2> DEFINE j == Min(S)
  <2>1. j \in S /\ \A i \in S : j <= i
    <3>1. S \in SUBSET Nat
      OBVIOUS
    <3> QED
      BY <3>1, MinIsLeast
  <2> HIDE DEF j
  <2>2. j # 0
    <3>1. 0 \in 0 .. Levels
      BY <1>1
    <3>2. at[0] = {<<r, 0, Max(Keys) + 1>>}
      BY <1>5, <3>1
    <3> QED
      BY <1>2, <2>1, <3>2
  <2>3. /\ j - 1 \in Nat /\ j - 1 \in 0 .. Levels /\ j - 1 \notin S /\ (j - 1) + 1 = j
        /\ j \in 0 .. Levels
    BY <1>1, <2>1, <2>2
  <2>4. at[j - 1] = F(j - 1)
    BY <2>3
  <2>5. at[j] = UNION {Below(V, e) : e \in at[j - 1]}
    BY <1>5, <2>2, <2>3
  <2>6. at[j] = F(j)
    BY <1>3, <2>3, <2>4, <2>5
  <2> QED
    BY <2>1, <2>6
<1> QED
  BY <1>6 DEF at, F

(* The traversal from the root reaches all pages of the tree, with its        *)
(* bounds.                                                                    *)
LEMMA FramesIs ==
  ASSUME NEW V, NEW U, NEW lo, NEW hi, NEW ht, Tree(V, U, root.number, lo, hi, ht),
         Wide(V, U)
  PROVE  Frames(V) = FramesOf(U, lo, hi)
<1> DEFINE r == root.number
<1>1. r \in U /\ ht[r] \in Nat /\ ht[r] <= Levels /\ Levels \in Nat
  <2>1. r \in U
    BY DEF Tree, RootOK
  <2> QED
    BY <2>1, HeightInLevels, LevelsIs
<1>2. ASSUME NEW f \in Frames(V) PROVE f \in FramesOf(U, lo, hi)
  <2>1. PICK h \in 0 .. Levels : f \in Level(V)[h]
    BY DEF Frames
  <2>2. f \in FramesOf(AtDepth(U, ht, r, h), lo, hi)
    BY <2>1, LevelIs
  <2> QED
    BY <2>2 DEF FramesOf, AtDepth
<1>3. ASSUME NEW f \in FramesOf(U, lo, hi) PROVE f \in Frames(V)
  <2>1. PICK n \in U : f = FrameOf(lo, hi, n)
    BY DEF FramesOf
  <2>2. ht[n] \in Nat
    BY TreePage
  <2>3. n # r => ht[n] < ht[r]
    BY DEF Tree, RootOK
  <2> DEFINE h == ht[r] - ht[n]
  <2>4. h \in 0 .. Levels /\ ht[n] + h = ht[r]
    BY <1>1, <2>2, <2>3
  <2> HIDE DEF h
  <2>5. n \in AtDepth(U, ht, r, h)
    BY <2>4 DEF AtDepth
  <2>6. f \in Level(V)[h]
    BY <2>1, <2>4, <2>5, LevelIs DEF FramesOf
  <2> QED
    BY <2>4, <2>6 DEF Frames
<1> QED
  BY <1>2, <1>3

(* As many frames as pages.                                                    *)
LEMMA FramesCount ==
  ASSUME NEW U, U \subseteq PageNums, NEW lo, NEW hi
  PROVE  /\ {f[1] : f \in FramesOf(U, lo, hi)} = U
         /\ Cardinality(FramesOf(U, lo, hi)) = Cardinality(U)
<1>1. \A n \in U : FrameOf(lo, hi, n)[1] = n
  BY DEF FrameOf
<1>2. {f[1] : f \in FramesOf(U, lo, hi)} = U
  <2>1. ASSUME NEW f \in FramesOf(U, lo, hi) PROVE f[1] \in U
    BY <1>1 DEF FramesOf
  <2>2. ASSUME NEW n \in U PROVE \E f \in FramesOf(U, lo, hi) : n = f[1]
    BY <1>1 DEF FramesOf
  <2> QED
    BY <2>1, <2>2
<1> DEFINE F == FramesOf(U, lo, hi)
           b == [n \in U |-> FrameOf(lo, hi, n)]
<1>3. b \in [U -> F]
  BY DEF FramesOf
<1>4. b \in Injection(U, F)
  <2>1. \A m, n \in U : b[m] = b[n] => m = n
    BY <1>1
  <2> HIDE DEF b
  <2> QED
    BY <1>3, <2>1 DEF Injection, IsInjective
<1>5. b \in Surjection(U, F)
  <2>1. \A f \in F : \E n \in U : b[n] = f
    BY DEF FramesOf
  <2> HIDE DEF b
  <2> QED
    BY <1>3, <2>1 DEF Surjection
<1>6. ExistsBijection(U, F)
  BY <1>4, <1>5 DEF ExistsBijection, Bijection
<1>7. IsFiniteSet(U)
  BY PagesFinite
<1>8. Cardinality(F) = Cardinality(U)
  BY <1>6, <1>7, FS_Bijection
<1> QED
  BY <1>2, <1>8

-------------------------------------------------------------------------------
(* What the invariant says of the properties *)

(* Between calls nothing is pending: the pages are the tree.                  *)
LEMMA IdleView ==
  ASSUME TypeOK, call = Idle
  PROVE  View = page /\ Exempt = {}
<1>1. page = [n \in Numbers |-> page[n]]
  BY DEF TypeOK
<1>2. View = [n \in Numbers |-> page[n]]
  BY DEF View
<1> QED
  BY <1>1, <1>2 DEF Exempt

(* The page that a recursion is at, as it will be, has a key.                  *)
LEMMA GrownWide ==
  ASSUME TypeOK, NEW U, NEW lo, NEW hi, NEW ht, GrownWith(U, lo, hi, ht)
  PROVE  Wide(View, U)
<1>1. Tree(View, U, root.number, lo, hi, ht) /\ Filled(View, U, Exempt) /\ CallOK(U)
  BY DEF GrownWith
<1>2. ASSUME NEW n \in U \intersect Exempt PROVE Size(View[n]) >= 1
  <2>1. call # Idle /\ n = call.node.number /\ n \in Numbers
    <3>1. call # Idle /\ n = call.node.number
      BY DEF Exempt
    <3> QED
      BY <1>1, <3>1, TreePage
  <2>2. View[n] = PendingNode
    BY <2>1 DEF View
  <2>3. NodesDown \in Nat /\ NodesDown >= 2 /\ NodesUp = 2 * NodesDown
    BY NodesDownIs
  <2>4. CASE call.op = "underflow"
    <3>1. Size(call.node) = NodesDown - 1
      BY <1>1, <2>1, <2>4 DEF CallOK
    <3>2. PendingNode = call.node
      BY <2>4 DEF PendingNode
    <3> QED
      BY <2>2, <2>3, <3>1, <3>2
  <2>5. CASE call.op = "split"
    <3>1. /\ call.node \in Node /\ Size(call.node) = NodesUp
          /\ call.node.kind \in Interiors /\ call.key \in Keys /\ call.link \in Numbers
      BY <1>1, <2>1, <2>5 DEF CallOK, TypeOK
    <3>2. PendingNode = InsertIntoIntermediate(call.node, call.key, call.link)
      BY <2>5 DEF PendingNode
    <3>3. /\ View[n] \in Node /\ n \in U
          /\ View[n].keys = InsertAt(call.node.keys, FindPos(call.node, call.key) + 1, call.key)
      <4>1. View[n] \in Node
        BY <1>1, TreePage
      <4>2. call.node.keys \in Seq(Keys)
        BY <3>1, NodeFields
      <4> QED
        BY <2>2, <3>1, <3>2, <4>1 DEF InsertIntoIntermediate, Node
    <3>4. Size(call.node) \in Nat /\ FindPos(call.node, call.key) + 1 \in 1 .. Len(call.node.keys) + 1
      <4>1. FindPos(call.node, call.key) \in 0 .. Size(call.node) /\ Size(call.node) \in Nat
        BY <3>1, NodeFields, NumbersAreNat, FindPosStops
      <4> QED
        BY <4>1 DEF Size
    <3>5. Len(View[n].keys) = Len(call.node.keys) + 1
      <4> DEFINE s == call.node.keys
                 i == FindPos(call.node, call.key) + 1
      <4>1. s \in Seq(Keys) /\ i \in 1 .. Len(s) + 1 /\ call.key \in Keys
        BY <3>1, <3>4, NodeFields
      <4>2. View[n].keys = InsertAt(s, i, call.key)
        BY <3>3
      <4> HIDE DEF s, i
      <4>3. Inserted(View[n].keys, s, i, call.key)
        BY <4>1, <4>2, InsertAtIs
      <4> QED
        BY <4>3 DEF Inserted, s
    <3> QED
      BY <2>3, <3>1, <3>5 DEF Size
  <2> QED
    BY <1>1, <2>1, <2>4, <2>5 DEF CallOK
<1> QED
  BY <1>1, <1>2, FilledWide

(* What searches from the root find is the map that the tree holds.           *)
LEMMA GrownContents ==
  ASSUME TypeOK, NEW U, NEW lo, NEW hi, NEW ht, GrownWith(U, lo, hi, ht)
  PROVE  ContentsOf(View, RootView) = kv
<1>1. /\ Tree(View, U, root.number, lo, hi, ht) /\ Holds(View, U, lo, hi, kv)
      /\ root = page[root.number]
  BY DEF GrownWith
<1>2. kv \in [Keys -> Values \union {Absent}] /\ root.number \in Numbers
  BY NodeFields DEF TypeOK
<1>3. RootView = View[root.number]
  BY <1>1, <1>2 DEF RootView, View
<1>4. Wide(View, U)
  BY GrownWide
<1> QED
  BY <1>1, <1>2, <1>3, <1>4, ContentsIs

(* A settled tree.                                                             *)
LEMMA SettledTree ==
  ASSUME NEW U, InvOf(U), Settled
  PROVE  \E lo, hi, ht :
           /\ Tree(page, U, root.number, lo, hi, ht) /\ Wide(page, U)
           /\ Filled(page, U, {}) /\ root = page[root.number]
<1>1. TypeOK /\ call = Idle /\ GrownOf(U)
  BY DEF InvOf, Settled, EmptyOf
<1>2. PICK lo, hi, ht \in [Numbers -> Nat] : GrownWith(U, lo, hi, ht)
  BY <1>1 DEF GrownOf
<1>3. View = page /\ Exempt = {}
  BY <1>1, IdleView
<1>4. Wide(View, U)
  BY <1>1, <1>2, GrownWide
<1> QED
  BY <1>2, <1>3, <1>4 DEF GrownWith

(* The invariant implies that the root in memory is the root on its page.     *)
LEMMA InvRootCopy ==
  ASSUME NEW U, InvOf(U)
  PROVE  RootCopy
<1> SUFFICES ASSUME Settled PROVE root = page[root.number]
  BY DEF RootCopy
<1> QED
  BY SettledTree

(* The invariant implies that the pages in use are those of the tree.         *)
LEMMA InvIndexExact ==
  ASSUME Inv
  PROVE  IndexExact
<1> SUFFICES ASSUME Settled
             PROVE  /\ used = {f[1] : f \in Frames(page)}
                    /\ Cardinality(used) = Cardinality(Frames(page))
  BY DEF IndexExact
<1>1. InvOf(used)
  BY DEF Inv
<1>2. PICK lo, hi, ht : Tree(page, used, root.number, lo, hi, ht) /\ Wide(page, used)
  BY <1>1, SettledTree
<1>3. Frames(page) = FramesOf(used, lo, hi) /\ used \subseteq PageNums
  BY <1>2, FramesIs DEF Tree
<1>4. /\ {f[1] : f \in FramesOf(used, lo, hi)} = used
      /\ Cardinality(FramesOf(used, lo, hi)) = Cardinality(used)
  BY <1>3, FramesCount
<1> QED
  BY <1>3, <1>4

(* A walk from the root comes to the pages of the tree, in the middle of a    *)
(* call, too.                                                                 *)
LEMMA InvFrames ==
  ASSUME NEW U, TypeOK, GrownOf(U)
  PROVE  {f[1] : f \in Frames(View)} = U
<1>1. PICK lo, hi, ht \in [Numbers -> Nat] : GrownWith(U, lo, hi, ht)
  BY DEF GrownOf
<1>2. Tree(View, U, root.number, lo, hi, ht) /\ Wide(View, U)
  BY <1>1, GrownWide DEF GrownWith
<1>3. Frames(View) = FramesOf(U, lo, hi) /\ U \subseteq PageNums
  BY <1>2, FramesIs DEF Tree
<1>4. /\ {f[1] : f \in FramesOf(U, lo, hi)} = U
      /\ Cardinality(FramesOf(U, lo, hi)) = Cardinality(U)
  BY <1>3, FramesCount
<1> QED
  BY <1>3, <1>4

(* The invariant implies that keys ascend inside the bounds of their page.    *)
LEMMA InvSearchOrder ==
  ASSUME NEW U, InvOf(U)
  PROVE  SearchOrder
<1> SUFFICES ASSUME Settled, NEW f \in Frames(page), NEW i \in 1 .. Size(page[f[1]])
             PROVE  /\ f[2] <= page[f[1]].keys[i]
                    /\ page[f[1]].keys[i] <
                         (IF i = Size(page[f[1]]) THEN f[3] ELSE page[f[1]].keys[i + 1])
  BY DEF SearchOrder
<1>1. PICK lo, hi, ht : Tree(page, U, root.number, lo, hi, ht) /\ Wide(page, U)
  BY SettledTree
<1>2. PICK n \in U : f = <<n, lo[n], hi[n]>>
  BY <1>1, FramesIs DEF FramesOf, FrameOf
<1>3. f[1] = n /\ f[2] = lo[n] /\ f[3] = hi[n]
  BY <1>2
<1>4. Ordered(page[n], lo[n], hi[n]) /\ Size(page[n]) \in Nat
  BY <1>1, TreePage
<1>5. lo[n] <= page[n].keys[i] /\ page[n].keys[i] < hi[n]
  BY <1>3, <1>4 DEF Ordered
<1>6. CASE i = Size(page[n])
  BY <1>3, <1>5, <1>6
<1>7. CASE i # Size(page[n])
  <2>1. i + 1 \in 1 .. Size(page[n]) /\ i \in 1 .. Size(page[n]) /\ i < i + 1
    BY <1>3, <1>4, <1>7
  <2>2. page[n].keys[i] < page[n].keys[i + 1]
    BY <1>4, <2>1 DEF Ordered
  <2> QED
    BY <1>3, <1>5, <1>7, <2>2
<1> QED
  BY <1>6, <1>7

(* The invariant implies that each page records the page whose link leads to  *)
(* it.                                                                        *)
LEMMA InvParentLinks ==
  ASSUME NEW U, InvOf(U)
  PROVE  ParentLinks
<1> SUFFICES ASSUME Settled, NEW f \in Frames(page), NEW g \in Below(page, f)
             PROVE  page[g[1]].parent = f[1]
  BY DEF ParentLinks
<1>1. PICK lo, hi, ht : Tree(page, U, root.number, lo, hi, ht) /\ Wide(page, U)
  BY SettledTree
<1>2. PICK n \in U : f = FrameOf(lo, hi, n)
  BY <1>1, FramesIs DEF FramesOf
<1>3. PICK c \in Under(page[n]) : g = FrameOf(lo, hi, c)
  <2>1. Below(page, FrameOf(lo, hi, n)) = FramesOf(Under(page[n]), lo, hi)
    BY <1>1, BelowIs
  <2> QED
    BY <1>2, <2>1 DEF FramesOf
<1>4. page[c].parent = n
  <2>1. (c \in Under(page[n])) = (c \in U /\ c # root.number /\ page[c].parent = n)
    BY <1>1, UnderIs
  <2> QED
    BY <2>1
<1> QED
  BY <1>2, <1>3, <1>4 DEF FrameOf

(* The invariant implies that every page below the root is at least half      *)
(* full.                                                                      *)
LEMMA InvOccupancy ==
  ASSUME NEW U, InvOf(U)
  PROVE  Occupancy
<1> SUFFICES ASSUME Settled, NEW f \in Frames(page),
                    NEW n, n = page[f[1]],
                    NEW least, least = (IF n.kind = "RootLeaf" THEN 0
                                        ELSE IF n.kind = "Root" THEN 1 ELSE NodesDown)
             PROVE  /\ Size(n) \in least .. NodesUp
                    /\ n.number = f[1]
                    /\ (n.kind \in {"Root", "RootLeaf"}) = IsRoot(n)
                    /\ IF n.kind \in Leaves
                       THEN Len(n.vals) = Size(n) /\ n.links = <<>>
                       ELSE Len(n.links) = Size(n) + 1 /\ n.vals = <<>>
  BY DEF Occupancy
<1>1. PICK lo, hi, ht : /\ Tree(page, U, root.number, lo, hi, ht) /\ Wide(page, U)
                        /\ Filled(page, U, {})
  BY SettledTree
<1>2. PICK m \in U : f = <<m, lo[m], hi[m]>>
  BY <1>1, FramesIs DEF FramesOf, FrameOf
<1>3. f[1] = m /\ n = page[m]
  BY <1>2
<1>4. /\ n.number = m /\ Shape(n) /\ n.kind \in Leaves \union Interiors
      /\ (n.kind \in {"Root", "RootLeaf"}) = (m = root.number)
  BY <1>1, <1>3, TreePage
<1>5. Size(n) \in least .. NodesUp
  BY <1>1, <1>3 DEF Filled, Least
<1>6. (n.kind \in {"Root", "RootLeaf"}) = IsRoot(n)
  BY <1>4 DEF IsRoot
<1>7. n.kind \in Leaves => Len(n.vals) = Size(n) /\ n.links = <<>>
  BY <1>4 DEF Shape
<1>8. n.kind \notin Leaves => Len(n.links) = Size(n) + 1 /\ n.vals = <<>>
  BY <1>4 DEF Shape
<1> QED
  BY <1>3, <1>4, <1>5, <1>6, <1>7, <1>8

(* The invariant implies that all leaves are at one depth.                    *)
LEMMA InvBalanced ==
  ASSUME NEW U, InvOf(U)
  PROVE  Balanced
<1> SUFFICES ASSUME Settled, NEW h \in 0 .. Levels,
                    NEW f \in Level(page)[h], NEW g \in Level(page)[h]
             PROVE  (page[f[1]].kind \in Leaves) = (page[g[1]].kind \in Leaves)
  BY DEF Balanced
<1>1. PICK lo, hi, ht : Tree(page, U, root.number, lo, hi, ht) /\ Wide(page, U)
  BY SettledTree
<1>2. \A e \in Level(page)[h] : \E n \in U : e[1] = n /\ ht[n] + h = ht[root.number]
  BY <1>1, LevelIs DEF FramesOf, FrameOf, AtDepth
<1>3. PICK m \in U : f[1] = m /\ ht[m] + h = ht[root.number]
  BY <1>2
<1>4. PICK n \in U : g[1] = n /\ ht[n] + h = ht[root.number]
  BY <1>2
<1>5. ht[m] \in Nat /\ ht[n] \in Nat /\ h \in Nat
      /\ (page[m].kind \in Leaves) = (ht[m] = 0)
      /\ (page[n].kind \in Leaves) = (ht[n] = 0)
  BY <1>1, TreePage
<1>6. ht[m] = ht[n]
  BY <1>3, <1>4, <1>5
<1> QED
  BY <1>3, <1>4, <1>5, <1>6

(* A root without a page: searches end at once.                                *)
LEMMA BlankContents ==
  ASSUME NEW pg
  PROVE  ContentsOf(pg, Blank) = [k \in Keys |-> Absent]
<1>1. Blank.kind \notin Interiors /\ \A k : ValueIn(Blank, k) = Absent
  BY DEF Blank, Interiors, Leaves, ValueIn
<1>2. Levels \in Nat
  BY LevelsIs
<1>3. ASSUME NEW k \in Keys PROVE Search(pg, Blank, k) = Blank
  <2> DEFINE Step(f) ==
        [h \in 0 .. Levels |->
           IF h = 0 THEN Blank
           ELSE LET n == f[h - 1]
                IN  IF n.kind \in Interiors THEN pg[LinkFor(n, k)] ELSE n]
      g == [h \in 0 .. Levels |-> Blank]
  <2>1. g = Step(g)
    <3>1. ASSUME NEW h \in 0 .. Levels PROVE Step(g)[h] = Blank
      <4>1. CASE h = 0
        BY <4>1
      <4>2. CASE h # 0
        <5>1. h - 1 \in 0 .. Levels
          BY <1>2, <4>2
        <5>2. g[h - 1] = Blank
          BY <5>1
        <5> HIDE DEF g
        <5> QED
          BY <1>1, <4>2, <5>2
      <4> QED
        BY <4>1, <4>2
    <3> DEFINE b == Step(g)
    <3>2. b = [h \in 0 .. Levels |-> b[h]]
      OBVIOUS
    <3>3. \A h \in 0 .. Levels : b[h] = Blank
      BY <3>1
    <3> HIDE DEF b
    <3>4. g = b
      BY <3>2, <3>3
    <3> QED
      BY <3>4 DEF b
  <2> DEFINE at == Descent(pg, Blank, k)
  <2> HIDE DEF g
  <2>2. at = Step(at)
    BY <2>1 DEF Descent
  <2> HIDE DEF at
  <2>3. \A h \in 0 .. Levels : at[h] = Blank
    <3> DEFINE S == {h \in 0 .. Levels : at[h] # Blank}
    <3> SUFFICES ASSUME S # {} PROVE FALSE
      OBVIOUS
    <3> DEFINE j == Min(S)
    <3>1. j \in S /\ \A i \in S : j <= i
      <4>1. S \in SUBSET Nat
        OBVIOUS
      <4> QED
        BY <4>1, MinIsLeast
    <3> HIDE DEF j
    <3>2. j # 0
      <4>1. 0 \in 0 .. Levels
        BY <1>2
      <4>2. at[0] = Blank
        BY <2>2, <4>1
      <4> QED
        BY <3>1, <4>2
    <3>3. j - 1 \in 0 .. Levels /\ j - 1 \notin S /\ j \in 0 .. Levels
      BY <1>2, <3>1, <3>2
    <3>4. at[j - 1] = Blank
      BY <3>3
    <3>5. at[j] = IF at[j - 1].kind \in Interiors
                  THEN pg[LinkFor(at[j - 1], k)] ELSE at[j - 1]
      BY <2>2, <3>2, <3>3
    <3>6. at[j] = Blank
      BY <1>1, <3>4, <3>5
    <3> QED
      BY <3>1, <3>6
  <2> QED
    BY <1>2, <2>3 DEF Search, at
<1> QED
  BY <1>1, <1>3 DEF ContentsOf

(* The invariant implies that searches find the map, in the middle of a call  *)
(* too.                                                                       *)
LEMMA InvContents ==
  ASSUME NEW U, InvOf(U), proc = "running"
  PROVE  ContentsOf(View, RootView) = kv
<1>1. TypeOK /\ (EmptyOf(U) \/ GrownOf(U))
  BY DEF InvOf
<1>2. CASE EmptyOf(U)
  <2>1. RootView = Blank /\ kv = [k \in Keys |-> Absent]
    BY <1>2 DEF EmptyOf, RootView
  <2> QED
    BY <2>1, BlankContents
<1>3. CASE GrownOf(U)
  BY <1>1, <1>3, GrownContents DEF GrownOf
<1> QED
  BY <1>1, <1>2, <1>3

(* The invariant implies that searches find the map.                          *)
LEMMA InvContentsKept ==
  ASSUME NEW U, InvOf(U)
  PROVE  ContentsKept
  BY InvContents DEF ContentsKept

-------------------------------------------------------------------------------
(* The bounds and heights that a walk shows *)

(* A tree is a matter of the bounds and heights of its pages.                  *)
LEMMA TreeBounds ==
  ASSUME NEW V, NEW U, NEW r, NEW lo, NEW hi, NEW ht, Tree(V, U, r, lo, hi, ht),
         NEW lo2 \in [Numbers -> Nat], NEW hi2 \in [Numbers -> Nat],
         NEW ht2 \in [Numbers -> Nat],
         \A n \in U : lo2[n] = lo[n] /\ hi2[n] = hi[n] /\ ht2[n] = ht[n]
  PROVE  Tree(V, U, r, lo2, hi2, ht2)
<1>1. U \subseteq PageNums /\ RootOK(U, r, lo2, hi2, ht2)
  BY DEF Tree, RootOK
<1>2. ASSUME NEW n \in U PROVE PageOK(V, r, lo2, hi2, ht2, n)
  <2>1. PageOK(V, r, lo, hi, ht, n)
    BY DEF Tree
  <2> QED
    BY <2>1 DEF PageOK
<1>3. ASSUME NEW n \in U PROVE ChildrenOK(V, U, lo2, hi2, ht2, n)
  <2>1. ChildrenOK(V, U, lo, hi, ht, n)
    BY DEF Tree
  <2>2. lo2[n] = lo[n] /\ hi2[n] = hi[n] /\ ht2[n] = ht[n]
    OBVIOUS
  <2> QED
    BY <2>1, <2>2 DEF ChildrenOK
<1>4. ASSUME NEW n \in U \ {r} PROVE ParentOK(V, U, n)
  BY DEF Tree
<1>5. Apart(U, lo2, hi2, ht2)
  <2>1. Apart(U, lo, hi, ht)
    BY DEF Tree
  <2> QED
    BY <2>1 DEF Apart
<1> QED
  BY <1>1, <1>2, <1>3, <1>4, <1>5 DEF Tree

(* Some leaf is at height 0: no page at the least height has children.         *)
LEMMA LeafLowest ==
  ASSUME NEW V, NEW U, NEW r, NEW lo, NEW hi, NEW ht, Tree(V, U, r, lo, hi, ht)
  PROVE  \E n \in U : ht[n] = 0
<1> DEFINE S == {ht[n] : n \in U}
<1>1. \A n \in U : ht[n] \in Nat
  BY TreePage
<1>2. S \in SUBSET Nat /\ S # {}
  <2>1. r \in U
    BY DEF Tree, RootOK
  <2> QED
    BY <1>1, <2>1
<1>3. Min(S) \in S /\ \A x \in S : Min(S) <= x
  BY <1>2, MinIsLeast
<1>4. PICK n \in U : \A m \in U : ht[n] <= ht[m]
  BY <1>3
<1> SUFFICES ASSUME ht[n] # 0 PROVE FALSE
  BY <1>4
<1>5. V[n].kind \in Interiors /\ Size(V[n]) \in Nat
  BY TreePage
<1>6. 1 \in 1 .. Size(V[n]) + 1
  BY <1>5
<1>7. PICK c : c = V[n].links[1]
  OBVIOUS
<1>8. c \in U /\ ht[n] = ht[c] + 1
  BY <1>5, <1>6, <1>7, TreeChild
<1> QED
  BY <1>1, <1>4, <1>8

(* What a walk comes to: each page with its bounds and depth.                  *)
Stop(U, lo, hi, ht, n) == <<n, lo[n], hi[n], ht[root.number] - ht[n]>>

(* The walk from the root comes to every page of the tree, with its bounds    *)
(* and its height.                                                            *)
LEMMA WalkIs ==
  ASSUME NEW U, NEW lo, NEW hi, NEW ht, Tree(View, U, root.number, lo, hi, ht),
         Wide(View, U)
  PROVE  Walk = {Stop(U, lo, hi, ht, n) : n \in U}
<1> DEFINE r == root.number
<1>1. r \in U /\ ht[r] \in Nat /\ ht[r] <= Levels /\ Levels \in Nat
  <2>1. r \in U
    BY DEF Tree, RootOK
  <2> QED
    BY <2>1, HeightInLevels, LevelsIs
<1>2. ASSUME NEW w \in Walk PROVE \E n \in U : w = Stop(U, lo, hi, ht, n)
  <2>1. PICK h \in 0 .. Levels : \E f \in Level(View)[h] : w = <<f[1], f[2], f[3], h>>
    BY DEF Walk
  <2>2. PICK f \in Level(View)[h] : w = <<f[1], f[2], f[3], h>>
    BY <2>1
  <2>3. f \in FramesOf(AtDepth(U, ht, r, h), lo, hi)
    BY <2>2, LevelIs
  <2>4. PICK n \in U : f = <<n, lo[n], hi[n]>> /\ ht[n] + h = ht[r]
    BY <2>3 DEF FramesOf, FrameOf, AtDepth
  <2>5. h = ht[r] - ht[n]
    <3>1. ht[n] \in Nat
      BY TreePage
    <3> QED
      BY <1>1, <2>4, <3>1
  <2> QED
    BY <2>2, <2>4, <2>5 DEF Stop
<1>3. ASSUME NEW n \in U PROVE Stop(U, lo, hi, ht, n) \in Walk
  <2>1. ht[n] \in Nat
    BY TreePage
  <2>2. n # r => ht[n] < ht[r]
    BY DEF Tree, RootOK
  <2>3. PICK h : h = ht[r] - ht[n]
    OBVIOUS
  <2>4. h \in 0 .. Levels /\ ht[n] + h = ht[r]
    BY <1>1, <2>1, <2>2, <2>3
  <2>5. n \in AtDepth(U, ht, r, h)
    BY <2>4 DEF AtDepth
  <2>6. <<n, lo[n], hi[n]>> \in Level(View)[h]
    BY <2>4, <2>5, LevelIs DEF FramesOf, FrameOf
  <2>7. Stop(U, lo, hi, ht, n) = <<n, lo[n], hi[n], h>>
    BY <2>3 DEF Stop
  <2>8. \E f \in Level(View)[h] : <<n, lo[n], hi[n], h>> = <<f[1], f[2], f[3], h>>
    BY <2>6
  <2> QED
    BY <2>4, <2>7, <2>8 DEF Walk
<1> QED
  BY <1>2, <1>3

(* Seen reads them off the walk.                                               *)
LEMMA SeenIs ==
  ASSUME NEW U, NEW lo, NEW hi, NEW ht, Tree(View, U, root.number, lo, hi, ht),
         NEW W, W = {Stop(U, lo, hi, ht, n) : n \in U},
         NEW i \in 1 .. 4, NEW m \in Numbers
  PROVE  Seen(W, i)[m] = IF m \in U THEN Stop(U, lo, hi, ht, m)[i] ELSE 0
<1>1. PICK w : w = {f \in W : f[1] = m}
  OBVIOUS
<1>2. Seen(W, i)[m] = IF w = {} THEN 0 ELSE (CHOOSE f \in w : TRUE)[i]
  <2>1. Seen(W, i)[m] = IF {f \in W : f[1] = m} = {} THEN 0
                        ELSE (CHOOSE f \in {f \in W : f[1] = m} : TRUE)[i]
    BY DEF Seen
  <2> QED
    BY ONLY <1>1, <2>1
<1>3. \A f : f \in w <=> m \in U /\ f = Stop(U, lo, hi, ht, m)
  BY <1>1 DEF Stop
<1>4. CASE m \in U
  <2>1. Stop(U, lo, hi, ht, m) \in w
    BY <1>3, <1>4
  <2>2. (CHOOSE f \in w : TRUE) \in w /\ w # {}
    BY <2>1
  <2>3. (CHOOSE f \in w : TRUE) = Stop(U, lo, hi, ht, m)
    BY <1>3, <2>2
  <2> QED
    BY <1>2, <1>4, <2>2, <2>3
<1>5. CASE m \notin U
  <2>1. w = {}
    BY <1>3, <1>5
  <2> QED
    BY <1>2, <1>5, <2>1
<1> QED
  BY <1>4, <1>5

(* The invariant implies that the walk's bounds and heights are those of a     *)
(* tree that holds the map.                                                    *)
LEMMA GrownSeen ==
  ASSUME TypeOK, NEW U, GrownOf(U), NEW W, W = Walk
  PROVE  GrownWith(U, Seen(W, 2), Seen(W, 3), Raising(W))
<1>1. PICK lo, hi, ht \in [Numbers -> Nat] : GrownWith(U, lo, hi, ht)
  BY DEF GrownOf
<1> DEFINE r == root.number
<1>2. /\ Tree(View, U, r, lo, hi, ht) /\ Holds(View, U, lo, hi, kv)
      /\ Wide(View, U) /\ U \subseteq Numbers
  BY <1>1, GrownWide DEF GrownWith, Tree, Numbers
<1>3. W = {Stop(U, lo, hi, ht, n) : n \in U}
  BY <1>2, WalkIs
<1>4. \A n \in U : /\ lo[n] \in Nat /\ hi[n] \in Nat /\ ht[n] \in Nat
                   /\ ht[r] \in Nat /\ ht[n] <= ht[r]
  <2>1. r \in U /\ \A n \in U \ {r} : ht[n] < ht[r]
    BY <1>2 DEF Tree, RootOK
  <2>2. ht[r] \in Nat
    BY <1>2, <2>1, TreePage
  <2> TAKE n \in U
  <2>3. lo[n] \in Nat /\ hi[n] \in Nat /\ ht[n] \in Nat
    BY <1>2, TreePage
  <2>4. n # r => ht[n] < ht[r]
    BY <2>1
  <2> QED
    BY <2>2, <2>3, <2>4
<1>5. Max({f[4] : f \in W}) = ht[r]
  <2>1. PICK b \in U : ht[b] = 0
    BY <1>2, LeafLowest
  <2>2. PICK D : D = {f[4] : f \in W}
    OBVIOUS
  <2>3. \A d : d \in D <=> \E n \in U : d = ht[r] - ht[n]
    <3>1. \A n \in U : Stop(U, lo, hi, ht, n)[4] = ht[r] - ht[n]
      BY DEF Stop
    <3>2. \A d : d \in D <=> \E f \in W : d = f[4]
      BY <2>2
    <3>3. \A f : f \in W <=> \E n \in U : f = Stop(U, lo, hi, ht, n)
      BY <1>3
    <3> HIDE DEF r
    <3> QED
      BY ONLY <3>1, <3>2, <3>3
  <2>4. D \in SUBSET Nat /\ \A d \in D : d <= ht[r]
    BY <1>4, <2>3
  <2>5. ht[r] \in D
    BY <1>4, <2>1, <2>3
  <2> QED
    BY <2>2, <2>4, <2>5, MaxIs
<1>6. \A n \in Numbers :
        /\ Seen(W, 2)[n] = IF n \in U THEN lo[n] ELSE 0
        /\ Seen(W, 3)[n] = IF n \in U THEN hi[n] ELSE 0
        /\ Seen(W, 4)[n] = IF n \in U THEN ht[r] - ht[n] ELSE 0
  <2> TAKE n \in Numbers
  <2>1. /\ Seen(W, 2)[n] = IF n \in U THEN Stop(U, lo, hi, ht, n)[2] ELSE 0
        /\ Seen(W, 3)[n] = IF n \in U THEN Stop(U, lo, hi, ht, n)[3] ELSE 0
        /\ Seen(W, 4)[n] = IF n \in U THEN Stop(U, lo, hi, ht, n)[4] ELSE 0
    BY <1>2, <1>3, SeenIs
  <2> QED
    BY <2>1 DEF Stop
<1>7. /\ Seen(W, 2) \in [Numbers -> Nat] /\ Seen(W, 3) \in [Numbers -> Nat]
      /\ Raising(W) \in [Numbers -> Nat]
      /\ \A n \in U : Seen(W, 2)[n] = lo[n] /\ Seen(W, 3)[n] = hi[n] /\ Raising(W)[n] = ht[n]
  <2>1. PICK s2, s3, s4 : s2 = Seen(W, 2) /\ s3 = Seen(W, 3) /\ s4 = Seen(W, 4)
    OBVIOUS
  <2>2. s2 = [n \in Numbers |-> s2[n]] /\ s3 = [n \in Numbers |-> s3[n]]
    BY <2>1 DEF Seen
  <2>3. Raising(W) = [n \in Numbers |-> ht[r] - s4[n]]
    BY <1>5, <2>1 DEF Raising
  <2>4. \A n \in Numbers : /\ s2[n] = IF n \in U THEN lo[n] ELSE 0
                           /\ s3[n] = IF n \in U THEN hi[n] ELSE 0
                           /\ s4[n] = IF n \in U THEN ht[r] - ht[n] ELSE 0
    BY <1>6, <2>1
  <2>5. r \in U
    BY <1>2 DEF Tree, RootOK
  <2>6. \A n \in Numbers :
          s2[n] \in Nat /\ s3[n] \in Nat /\ ht[r] - s4[n] \in Nat
    BY <1>4, <2>4, <2>5
  <2>7. \A n \in U : s2[n] = lo[n] /\ s3[n] = hi[n] /\ ht[r] - s4[n] = ht[n]
    BY <1>2, <1>4, <2>4, <2>5
  <2>8. s2 \in [Numbers -> Nat] /\ s3 \in [Numbers -> Nat]
    BY <2>2, <2>6
  <2> QED
    BY <1>2, <2>1, <2>3, <2>6, <2>7, <2>8
<1>8. PICK l2, h2, t2 : l2 = Seen(W, 2) /\ h2 = Seen(W, 3) /\ t2 = Raising(W)
  OBVIOUS
<1>9. Tree(View, U, r, l2, h2, t2)
  BY <1>2, <1>7, <1>8, TreeBounds
<1>10. Holds(View, U, l2, h2, kv)
  BY <1>2, <1>7, <1>8 DEF Holds
<1>11. GrownWith(U, l2, h2, t2)
  BY <1>1, <1>9, <1>10 DEF GrownWith
<1> QED
  BY <1>8, <1>11

(* The invariant implies what the walk shows.                                  *)
LEMMA InvTreeKept ==
  ASSUME Inv
  PROVE  TreeKept
<1> SUFFICES ASSUME proc = "running" PROVE TreeKept
  BY DEF TreeKept
<1>1. TypeOK /\ PagesOK /\ (EmptyOf(used) \/ GrownOf(used))
  BY DEF Inv, InvOf
<1>2. PICK W : W = Walk
  OBVIOUS
<1>3. GrownOf(used) => GrownWith(used, Seen(W, 2), Seen(W, 3), Raising(W))
  BY <1>1, <1>2, GrownSeen
<1> QED
  BY <1>1, <1>2, <1>3 DEF TreeKept
===============================================================================
