------------------------------ MODULE BTree_proof ------------------------------
(***************************************************************************)
(* Inv, the invariant of BTreeInvariant, is inductive: it holds in the     *)
(* initial states and every step of BTree keeps it.  With what it says of  *)
(* one state (BTreePages_proof) this proves the properties that the runs   *)
(* of MCBTree check, for all sets of keys, values and pages.               *)
(***************************************************************************)
EXTENDS BTreePages_proof

(* find_free_index.                                                            *)
LEMMA FreeIs ==
  ASSUME NEW U, U \subseteq PageNums, NEW m, m = FindFree(U)
  PROVE  /\ m \in Numbers /\ Marked(U) \subseteq PageNums
         /\ m # 0 => m \in PageNums /\ m \notin U /\ Marked(U) = U \union {m}
<1>1. CASE U = PageNums
  BY <1>1 DEF FindFree, Marked, Numbers
<1>2. CASE U # PageNums
  <2>1. PageNums \ U \in SUBSET Nat /\ PageNums \ U # {}
    BY <1>2, BTreeAssumption, BTreeNodeAssumption
  <2>2. m = Min(PageNums \ U)
    BY <1>2 DEF FindFree
  <2>3. m \in PageNums \ U
    BY <2>1, <2>2, MinIsLeast
  <2> QED
    BY <1>2, <2>3 DEF Marked, Numbers
<1> QED
  BY <1>1, <1>2

-------------------------------------------------------------------------------
(* write_page and the children's parents *)

(* A page is what was last written to it.                                     *)
LEMMA WrittenIs ==
  ASSUME NEW pg, NEW nodes, Len(nodes) \in Nat, NEW n \in DOMAIN pg
  PROVE  /\ (\A i \in 1 .. Len(nodes) : nodes[i].number # n) => Written(pg, nodes)[n] = pg[n]
         /\ \A i \in 1 .. Len(nodes) :
              /\ nodes[i].number = n
              /\ \A j \in 1 .. Len(nodes) : j > i => nodes[j].number # n
              => Written(pg, nodes)[n] = nodes[i]
<1> DEFINE I == {i \in 1 .. Len(nodes) : nodes[i].number = n}
           w == IF I # {} THEN Max(I) ELSE 0
<1>1. Written(pg, nodes)[n] = IF w = 0 THEN pg[n] ELSE nodes[w]
  BY DEF Written, SelectLastInSeq
<1>2. ASSUME \A i \in 1 .. Len(nodes) : nodes[i].number # n
      PROVE  Written(pg, nodes)[n] = pg[n]
  BY <1>1, <1>2
<1>3. ASSUME NEW i \in 1 .. Len(nodes), nodes[i].number = n,
             \A j \in 1 .. Len(nodes) : j > i => nodes[j].number # n
      PROVE  Written(pg, nodes)[n] = nodes[i]
  <2>1. I \in SUBSET Nat /\ i \in I
    BY <1>3
  <2>2. \A x \in I : x <= i
    BY <1>3
  <2> HIDE DEF I
  <2>3. Max(I) = i
    BY <2>1, <2>2, MaxIs
  <2>4. w = i /\ i # 0
    BY <2>1, <2>3
  <2> QED
    BY <1>1, <2>4
<1> QED
  BY <1>2, <1>3

(* Writes change pages, not which pages there are.                            *)
LEMMA WrittenDomain ==
  ASSUME NEW pg, NEW nodes
  PROVE  Written(pg, nodes) = [n \in DOMAIN pg |-> Written(pg, nodes)[n]]
  BY DEF Written

(* One write.                                                                 *)
LEMMA Written1 ==
  ASSUME NEW pg, NEW a, NEW n \in DOMAIN pg
  PROVE  Written(pg, <<a>>)[n] = IF n = a.number THEN a ELSE pg[n]
<1> DEFINE s == <<a>>
<1>1. Len(s) = 1 /\ s[1] = a
  OBVIOUS
<1> HIDE DEF s
<1>2. 1 .. Len(s) = {1}
  BY <1>1
<1>3. CASE n = a.number
  <2>1. Written(pg, s)[n] = s[1]
    BY <1>1, <1>2, <1>3, WrittenIs
  <2> QED
    BY <1>1, <1>3, <2>1 DEF s
<1>4. CASE n # a.number
  <2>1. Written(pg, s)[n] = pg[n]
    BY <1>1, <1>2, <1>4, WrittenIs
  <2> QED
    BY <1>4, <2>1 DEF s
<1> QED
  BY <1>3, <1>4

(* Two writes, the second prevails.                                           *)
LEMMA Written2 ==
  ASSUME NEW pg, NEW a, NEW b, NEW n \in DOMAIN pg
  PROVE  Written(pg, <<a, b>>)[n] =
           IF n = b.number THEN b ELSE IF n = a.number THEN a ELSE pg[n]
<1> DEFINE s == <<a, b>>
<1>1. Len(s) = 2 /\ s[1] = a /\ s[2] = b
  OBVIOUS
<1> HIDE DEF s
<1>2. 1 .. Len(s) = {1, 2}
  BY <1>1
<1>3. CASE n = b.number
  <2>1. Written(pg, s)[n] = s[2]
    BY <1>1, <1>2, <1>3, WrittenIs
  <2> QED
    BY <1>1, <1>3, <2>1 DEF s
<1>4. CASE n # b.number /\ n = a.number
  <2>1. Written(pg, s)[n] = s[1]
    BY <1>1, <1>2, <1>4, WrittenIs
  <2> QED
    BY <1>1, <1>4, <2>1 DEF s
<1>5. CASE n # b.number /\ n # a.number
  <2>1. Written(pg, s)[n] = pg[n]
    BY <1>1, <1>2, <1>5, WrittenIs
  <2> QED
    BY <1>5, <2>1 DEF s
<1> QED
  BY <1>3, <1>4, <1>5

(* Three writes, the last prevails.                                           *)
LEMMA Written3 ==
  ASSUME NEW pg, NEW a, NEW b, NEW c, NEW n \in DOMAIN pg
  PROVE  Written(pg, <<a, b, c>>)[n] =
           IF n = c.number THEN c
           ELSE IF n = b.number THEN b ELSE IF n = a.number THEN a ELSE pg[n]
<1> DEFINE s == <<a, b, c>>
<1>1. Len(s) = 3 /\ s[1] = a /\ s[2] = b /\ s[3] = c
  OBVIOUS
<1> HIDE DEF s
<1>2. 1 .. Len(s) = {1, 2, 3}
  BY <1>1
<1>3. CASE n = c.number
  <2>1. Written(pg, s)[n] = s[3]
    BY <1>1, <1>2, <1>3, WrittenIs
  <2> QED
    BY <1>1, <1>3, <2>1 DEF s
<1>4. CASE n # c.number /\ n = b.number
  <2>1. Written(pg, s)[n] = s[2]
    BY <1>1, <1>2, <1>4, WrittenIs
  <2> QED
    BY <1>1, <1>4, <2>1 DEF s
<1>5. CASE n # c.number /\ n # b.number /\ n = a.number
  <2>1. Written(pg, s)[n] = s[1]
    BY <1>1, <1>2, <1>5, WrittenIs
  <2> QED
    BY <1>1, <1>5, <2>1 DEF s
<1>6. CASE n # c.number /\ n # b.number /\ n # a.number
  <2>1. Written(pg, s)[n] = pg[n]
    BY <1>1, <1>2, <1>6, WrittenIs
  <2> QED
    BY <1>6, <2>1 DEF s
<1> QED
  BY <1>3, <1>4, <1>5, <1>6

(* Four writes, the last prevails.                                            *)
LEMMA Written4 ==
  ASSUME NEW pg, NEW a, NEW b, NEW c, NEW d, NEW n \in DOMAIN pg
  PROVE  Written(pg, <<a, b, c, d>>)[n] =
           IF n = d.number THEN d ELSE IF n = c.number THEN c
           ELSE IF n = b.number THEN b ELSE IF n = a.number THEN a ELSE pg[n]
<1> DEFINE s == <<a, b, c, d>>
<1>1. Len(s) = 4 /\ s[1] = a /\ s[2] = b /\ s[3] = c /\ s[4] = d
  OBVIOUS
<1> HIDE DEF s
<1>2. 1 .. Len(s) = {1, 2, 3, 4}
  BY <1>1
<1>3. CASE n = d.number
  <2>1. Written(pg, s)[n] = s[4]
    <3>1. 4 \in 1 .. Len(s) /\ \A j \in 1 .. Len(s) : ~(j > 4)
      BY <1>1
    <3>2. s[4].number = n /\ Len(s) \in Nat
      BY <1>1, <1>3
    <3> QED
      BY <3>1, <3>2, WrittenIs
  <2> QED
    BY <1>1, <1>3, <2>1 DEF s
<1>4. CASE n # d.number /\ n = c.number
  <2>1. Written(pg, s)[n] = s[3]
    BY <1>1, <1>2, <1>4, WrittenIs
  <2> QED
    BY <1>1, <1>4, <2>1 DEF s
<1>5. CASE n # d.number /\ n # c.number /\ n = b.number
  <2>1. Written(pg, s)[n] = s[2]
    BY <1>1, <1>2, <1>5, WrittenIs
  <2> QED
    BY <1>1, <1>5, <2>1 DEF s
<1>6. CASE n # d.number /\ n # c.number /\ n # b.number /\ n = a.number
  <2>1. Written(pg, s)[n] = s[1]
    BY <1>1, <1>2, <1>6, WrittenIs
  <2> QED
    BY <1>1, <1>6, <2>1 DEF s
<1>7. CASE n # d.number /\ n # c.number /\ n # b.number /\ n # a.number
  <2>1. Written(pg, s)[n] = pg[n]
    BY <1>1, <1>2, <1>7, WrittenIs
  <2> QED
    BY <1>7, <2>1 DEF s
<1> QED
  BY <1>3, <1>4, <1>5, <1>6, <1>7

(* Writes of nodes leave a file of nodes.                                     *)
LEMMA WrittenKeeps ==
  ASSUME NEW pg \in [Numbers -> Node], NEW nodes, Len(nodes) \in Nat,
         \A i \in 1 .. Len(nodes) : nodes[i] \in Node
  PROVE  /\ Written(pg, nodes) \in [Numbers -> Node]
         /\ \A n \in Numbers :
              \/ Written(pg, nodes)[n] = pg[n]
              \/ \E i \in 1 .. Len(nodes) : nodes[i].number = n /\ Written(pg, nodes)[n] = nodes[i]
<1>1. ASSUME NEW n \in Numbers
      PROVE  \/ Written(pg, nodes)[n] = pg[n]
             \/ \E i \in 1 .. Len(nodes) : nodes[i].number = n /\ Written(pg, nodes)[n] = nodes[i]
  <2> DEFINE I == {i \in 1 .. Len(nodes) : nodes[i].number = n}
             w == IF I # {} THEN Max(I) ELSE 0
  <2>1. Written(pg, nodes)[n] = IF w = 0 THEN pg[n] ELSE nodes[w]
    BY DEF Written, SelectLastInSeq
  <2>2. CASE I = {}
    BY <2>1, <2>2
  <2>3. CASE I # {}
    <3>1. I \in SUBSET Nat /\ IsFiniteSet(I)
      <4>1. I \subseteq 1 .. Len(nodes) /\ IsFiniteSet(1 .. Len(nodes))
        BY FS_Interval
      <4> QED
        BY <4>1, FS_Subset
    <3> HIDE DEF I
    <3>2. PICK m \in I : \A x \in I : x <= m
      BY <2>3, <3>1, GreatestOfFinite
    <3>3. Max(I) = m
      BY <3>1, <3>2, MaxIs
    <3>4. m \in 1 .. Len(nodes) /\ nodes[m].number = n
      BY <3>2 DEF I
    <3>5. w = m /\ m # 0
      BY <2>3, <3>3, <3>4
    <3> QED
      BY <2>1, <3>4, <3>5
  <2> QED
    BY <2>2, <2>3
<1>2. ASSUME NEW n \in Numbers PROVE Written(pg, nodes)[n] \in Node
  BY <1>1, <1>2
<1>3. Written(pg, nodes) = [n \in Numbers |-> Written(pg, nodes)[n]]
  BY WrittenDomain
<1> QED
  BY <1>1, <1>2, <1>3

(* The pages under a node, and no others, come to record it as parent.        *)
LEMMA WriteParentsIs ==
  ASSUME NEW pg \in [Numbers -> Node], NEW node \in Node, Shape(node), node.kind \in Interiors
  PROVE  /\ WriteParents(pg, node) \in [Numbers -> Node]
         /\ \A n \in Numbers :
              WriteParents(pg, node)[n] =
                IF n \in Under(node) THEN [pg[n] EXCEPT !.parent = node.number] ELSE pg[n]
<1>1. /\ node.links \in Seq(Numbers) /\ node.number \in Numbers
      /\ Len(node.links) = Size(node) + 1 /\ Size(node) \in Nat
  BY NodeFields DEF Shape
<1>2. DOMAIN node.links = 1 .. Size(node) + 1
  BY <1>1
<1>3. ToSet(node.links) = Under(node)
  BY <1>2 DEF ToSet, Under
<1>4. ASSUME NEW n \in Numbers
      PROVE  WriteParents(pg, node)[n] =
                IF n \in Under(node) THEN [pg[n] EXCEPT !.parent = node.number] ELSE pg[n]
  BY <1>3 DEF WriteParents
<1>5. ASSUME NEW n \in Numbers PROVE WriteParents(pg, node)[n] \in Node
  <2>1. pg[n] \in Node
    OBVIOUS
  <2>2. Moved([pg[n] EXCEPT !.parent = node.number], pg[n], node.number)
    BY <1>1, <2>1, ReparentMoves
  <2>3. [pg[n] EXCEPT !.parent = node.number] \in Node
    BY <2>2 DEF Moved
  <2> QED
    BY <1>4, <2>1, <2>3
<1>6. WriteParents(pg, node) = [n \in Numbers |-> WriteParents(pg, node)[n]]
  BY DEF WriteParents
<1> QED
  BY <1>4, <1>5, <1>6

(* Page memory, typed, with pages of a shape that fits.                        *)
ShapeOK(n) == n \in Node /\ (n.kind \in Interiors => Shape(n))

(* A file of well-formed pages, with the metadata page in front.              *)
Pages(pg) ==
  /\ pg \in [Numbers -> Node] /\ Len(pg[0].links) = 1
  /\ \A n \in Numbers : ShapeOK(pg[n])
  /\ \A n \in Numbers : pg[n] = Blank \/ pg[n].number = n

(* The meta page and the pages that have their number are not blank.          *)
LEMMA NotBlank ==
  ASSUME NEW pg, Pages(pg), NEW n \in Numbers, n = 0 \/ pg[n].number = n
  PROVE  pg[n] # Blank
<1>1. CASE n = 0
  <2>1. Len(pg[n].links) = 1 /\ Len(Blank.links) = 0
    BY <1>1 DEF Pages, Blank
  <2> QED
    BY <2>1
<1>2. CASE n # 0
  BY <1>2 DEF Blank
<1> QED
  BY <1>1, <1>2

(* A page that was written once is never blank again.                         *)
Lasting(pg, pg2) == \A n \in Numbers : pg[n] # Blank => pg2[n] # Blank

(* Writes of well-formed nodes leave well-formed pages.                       *)
LEMMA WrittenPages ==
  ASSUME NEW pg, Pages(pg), NEW nodes, Len(nodes) \in Nat,
         \A i \in 1 .. Len(nodes) : ShapeOK(nodes[i]),
         \A i \in 1 .. Len(nodes) : nodes[i].number = 0 => Len(nodes[i].links) = 1
  PROVE  Pages(Written(pg, nodes)) /\ Lasting(pg, Written(pg, nodes))
<1>1. /\ pg \in [Numbers -> Node] /\ Len(pg[0].links) = 1
      /\ \A n \in Numbers : ShapeOK(pg[n])
      /\ \A n \in Numbers : pg[n] = Blank \/ pg[n].number = n
  BY DEF Pages
<1>2. \A i \in 1 .. Len(nodes) : nodes[i] \in Node
  BY DEF ShapeOK
<1>3. /\ Written(pg, nodes) \in [Numbers -> Node]
      /\ \A n \in Numbers :
           \/ Written(pg, nodes)[n] = pg[n]
           \/ \E i \in 1 .. Len(nodes) : nodes[i].number = n /\ Written(pg, nodes)[n] = nodes[i]
  BY <1>1, <1>2, WrittenKeeps
<1>4. \A n \in Numbers : ShapeOK(Written(pg, nodes)[n])
  BY <1>1, <1>3
<1>5. Len(Written(pg, nodes)[0].links) = 1
  <2>1. 0 \in Numbers
    BY DEF Numbers
  <2> QED
    BY <1>1, <1>3, <2>1
<1>6. \A n \in Numbers : Written(pg, nodes)[n] = Blank \/ Written(pg, nodes)[n].number = n
  BY <1>1, <1>3
<1>7. Pages(Written(pg, nodes))
  BY <1>3, <1>4, <1>5, <1>6 DEF Pages
<1>8. ASSUME NEW n \in Numbers, pg[n] # Blank PROVE Written(pg, nodes)[n] # Blank
  <2>1. CASE Written(pg, nodes)[n] = pg[n]
    BY <1>8, <2>1
  <2>2. CASE Written(pg, nodes)[n].number = n
    BY <1>7, <2>2, NotBlank
  <2> QED
    BY <1>3, <2>1, <2>2
<1> QED
  BY <1>7, <1>8 DEF Lasting

(* The same for the parents recorded below a node.                            *)
LEMMA WriteParentsPages ==
  ASSUME NEW pg, Pages(pg), NEW node \in Node, Shape(node), node.kind \in Interiors,
         \A n \in Under(node) : pg[n].number = n
  PROVE  Pages(WriteParents(pg, node)) /\ Lasting(pg, WriteParents(pg, node))
<1>1. /\ pg \in [Numbers -> Node] /\ Len(pg[0].links) = 1
      /\ \A n \in Numbers : ShapeOK(pg[n])
      /\ \A n \in Numbers : pg[n] = Blank \/ pg[n].number = n
  BY DEF Pages
<1>2. /\ WriteParents(pg, node) \in [Numbers -> Node]
      /\ \A n \in Numbers :
           WriteParents(pg, node)[n] =
             IF n \in Under(node) THEN [pg[n] EXCEPT !.parent = node.number] ELSE pg[n]
  BY <1>1, WriteParentsIs
<1>3. ASSUME NEW n \in Numbers
      PROVE  /\ ShapeOK(WriteParents(pg, node)[n])
             /\ WriteParents(pg, node)[n].links = pg[n].links
  <2>1. pg[n] \in Node /\ ShapeOK(pg[n]) /\ node.number \in Numbers
    BY <1>1, NodeFields
  <2>2. Moved([pg[n] EXCEPT !.parent = node.number], pg[n], node.number)
    BY <2>1, ReparentMoves
  <2> DEFINE m == [pg[n] EXCEPT !.parent = node.number]
  <2> HIDE DEF m
  <2>3. m \in Node /\ m.kind = pg[n].kind /\ m.links = pg[n].links /\ Shape(m) = Shape(pg[n])
    BY <2>2, MovedAlike DEF m
  <2>4. ShapeOK(m)
    BY <2>1, <2>3 DEF ShapeOK
  <2> QED
    BY <1>2, <2>1, <2>3, <2>4 DEF m
<1>4. Len(WriteParents(pg, node)[0].links) = 1
  <2>1. 0 \in Numbers
    BY DEF Numbers
  <2> QED
    BY <1>1, <1>3, <2>1
<1>5. ASSUME NEW n \in Numbers
      PROVE  WriteParents(pg, node)[n] = pg[n] \/ WriteParents(pg, node)[n].number = n
  <2>1. CASE n \in Under(node)
    <3>1. pg[n].number = n /\ pg[n] \in Node /\ node.number \in Numbers
      BY <1>1, <2>1, NodeFields
    <3>2. [pg[n] EXCEPT !.parent = node.number].number = n
      BY <3>1 DEF Node
    <3> QED
      BY <1>2, <2>1, <3>2
  <2>2. CASE n \notin Under(node)
    BY <1>2, <2>2
  <2> QED
    BY <2>1, <2>2
<1>6. \A n \in Numbers : \/ WriteParents(pg, node)[n] = Blank
                        \/ WriteParents(pg, node)[n].number = n
  BY <1>1, <1>5
<1>7. Pages(WriteParents(pg, node))
  BY <1>2, <1>3, <1>4, <1>6 DEF Pages
<1>8. ASSUME NEW n \in Numbers, pg[n] # Blank PROVE WriteParents(pg, node)[n] # Blank
  BY <1>5, <1>7, <1>8, NotBlank
<1> QED
  BY <1>7, <1>8 DEF Lasting

-------------------------------------------------------------------------------
(* What an action finds, and what it has to leave behind *)

(* Between two calls the pages in memory are the tree.                         *)
Standing(U, lo, hi, ht) ==
  /\ Tree(page, U, root.number, lo, hi, ht) /\ Holds(page, U, lo, hi, kv)
  /\ Filled(page, U, {}) /\ Wide(page, U)
  /\ root = page[root.number] /\ OrphanOK

(* When a call begins, the pages are a search tree of the map.                *)
LEMMA CalledStanding ==
  ASSUME NEW U, InvOf(U), Called
  PROVE  (\E lo, hi, ht : Standing(U, lo, hi, ht)) /\ TypeOK /\ Pages(page)
<1>1. TypeOK /\ PagesOK /\ proc = "running" /\ call = Idle /\ buffer = "live"
  BY DEF InvOf, Called
<1>2. GrownOf(U)
  BY <1>1 DEF InvOf, EmptyOf
<1>3. PICK lo, hi, ht \in [Numbers -> Nat] : GrownWith(U, lo, hi, ht)
  BY <1>2 DEF GrownOf
<1>4. View = page /\ Exempt = {}
  BY <1>1, IdleView
<1>5. Wide(View, U)
  BY <1>1, <1>3, GrownWide
<1>6. Standing(U, lo, hi, ht)
  BY <1>3, <1>4, <1>5 DEF GrownWith, Standing
<1>7. Pages(page)
  BY <1>1 DEF TypeOK, PagesOK, Pages, ShapeOK
<1> QED
  BY <1>1, <1>6, <1>7

(* The leaf that a search for k ends at.                                       *)
LeafOf(U, x, lo, hi, k) ==
  /\ x \in U /\ Leaf(k) = page[x] /\ page[x].kind \in Leaves /\ Answers(lo, hi, x, k)

(* The search for a key ends at the leaf that answers for it.                 *)
LEMMA LeafIs ==
  ASSUME NEW U, NEW lo, NEW hi, NEW ht, Standing(U, lo, hi, ht), NEW k \in Keys
  PROVE  \E x : LeafOf(U, x, lo, hi, k)
<1>1. /\ Tree(page, U, root.number, lo, hi, ht) /\ Wide(page, U)
      /\ root = page[root.number]
  BY DEF Standing
<1>2. PICK n \in U : /\ Search(page, page[root.number], k) = page[n]
                        /\ page[n].kind \in Leaves /\ Answers(lo, hi, n, k)
  BY <1>1, SearchIs
<1>3. Leaf(k) = page[n]
  BY <1>1, <1>2 DEF Leaf
<1>4. LeafOf(U, n, lo, hi, k)
  BY <1>2, <1>3 DEF LeafOf
<1> QED
  BY <1>4

(* The key is found when its leaf has an entry of it.                         *)
LEMMA PresentIs ==
  ASSUME NEW k, Leaf(k) \in Node
  PROVE  Present(k) = ~Misses(Leaf(k), k)
<1>1. DOMAIN Leaf(k).keys = 1 .. Size(Leaf(k))
  BY NodeFields DEF Size
<1> QED
  BY <1>1 DEF Present, Misses, ToSet

(* The facts about one page of the tree that a handler uses.                   *)
LEMMA StandingPage ==
  ASSUME NEW U, NEW lo, NEW hi, NEW ht, Standing(U, lo, hi, ht), NEW x \in U
  PROVE  /\ page[x] \in Node /\ page[x].number = x /\ Shape(page[x])
         /\ Ordered(page[x], lo[x], hi[x])
         /\ (page[x].kind \in {"Root", "RootLeaf"}) = (x = root.number)
         /\ page[x].kind \in Leaves \union Interiors
         /\ Size(page[x]) \in Least(page[x]) .. NodesUp
         /\ x \in PageNums /\ x \in Numbers /\ x # 0
         /\ lo[x] \in Nat /\ hi[x] \in Nat
<1>1. Tree(page, U, root.number, lo, hi, ht) /\ Filled(page, U, {})
  BY DEF Standing
<1>2. /\ page[x] \in Node /\ page[x].number = x /\ Shape(page[x])
      /\ Ordered(page[x], lo[x], hi[x])
      /\ (page[x].kind \in {"Root", "RootLeaf"}) = (x = root.number)
      /\ page[x].kind \in Leaves \union Interiors
      /\ x \in PageNums /\ x \in Numbers
      /\ lo[x] \in Nat /\ hi[x] \in Nat
  BY <1>1, TreePage
<1>3. Size(page[x]) \in Least(page[x]) .. NodesUp
  BY <1>1 DEF Filled
<1>4. x # 0
  BY <1>2, BTreeAssumption, BTreeNodeAssumption
<1> QED
  BY <1>2, <1>3, <1>4

(* The tree goes from the pages U to others.  They stay the pages in use when  *)
(* they were.                                                                  *)
Goes(U) == \E U2 : InvOf(U2)' /\ (U = used => U2 = used')

(* A step keeps the invariant when it leaves a tree of the new map.           *)
LEMMA GrownNext ==
  ASSUME NEW U, NEW U2, U = used => U2 = used',
         TypeOK', PagesOK', buffer' = "live" \/ (buffer' = "freed" /\ call' = Idle),
         root' = page'[root'.number], TreeOf(View', U2, root'.number, kv'),
         Filled(View', U2, Exempt'), CallOK(U2)', OrphanOK'
  PROVE  Goes(U)
<1>1. PICK lo, hi, ht \in [Numbers -> Nat] :
        Tree(View', U2, root'.number, lo, hi, ht) /\ Holds(View', U2, lo, hi, kv')
  BY DEF TreeOf
<1>2. GrownWith(U2, lo, hi, ht)'
  BY <1>1 DEF GrownWith
<1>3. GrownOf(U2)'
  BY <1>2 DEF GrownOf
<1>4. InvOf(U2)'
  BY <1>3 DEF InvOf
<1> QED
  BY <1>4 DEF Goes

(* The same for a step that ends the call.                                    *)
LEMMA IdleNext ==
  ASSUME NEW U, NEW U2, U = used => U2 = used',
         TypeOK', call' = Idle, Pages(page'), buffer' \in {"live", "freed"},
         root' = page'[root'.number], TreeOf(page', U2, root'.number, kv'),
         Filled(page', U2, {}), OrphanOK'
  PROVE  Goes(U)
<1>1. View' = page'
  BY DEF View, TypeOK
<1>2. Exempt' = {}
  BY DEF Exempt
<1>3. CallOK(U2)'
  BY DEF CallOK
<1>4. PagesOK'
  BY DEF Pages, PagesOK, ShapeOK
<1>5. TreeOf(View', U2, root'.number, kv') /\ Filled(View', U2, Exempt')
  BY <1>1, <1>2
<1> QED
  BY <1>3, <1>4, <1>5, GrownNext

(* The invariant asks only for the type of a process that does not run.       *)
LEMMA StoppedNext ==
  ASSUME NEW U, TypeOK', proc' # "running"
  PROVE  Goes(U)
<1>1. PICK U2 : U2 = used'
  OBVIOUS
<1>2. InvOf(U2)'
  BY DEF InvOf
<1> QED
  BY <1>1, <1>2 DEF Goes

(* Pages that keep kind and size keep what Filled says of them.                *)
LEMMA FilledAfter ==
  ASSUME NEW V, NEW V2, NEW U, NEW U2, NEW X, NEW X2, NEW S, Filled(V, U, X),
         \A n \in (U2 \ X2) \ S : /\ n \in U \ X /\ V2[n].kind = V[n].kind
                                  /\ Size(V2[n]) = Size(V[n]),
         \A n \in (U2 \ X2) \intersect S : Size(V2[n]) \in Least(V2[n]) .. NodesUp
  PROVE  Filled(V2, U2, X2)
<1>1. ASSUME NEW n \in U2 \ X2 PROVE Size(V2[n]) \in Least(V2[n]) .. NodesUp
  <2>1. CASE n \in S
    BY <2>1
  <2>2. CASE n \notin S
    <3>1. n \in U \ X /\ V2[n].kind = V[n].kind /\ Size(V2[n]) = Size(V[n])
      BY <2>2
    <3>2. Least(V2[n]) = Least(V[n])
      BY <3>1 DEF Least
    <3> QED
      BY <3>1, <3>2 DEF Filled
  <2> QED
    BY <2>1, <2>2
<1> QED
  BY <1>1 DEF Filled

(* Above an inner page is the root, not a leaf: the root is no orphan.         *)
LEMMA InnerRoot ==
  ASSUME NEW V, NEW U, NEW r, NEW lo, NEW hi, NEW ht, Tree(V, U, r, lo, hi, ht),
         NEW n \in U, V[n].kind \in Interiors
  PROVE  V[r].kind = "Root"
<1>1. r \in U /\ \A x \in U \ {r} : ht[x] < ht[r]
  BY DEF Tree, RootOK
<1>2. V[r].kind \in {"Root", "RootLeaf"} /\ (V[r].kind \in Leaves) = (ht[r] = 0) /\ ht[r] \in Nat
  BY <1>1, TreePage
<1>3. ht[n] # 0 /\ ht[n] \in Nat
  <2>1. V[n].kind \notin Leaves
    BY Kinds
  <2> QED
    BY <2>1, TreePage
<1>4. ht[r] # 0
  BY <1>1, <1>2, <1>3
<1> QED
  BY <1>2, <1>4, Kinds

(* The metadata page is well formed.                                          *)
LEMMA MetaIs ==
  ASSUME NEW m \in Numbers
  PROVE  /\ MetaPage(m) \in Node /\ ShapeOK(MetaPage(m)) /\ MetaPage(m).number = 0
         /\ Len(MetaPage(m).links) = 1
<1>1. PICK e, n : e = <<m>> /\ n = MetaPage(m)
  OBVIOUS
<1>2. e \in Seq(Numbers) /\ Len(e) = 1
  BY <1>1
<1>3. n = [Blank EXCEPT !.kind = "Meta", !.links = e]
  BY <1>1 DEF MetaPage
<1>4. n \in Node /\ n.number = 0 /\ n.kind = "Meta" /\ n.links = e
  BY <1>2, <1>3, BlankIs DEF Node
<1> QED
  BY <1>1, <1>2, <1>4, Kinds DEF ShapeOK

-------------------------------------------------------------------------------
(* The first insert *)

(* The root that the first insertion creates.                                 *)
FirstLeaf(m, k, v) ==
  [Blank EXCEPT !.kind = "RootLeaf", !.number = m, !.keys = <<k>>, !.vals = <<v>>]

(* Its fields.                                                                *)
LEMMA FirstLeafIs ==
  ASSUME NEW m \in Numbers, NEW k \in Keys, NEW v \in Values, NEW n, n = FirstLeaf(m, k, v)
  PROVE  /\ n \in Node /\ Shape(n) /\ n.kind = "RootLeaf" /\ n.number = m /\ n.parent = 0
         /\ Size(n) = 1 /\ n.keys[1] = k /\ n.vals[1] = v /\ Len(n.vals) = 1
<1>1. PICK ks, vs : ks = <<k>> /\ vs = <<v>>
  OBVIOUS
<1>2. ks \in Seq(Keys) /\ vs \in Seq(Values) /\ Len(ks) = 1 /\ Len(vs) = 1 /\ ks[1] = k /\ vs[1] = v
  BY <1>1
<1>3. n = [Blank EXCEPT !.kind = "RootLeaf", !.number = m, !.keys = ks, !.vals = vs]
  BY <1>1 DEF FirstLeaf
<1>4. /\ n \in Node /\ n.kind = "RootLeaf" /\ n.number = m /\ n.parent = 0
      /\ n.keys = ks /\ n.vals = vs /\ n.links = <<>>
  BY <1>2, <1>3, BlankIs, Kinds DEF Node
<1> QED
  BY <1>2, <1>4, Kinds DEF Size, Shape

(* One leaf with one entry is a search tree of one key.                       *)
LEMMA TreeOfOne ==
  ASSUME NEW m \in PageNums, NEW k \in Keys, NEW v \in Values,
         NEW V, V[m] = FirstLeaf(m, k, v),
         NEW map, map = [x \in Keys |-> Absent]
  PROVE  TreeOf(V, {m}, m, With(map, k, v))
<1>1. PICK n : n = FirstLeaf(m, k, v)
  OBVIOUS
<1>2. /\ n \in Node /\ Shape(n) /\ n.kind = "RootLeaf" /\ n.number = m
      /\ Size(n) = 1 /\ n.keys[1] = k /\ n.vals[1] = v /\ V[m] = n
      /\ m \in Numbers /\ n.kind \in Leaves
  BY <1>1, FirstLeafIs, Kinds DEF Numbers
<1>3. PICK top \in Nat : top = Max(Keys) + 1 /\ \A x \in Keys : x < top
  <2>1. Keys \in SUBSET Nat /\ IsFiniteSet(Keys) /\ Keys # {}
    BY BTreeAssumption, BTreeNodeAssumption
  <2>2. PICK g \in Keys : \A x \in Keys : x <= g
    BY <2>1, GreatestOfFinite
  <2>3. Max(Keys) = g
    BY <2>1, <2>2, MaxIs
  <2> QED
    BY <2>1, <2>2, <2>3
<1> DEFINE lo == [x \in Numbers |-> 0]
           hi == [x \in Numbers |-> top]
           ht == [x \in Numbers |-> 0]
<1>4. /\ lo \in [Numbers -> Nat] /\ hi \in [Numbers -> Nat] /\ ht \in [Numbers -> Nat]
      /\ lo[m] = 0 /\ hi[m] = top /\ ht[m] = 0
  BY <1>2
<1> HIDE DEF lo, hi, ht
<1>5. k \in Nat /\ k < top /\ 0 < top /\ 0 <= k
  BY <1>3, BTreeAssumption, BTreeNodeAssumption
<1>6. Ordered(n, lo[m], hi[m])
  <2>1. 1 .. Size(n) = {1}
    BY <1>2
  <2> QED
    BY <1>2, <1>4, <1>5, <2>1, Kinds DEF Ordered
<1>7. PageOK(V, m, lo, hi, ht, m)
  BY <1>2, <1>4, <1>6 DEF PageOK
<1>8. Tree(V, {m}, m, lo, hi, ht)
  <2>1. ChildrenOK(V, {m}, lo, hi, ht, m)
    BY <1>2, Kinds DEF ChildrenOK
  <2>2. RootOK({m}, m, lo, hi, ht)
    BY <1>3, <1>4 DEF RootOK
  <2>3. Apart({m}, lo, hi, ht)
    BY DEF Apart
  <2> QED
    BY <1>4, <1>7, <2>1, <2>2, <2>3 DEF Tree
<1>9. Holds(V, {m}, lo, hi, With(map, k, v))
  <2>1. ASSUME NEW x \in Keys PROVE ValueIn(n, x) = With(map, k, v)[x]
    <3>1. 1 \in 1 .. Size(n) /\ 1 .. Size(n) = {1}
      BY <1>2
    <3>2. CASE x = k
      <4>1. ValueIn(n, k) = v
        BY <1>2, <1>6, <3>1, ValueInIs
      <4> QED
        BY <3>2, <4>1 DEF With
    <3>3. CASE x # k
      <4>1. \A i \in 1 .. Size(n) : n.keys[i] # x
        BY <1>2, <3>1, <3>3
      <4>2. ValueIn(n, x) = Absent
        BY <1>2, <1>6, <4>1, ValueInIs
      <4> QED
        BY <3>3, <4>2 DEF With
    <3> QED
      BY <3>2, <3>3
  <2> QED
    BY <1>2, <2>1 DEF Holds
<1> QED
  BY <1>8, <1>9, TreeOfIs

(* The first insertion keeps the invariant.                                   *)
LEMMA InsertFirstKeeps ==
  ASSUME NEW U, InvOf(U), NEW k \in Keys, NEW v \in Values, InsertFirst(k, v)
  PROVE  Goes(U)
<1>1. TypeOK /\ EmptyOf(U) /\ Pages(page) /\ buffer = "null" /\ proc = "running" /\ call = Idle
  <2>1. TypeOK /\ PagesOK /\ buffer = "null" /\ proc = "running" /\ call = Idle
    BY DEF InvOf, InsertFirst
  <2>2. ~GrownOf(U)
    BY <2>1 DEF GrownOf, GrownWith
  <2> QED
    BY <2>1, <2>2 DEF InvOf, TypeOK, PagesOK, Pages, ShapeOK
<1>2. U = {} /\ kv = [x \in Keys |-> Absent]
  BY <1>1 DEF EmptyOf
<1>3. PICK m : m = FindFree(used)
  OBVIOUS
<1>4. /\ m \in Numbers /\ Marked(used) \subseteq PageNums
      /\ m # 0 => m \in PageNums /\ Marked(used) = used \union {m}
  <2>1. used \subseteq PageNums
    BY <1>1 DEF TypeOK
  <2> QED
    BY <1>3, <2>1, FreeIs
<1>5. PICK n : n = FirstLeaf(m, k, v)
  OBVIOUS
<1>6. /\ n \in Node /\ Shape(n) /\ n.kind = "RootLeaf" /\ n.number = m /\ n.parent = 0
      /\ Size(n) = 1
  BY <1>4, <1>5, FirstLeafIs
<1>7. /\ root' = n /\ meta' = m /\ page' = Written(page, <<n, MetaPage(m)>>)
      /\ used' = Marked(used) /\ buffer' = "live" /\ call' = call
      /\ proc' = IF m = 0 THEN "indexFull" ELSE "running"
      /\ kv' = With(kv, k, v)
  BY <1>3, <1>5 DEF InsertFirst, FirstLeaf, Map!Put, With
<1>8. PICK e : e = MetaPage(m)
  OBVIOUS
<1>9. e \in Node /\ ShapeOK(e) /\ e.number = 0 /\ Len(e.links) = 1
  BY <1>4, <1>8, MetaIs
<1>10. page' \in [Numbers -> Node] /\ (m # 0 => Pages(page'))
  <2> DEFINE s == <<n, e>>
  <2>1. Len(s) = 2 /\ s[1] = n /\ s[2] = e
    OBVIOUS
  <2> HIDE DEF s
  <2>2. 1 .. Len(s) = {1, 2} /\ Len(s) \in Nat
    BY <2>1
  <2>3. page' = Written(page, s)
    BY <1>7, <1>8 DEF s
  <2>4. \A i \in 1 .. Len(s) : s[i] \in Node /\ ShapeOK(s[i])
    BY <1>6, <1>9, <2>1, <2>2 DEF ShapeOK
  <2>5. page' \in [Numbers -> Node]
    BY <1>1, <2>2, <2>3, <2>4, WrittenKeeps DEF TypeOK
  <2>6. m # 0 => \A i \in 1 .. Len(s) : s[i].number = 0 => Len(s[i].links) = 1
    BY <1>6, <1>9, <2>1, <2>2
  <2> QED
    BY <1>1, <2>2, <2>3, <2>4, <2>5, <2>6, WrittenPages
<1>11. TypeOK'
  <2>1. kv' \in [Keys -> Values \union {Absent}]
    BY <1>1, <1>7 DEF TypeOK, With
  <2> QED
    BY <1>1, <1>4, <1>6, <1>7, <1>10, <2>1 DEF TypeOK
<1>12. CASE m = 0
  BY <1>7, <1>11, <1>12, StoppedNext
<1>13. CASE m # 0
  <2> DEFINE U2 == {m}
  <2>1. m \in PageNums /\ m \in DOMAIN page /\ (U = used => U2 = used')
    BY <1>1, <1>2, <1>4, <1>7, <1>13 DEF TypeOK, Numbers
  <2>2. page'[m] = n
    BY <1>6, <1>7, <1>8, <1>9, <1>13, <2>1, Written2
  <2>3. TreeOf(page', U2, root'.number, kv')
    BY <1>2, <1>5, <1>6, <1>7, <2>1, <2>2, TreeOfOne
  <2>4. Filled(page', U2, {})
    <3>1. NodesUp \in Nat /\ NodesUp >= 1
      BY NodesDownIs
    <3> QED
      BY <1>6, <2>1, <2>2, <3>1 DEF Filled, Least
  <2>5. OrphanOK'
    <3>1. page'[0] # Blank /\ root'.parent = 0
      BY <1>6, <1>7, <1>10, <1>13, NotBlank DEF Numbers
    <3> QED
      BY <3>1 DEF OrphanOK
  <2> HIDE DEF U2
  <2> QED
    BY <1>1, <2>1, <1>6, <1>7, <1>10, <1>11, <1>13, <2>2, <2>3, <2>4, <2>5, IdleNext
<1> QED
  BY <1>12, <1>13

-------------------------------------------------------------------------------
(* A leaf that is written and nothing else *)

(* A call that changes one leaf and ends keeps the invariant.                 *)
LEMMA LeafWritten ==
  ASSUME NEW U, InvOf(U), Called, NEW lo, NEW hi, NEW ht, Standing(U, lo, hi, ht),
         NEW k \in Keys, NEW x, LeafOf(U, x, lo, hi, k),
         NEW n2, NEW v \in Values \union {Absent}, NEW d,
         Updated(page[x], n2, k, v, d, lo[x], hi[x]),
         Size(n2) \in Least(n2) .. NodesUp,
         page' = Written(page, <<n2>>), kv' = With(kv, k, v),
         root' = IF x = root.number THEN n2 ELSE root,
         buffer' \in {"live", "freed"},
         used' = used, call' = call, meta' = meta, proc' = proc
  PROVE  Goes(U)
<1>1. TypeOK /\ Pages(page) /\ call = Idle
  BY CalledStanding DEF Called
<1>2. /\ x \in U /\ page[x].kind \in Leaves /\ lo[x] <= k /\ k < hi[x]
      /\ Tree(page, U, root.number, lo, hi, ht) /\ Holds(page, U, lo, hi, kv)
      /\ Filled(page, U, {}) /\ root = page[root.number] /\ OrphanOK
  BY DEF LeafOf, Answers, Standing
<1>3. /\ page[x] \in Node /\ page[x].number = x /\ x \in Numbers /\ x # 0
  BY <1>2, StandingPage
<1>4. /\ n2 \in Node /\ Shape(n2) /\ n2.number = x /\ n2.kind = page[x].kind
      /\ n2.parent = page[x].parent
  BY <1>3 DEF Updated
<1>5. \A n \in Numbers : page'[n] = IF n = x THEN n2 ELSE page[n]
  BY <1>1, <1>4, Written1 DEF TypeOK
<1>6. Pages(page') /\ Lasting(page, page')
  <2> DEFINE s == <<n2>>
  <2>1. Len(s) = 1 /\ s[1] = n2
    OBVIOUS
  <2> HIDE DEF s
  <2>2. 1 .. Len(s) = {1} /\ Len(s) \in Nat
    BY <2>1
  <2>3. /\ \A i \in 1 .. Len(s) : ShapeOK(s[i])
        /\ \A i \in 1 .. Len(s) : s[i].number = 0 => Len(s[i].links) = 1
    BY <1>3, <1>4, <2>1, <2>2 DEF ShapeOK
  <2>4. page' = Written(page, s)
    BY DEF s
  <2> QED
    BY <1>1, <2>2, <2>3, <2>4, WrittenPages
<1>7. TypeOK'
  <2>1. kv' \in [Keys -> Values \union {Absent}] /\ root' \in Node
    BY <1>1, <1>4 DEF TypeOK, With
  <2> QED
    BY <1>1, <1>6, <2>1 DEF TypeOK, Pages
<1>8. \A n \in U : n \in Numbers
  BY <1>2, TreePage
<1>9. TreeOf(page', U, root'.number, kv')
  <2>1. page'[x] = n2 /\ \A n \in U \ {x} : page'[n] = page[n]
    BY <1>3, <1>5, <1>8
  <2>2. kv \in [Keys -> Values \union {Absent}] /\ kv' = [kv EXCEPT ![k] = v]
    BY <1>1 DEF TypeOK, With
  <2>3. Updated(page[x], page'[x], k, v, d, lo[x], hi[x])
    BY <2>1
  <2>4. PICK V2, r : V2 = page' /\ r = root.number
    OBVIOUS
  <2>5. /\ Tree(page, U, r, lo, hi, ht) /\ Updated(page[x], V2[x], k, v, d, lo[x], hi[x])
        /\ \A n \in U \ {x} : V2[n] = page[n]
    BY <1>2, <2>1, <2>3, <2>4
  <2>6. /\ Tree(V2, U, r, lo, hi, ht)
        /\ \A m \in [Keys -> Values \union {Absent}] :
             Holds(page, U, lo, hi, m) => Holds(V2, U, lo, hi, [m EXCEPT ![k] = v])
    BY <1>2, <2>5, LeafUpdate
  <2>7. Tree(page', U, root.number, lo, hi, ht) /\ Holds(page', U, lo, hi, kv')
    BY <1>2, <2>2, <2>4, <2>6
  <2>8. root'.number = root.number
    BY <1>4
  <2> QED
    BY <2>7, <2>8, TreeOfIs
<1>10. Filled(page', U, {})
  BY <1>2, <1>3, <1>5, <1>8 DEF Filled, Least
<1>11. root.number \in Numbers /\ root' = page'[root'.number]
  BY <1>1, <1>2, <1>4, <1>5, NodeFields DEF TypeOK
<1>12. OrphanOK'
  <2>1. root'.kind = root.kind /\ root'.parent = root.parent /\ root'.number = root.number
    BY <1>2, <1>4
  <2>2. root.parent \in Numbers
    BY <1>1, NodeFields DEF TypeOK
  <2>3. root.kind = "RootLeaf" => x = root.number
    <3>1. PICK r : r = root.number
      OBVIOUS
    <3>2. root.kind = "RootLeaf" => ht[root.number] = 0
      <4>1. Tree(page, U, r, lo, hi, ht) /\ r \in U /\ root = page[r]
        BY <1>2, <3>1 DEF Tree, RootOK
      <4>2. (page[r].kind \in Leaves) = (ht[r] = 0)
        BY <4>1, TreePage
      <4> QED
        BY <3>1, <4>1, <4>2, Kinds
    <3>3. \A n \in U \ {root.number} : ht[n] < ht[root.number] /\ ht[n] \in Nat
      BY <1>2, TreePage DEF Tree, RootOK
    <3> QED
      BY <1>2, <3>2, <3>3
  <2>4. root.kind = "RootLeaf" /\ root.parent # 0 =>
          root.parent # root.number /\ page'[root.parent].kind \in Interiors
    BY <1>2, <1>5, <2>2, <2>3 DEF OrphanOK
  <2>5. page'[root.parent] # Blank
    BY <1>2, <1>6, <2>2 DEF OrphanOK, Lasting
  <2> QED
    BY <2>1, <2>4, <2>5 DEF OrphanOK
<1>13. call' = Idle
  BY <1>1
<1> QED
  BY <1>6, <1>7, <1>9, <1>10, <1>11, <1>12, <1>13, IdleNext

(* What all handlers of a key start from.                                      *)
LEMMA StandingLeaf ==
  ASSUME NEW U, NEW lo, NEW hi, NEW ht, Standing(U, lo, hi, ht), NEW k \in Keys,
         NEW x, LeafOf(U, x, lo, hi, k)
  PROVE  /\ Leaf(k) = page[x] /\ page[x] \in Node /\ page[x].number = x /\ Shape(page[x])
         /\ page[x].kind \in Leaves /\ Ordered(page[x], lo[x], hi[x])
         /\ (page[x].kind = "RootLeaf") = (x = root.number)
         /\ Size(page[x]) \in Least(page[x]) .. NodesUp /\ Size(page[x]) \in Nat
         /\ lo[x] \in Nat /\ hi[x] \in Nat /\ lo[x] <= k /\ k < hi[x]
         /\ Present(k) = ~Misses(page[x], k) /\ x \in U
<1>1. x \in U /\ Leaf(k) = page[x] /\ page[x].kind \in Leaves /\ Answers(lo, hi, x, k)
  BY DEF LeafOf
<1>2. /\ page[x] \in Node /\ page[x].number = x /\ Shape(page[x])
      /\ Ordered(page[x], lo[x], hi[x])
      /\ (page[x].kind \in {"Root", "RootLeaf"}) = (x = root.number)
      /\ Size(page[x]) \in Least(page[x]) .. NodesUp
      /\ lo[x] \in Nat /\ hi[x] \in Nat
  BY <1>1, StandingPage
<1>3. Present(k) = ~Misses(page[x], k)
  BY <1>1, <1>2, PresentIs
<1>4. (page[x].kind = "RootLeaf") = (x = root.number)
  BY <1>1, <1>2, Kinds
<1> QED
  BY <1>1, <1>2, <1>3, <1>4, NodeFields DEF Answers

(* An insertion of a key that is there keeps the invariant.                   *)
LEMMA InsertExistingKeeps ==
  ASSUME NEW U, InvOf(U), NEW k \in Keys, NEW v \in Values, InsertExisting(k, v)
  PROVE  Goes(U)
<1>1. PICK p : p = InsertSame(Leaf(k), k, v)
  OBVIOUS
<1>2. /\ Called /\ Present(k) /\ page' = Written(page, <<p>>)
      /\ IF p.kind = "RootLeaf" THEN root' = p /\ buffer' = "freed"
         ELSE root' = root /\ buffer' = buffer
      /\ kv' = With(kv, k, v)
      /\ used' = used /\ call' = call /\ meta' = meta /\ proc' = proc
  BY <1>1 DEF InsertExisting, Map!Put, With
<1>3. PICK lo, hi, ht : Standing(U, lo, hi, ht)
  BY <1>2, CalledStanding
<1>4. PICK x : LeafOf(U, x, lo, hi, k)
  BY <1>3, LeafIs
<1>5. /\ Leaf(k) = page[x] /\ page[x] \in Node /\ Shape(page[x])
      /\ page[x].kind \in Leaves /\ Ordered(page[x], lo[x], hi[x])
      /\ (page[x].kind = "RootLeaf") = (x = root.number)
      /\ Size(page[x]) \in Least(page[x]) .. NodesUp /\ Size(page[x]) \in Nat
      /\ lo[x] \in Nat /\ hi[x] \in Nat
      /\ Present(k) = ~Misses(page[x], k)
  BY <1>3, <1>4, StandingLeaf
<1>6. PICK i \in 1 .. Size(page[x]) : page[x].keys[i] = k
  BY <1>2, <1>5 DEF Misses
<1>7. Updated(page[x], p, k, v, 0, lo[x], hi[x])
  BY <1>1, <1>5, <1>6, InsertSameUpdates
<1>8. p.kind = page[x].kind /\ Size(p) = Size(page[x])
  BY <1>5, <1>7 DEF Updated
<1>9. Size(p) \in Least(p) .. NodesUp
  BY <1>5, <1>8 DEF Least
<1>10. /\ root' = IF x = root.number THEN p ELSE root
       /\ buffer' \in {"live", "freed"} /\ v \in Values \union {Absent}
  BY <1>2, <1>5, <1>8 DEF Called
<1> QED
  BY <1>2, <1>3, <1>4, <1>7, <1>9, <1>10, LeafWritten

(* An insertion into a leaf that is not full keeps the invariant.             *)
LEMMA InsertWithRoomKeeps ==
  ASSUME NEW U, InvOf(U), NEW k \in Keys, NEW v \in Values, InsertWithRoom(k, v)
  PROVE  Goes(U)
<1>1. PICK p : p = InsertIntoLeaf(Leaf(k), k, v)
  OBVIOUS
<1>2. /\ Called /\ ~Present(k) /\ ~Full(Leaf(k)) /\ page' = Written(page, <<p>>)
      /\ root' = (IF IsRoot(p) THEN p ELSE root) /\ buffer' = buffer
      /\ kv' = With(kv, k, v)
      /\ used' = used /\ call' = call /\ meta' = meta /\ proc' = proc
  BY <1>1 DEF InsertWithRoom, Map!Put, With
<1>3. PICK lo, hi, ht : Standing(U, lo, hi, ht)
  BY <1>2, CalledStanding
<1>4. PICK x : LeafOf(U, x, lo, hi, k)
  BY <1>3, LeafIs
<1>5. /\ Leaf(k) = page[x] /\ page[x] \in Node /\ page[x].number = x /\ Shape(page[x])
      /\ page[x].kind \in Leaves /\ Ordered(page[x], lo[x], hi[x])
      /\ Size(page[x]) \in Least(page[x]) .. NodesUp /\ Size(page[x]) \in Nat
      /\ lo[x] \in Nat /\ hi[x] \in Nat /\ lo[x] <= k /\ k < hi[x]
      /\ Present(k) = ~Misses(page[x], k)
  BY <1>3, <1>4, StandingLeaf
<1>6. /\ \A i \in 1 .. Size(page[x]) : page[x].keys[i] # k
      /\ Size(page[x]) # NodesUp
  BY <1>2, <1>5 DEF Misses, Full
<1>7. Updated(page[x], p, k, v, 1, lo[x], hi[x])
  BY <1>1, <1>5, <1>6, InsertIntoLeafUpdates
<1>8. p.kind = page[x].kind /\ Size(p) = Size(page[x]) + 1 /\ p.number = x
  BY <1>5, <1>7 DEF Updated
<1>9. Size(p) \in Least(p) .. NodesUp
  BY <1>5, <1>6, <1>8, NodesDownIs DEF Least
<1>10. /\ root' = IF x = root.number THEN p ELSE root
       /\ buffer' \in {"live", "freed"} /\ v \in Values \union {Absent}
  BY <1>2, <1>8 DEF Called, IsRoot
<1> QED
  BY <1>2, <1>3, <1>4, <1>7, <1>9, <1>10, LeafWritten

(* A deletion from a leaf that keeps enough keys keeps the invariant.         *)
LEMMA DeleteFromLeafKeeps ==
  ASSUME NEW U, InvOf(U), NEW k \in Keys, DeleteFromLeaf(k)
  PROVE  Goes(U)
<1>1. PICK p : p = DeleteKeyLeaf(Leaf(k), k)
  OBVIOUS
<1>2. /\ Called /\ Present(k) /\ page' = Written(page, <<p>>)
      /\ Size(Leaf(k)) > NodesDown \/ p.kind = "RootLeaf"
      /\ IF p.kind = "RootLeaf" THEN root' = p /\ buffer' = "freed"
         ELSE root' = root /\ buffer' = buffer
      /\ kv' = With(kv, k, Absent)
      /\ used' = used /\ call' = call /\ meta' = meta /\ proc' = proc
  BY <1>1 DEF DeleteFromLeaf, Map!Remove, With
<1>3. PICK lo, hi, ht : Standing(U, lo, hi, ht)
  BY <1>2, CalledStanding
<1>4. PICK x : LeafOf(U, x, lo, hi, k)
  BY <1>3, LeafIs
<1>5. /\ Leaf(k) = page[x] /\ page[x] \in Node /\ Shape(page[x])
      /\ page[x].kind \in Leaves /\ Ordered(page[x], lo[x], hi[x])
      /\ (page[x].kind = "RootLeaf") = (x = root.number)
      /\ Size(page[x]) \in Least(page[x]) .. NodesUp /\ Size(page[x]) \in Nat
      /\ lo[x] \in Nat /\ hi[x] \in Nat
      /\ Present(k) = ~Misses(page[x], k)
  BY <1>3, <1>4, StandingLeaf
<1>6. PICK i \in 1 .. Size(page[x]) : page[x].keys[i] = k
  BY <1>2, <1>5 DEF Misses
<1>7. Updated(page[x], p, k, Absent, -1, lo[x], hi[x])
  BY <1>1, <1>5, <1>6, DeleteKeyLeafUpdates
<1>8. p.kind = page[x].kind /\ Size(p) = Size(page[x]) - 1
  BY <1>5, <1>7 DEF Updated
<1>9. Size(p) \in Least(p) .. NodesUp
  BY <1>2, <1>5, <1>6, <1>8, NodesDownIs, Kinds DEF Least
<1>10. /\ root' = IF x = root.number THEN p ELSE root
       /\ buffer' \in {"live", "freed"}
  BY <1>2, <1>5, <1>8 DEF Called
<1> QED
  BY <1>2, <1>3, <1>4, <1>7, <1>9, <1>10, LeafWritten

-------------------------------------------------------------------------------
(* What a split makes, whether there was a number for the new page or not *)

(* A node with one key and one link more.                                     *)
LEMMA InsertTyped ==
  ASSUME NEW n \in Node, Shape(n), n.kind \in Interiors, NEW k \in Keys, NEW m \in Numbers,
         NEW n2, n2 = InsertIntoIntermediate(n, k, m)
  PROVE  /\ n2 \in Node /\ Shape(n2) /\ n2.kind = n.kind /\ n2.number = n.number
         /\ n2.parent = n.parent /\ Size(n2) = Size(n) + 1
<1> DEFINE i == FindPos(n, k) + 1
<1>1. /\ n.keys \in Seq(Keys) /\ n.keys \in Seq(Nat) /\ n.links \in Seq(Numbers)
      /\ Len(n.links) = Size(n) + 1 /\ n.vals = <<>> /\ Size(n) \in Nat /\ k \in Nat
  BY NodeFields, NumbersAreNat DEF Shape
<1>2. i \in 1 .. Size(n) + 1
  <2>1. n.keys \in Seq(Nat) /\ k \in Nat
    BY <1>1
  <2>2. PICK f : f = FindPos(n, k)
    OBVIOUS
  <2>3. f \in 0 .. Size(n)
    BY <2>1, <2>2, FindPosStops
  <2>4. i = f + 1
    BY <2>2
  <2> QED
    BY <1>1, <2>3, <2>4
<1> HIDE DEF i
<1>3. i \in 1 .. Len(n.keys) + 1 /\ i + 1 \in 1 .. Len(n.links) + 1
  BY <1>1, <1>2 DEF Size
<1>4. PICK ks, ls : ks = InsertAt(n.keys, i, k) /\ ls = InsertAt(n.links, i + 1, m)
  OBVIOUS
<1>5. ks \in Seq(Keys) /\ Len(ks) = Len(n.keys) + 1
  <2>1. PICK z : z = n.keys
    OBVIOUS
  <2>2. z \in Seq(Keys) /\ i \in 1 .. Len(z) + 1 /\ ks = InsertAt(z, i, k)
    BY <1>1, <1>3, <1>4, <2>1
  <2>3. Inserted(ks, z, i, k) /\ ks \in Seq(Keys)
    BY <2>2, InsertAtIs
  <2> QED
    BY <2>1, <2>3 DEF Inserted
<1>6. ls \in Seq(Numbers) /\ Len(ls) = Len(n.links) + 1
  <2>1. PICK j : j = i + 1
    OBVIOUS
  <2>2. j \in 1 .. Len(n.links) + 1 /\ ls = InsertAt(n.links, j, m)
    BY <1>3, <1>4, <2>1
  <2> QED
    BY <1>1, <2>2, InsertAtIs DEF Inserted
<1>7. n2 = [n EXCEPT !.keys = ks, !.links = ls]
  BY <1>4 DEF InsertIntoIntermediate, i
<1>8. /\ n2 \in Node /\ n2.kind = n.kind /\ n2.number = n.number /\ n2.parent = n.parent
      /\ n2.keys = ks /\ n2.vals = n.vals /\ n2.links = ls
  BY <1>5, <1>6, <1>7 DEF Node
<1> QED
  BY <1>1, <1>5, <1>6, <1>8, Kinds DEF Shape, Size

(* A new root.                                                                *)
LEMMA CreateRootTyped ==
  ASSUME NEW s \in Numbers, NEW k \in Keys, NEW x \in Numbers, NEW m \in Numbers,
         NEW n, n = CreateRoot(s, k, x, m)
  PROVE  /\ n \in Node /\ Shape(n) /\ n.kind = "Root" /\ n.number = s /\ n.parent = 0
         /\ Size(n) = 1
<1>1. PICK ks, ls : ks = <<k>> /\ ls = <<x, m>>
  OBVIOUS
<1>2. ks \in Seq(Keys) /\ ls \in Seq(Numbers) /\ Len(ks) = 1 /\ Len(ls) = 2
  BY <1>1
<1>3. n = [Blank EXCEPT !.kind = "Root", !.number = s, !.keys = ks, !.links = ls]
  BY <1>1 DEF CreateRoot
<1>4. /\ n \in Node /\ n.kind = "Root" /\ n.number = s /\ n.parent = 0
      /\ n.keys = ks /\ n.vals = <<>> /\ n.links = ls
  BY <1>2, <1>3, BlankIs, Kinds DEF Node
<1>5. Size(n) = 1
  BY <1>2, <1>4 DEF Size
<1>6. n.kind \in Interiors /\ n.kind \notin Leaves
  BY <1>4, Kinds
<1>7. Shape(n)
  BY <1>2, <1>4, <1>5, <1>6 DEF Shape
<1> QED
  BY <1>4, <1>5, <1>7

(* A node under another parent.                                               *)
LEMMA GivenIs ==
  ASSUME NEW n \in Node, Shape(n), NEW q \in Numbers, NEW n2, n2 = Given(n, q)
  PROVE  /\ n2 \in Node /\ Shape(n2) /\ n2.kind = n.kind /\ n2.number = n.number
         /\ n2.parent = q /\ Size(n2) = Size(n) /\ n2.keys = n.keys
<1>1. Moved(n2, n, q)
  BY ReparentMoves DEF Given
<1> QED
  BY <1>1, MovedAlike DEF Moved

(* The kind that DivideLeaf overwrites does not matter.                        *)
LEMMA DivideLeafAs ==
  ASSUME NEW n \in Node, NEW n0, n0 = Raised(n, "Leaf"), NEW k, NEW v, NEW m
  PROVE  DivideLeaf(n0, k, v, m) = DivideLeaf(n, k, v, m)
<1>1. n0 = [n EXCEPT !.kind = "Leaf"] /\ [n0 EXCEPT !.kind = "Leaf"] = [n EXCEPT !.kind = "Leaf"]
  BY DEF Raised, Node
<1>2. Size(n0) = Size(n)
  BY <1>1 DEF Node, Size
<1> QED
  BY <1>1, <1>2 DEF DivideLeaf

(* The leaves that divide_leaf makes.                                         *)
LEMMA DivideLeafTyped ==
  ASSUME NEW n \in Node, Shape(n), n.kind \in Leaves, Size(n) = NodesUp,
         NEW l \in Nat, NEW h \in Nat, Ordered(n, l, h),
         NEW k \in Keys, l <= k, k < h, Misses(n, k),
         NEW v \in Values, NEW m \in Numbers, NEW d, d = DivideLeaf(n, k, v, m)
  PROVE  /\ Divided(d.p, d.s, n.number, m, "Leaf", NodesDown, NodesDown + 1)
         /\ d.p.parent = n.parent /\ d.s.parent = n.parent /\ Head(d.s.keys) \in Keys
<1>1. PICK n0 : n0 = Raised(n, "Leaf")
  OBVIOUS
<1>2. /\ n0 \in Node /\ n0.kind = "Leaf" /\ n0.number = n.number /\ n0.parent = n.parent
      /\ n0.keys = n.keys /\ n0.vals = n.vals /\ n0.links = n.links
  BY <1>1, Kinds DEF Raised, Node
<1>3. Size(n0) = NodesUp /\ Shape(n0) /\ Ordered(n0, l, h) /\ Size(n) \in Nat
  BY <1>2, Kinds, NodeFields DEF Size, Shape, Ordered
<1>4. \A i \in 1 .. Size(n0) : n0.keys[i] # k
  BY <1>2, <1>3 DEF Misses
<1>5. d = DivideLeaf(n0, k, v, m)
  BY <1>1, DivideLeafAs
<1>6. PICK N : N = InsertIntoLeaf(n0, k, v)
  OBVIOUS
<1>7. /\ Updated(n0, N, k, v, 1, l, h)
      /\ LeafHalves(N, d.p, d.s, NodesDown, l, Head(d.s.keys), h)
      /\ d.s.number = m
  BY <1>2, <1>3, <1>4, <1>5, <1>6, DivideLeafHalves
<1>8. Halves(N, d.p, d.s, NodesDown, l, Head(d.s.keys), h) /\ Size(d.s) = Size(N) - NodesDown
  BY <1>7 DEF LeafHalves
<1>9. N.kind = "Leaf" /\ N.number = n.number /\ N.parent = n.parent /\ Size(N) = NodesUp + 1
  BY <1>2, <1>3, <1>7 DEF Updated
<1>10. Size(d.s) = NodesDown + 1
  BY <1>8, <1>9, NodesDownIs
<1> QED
  BY <1>7, <1>8, <1>9, <1>10 DEF Halves, Divided

(* db->root after its page, or the page of another inner node, was written.    *)
LEMMA RootKept ==
  ASSUME NEW V, NEW U, NEW r, NEW lo, NEW hi, NEW ht, Tree(V, U, r, lo, hi, ht),
         r = root.number, root = V[r],
         NEW P \in U, V[P].kind \in Interiors,
         NEW n2 \in Node, n2.kind = V[P].kind, n2.number = P,
         n2.parent = V[P].parent,
         NEW V2, V2[P] = n2, P # r => V2[r] = V[r],
         NEW rt, rt = RootAfter(n2)
  PROVE  /\ rt = V2[rt.number] /\ rt.number = r /\ rt.kind = "Root" /\ rt \in Node
         /\ rt.parent = root.parent
<1>1. r \in U /\ V[r] \in Node
  BY TreePage DEF Tree, RootOK
<1>2. (V[P].kind \in {"Root", "RootLeaf"}) = (P = r)
  BY TreePage
<1>3. V[r].kind = "Root"
  BY InnerRoot
<1>4. CASE P = r
  BY <1>2, <1>3, <1>4 DEF RootAfter
<1>5. CASE P # r
  BY <1>1, <1>2, <1>3, <1>5 DEF RootAfter
<1> QED
  BY <1>4, <1>5

(* A root with children keeps the parent it names.                            *)
LEMMA OrphanKept ==
  ASSUME OrphanOK, TypeOK, Lasting(page, page'), root'.kind = "Root",
         root'.parent = root.parent
  PROVE  OrphanOK'
<1>1. root.parent \in Numbers
  BY NodeFields DEF TypeOK
<1>2. page'[root.parent] # Blank
  BY <1>1 DEF OrphanOK, Lasting
<1> QED
  BY <1>2 DEF OrphanOK

-------------------------------------------------------------------------------
(* An insert that splits a leaf *)

(* The tree's pages have numbers, and not that of the metadata page.           *)
LEMMA TreeNumbers ==
  ASSUME NEW V, NEW U, NEW r, NEW lo, NEW hi, NEW ht, Tree(V, U, r, lo, hi, ht)
  PROVE  U \subseteq Numbers /\ 0 \notin U
<1>1. U \subseteq PageNums
  BY DEF Tree
<1> QED
  BY <1>1, BTreeAssumption, BTreeNodeAssumption DEF Numbers

(* The numbers that a step allocates are of no page of the tree.               *)
Fresh(U) == \A n \in used' \ used : n \notin U

(* The leaf that a key needs to be split.                                      *)
LEMMA SplitLeafIs ==
  ASSUME NEW U, NEW lo, NEW hi, NEW ht, Standing(U, lo, hi, ht), NEW k \in Keys, NeedsSplit(k),
         NEW x, LeafOf(U, x, lo, hi, k)
  PROVE  /\ Leaf(k) = page[x] /\ page[x] \in Node /\ page[x].number = x /\ Shape(page[x])
         /\ page[x].kind \in Leaves /\ Size(page[x]) = NodesUp
         /\ lo[x] \in Nat /\ hi[x] \in Nat /\ Ordered(page[x], lo[x], hi[x])
         /\ lo[x] <= k /\ k < hi[x] /\ Misses(page[x], k) /\ Answers(lo, hi, x, k)
         /\ x \in U /\ x \in PageNums /\ x \in Numbers
         /\ page[x].parent \in Numbers
         /\ (page[x].kind = "RootLeaf") = (x = root.number)
         /\ x # root.number => /\ page[x].parent \in U
                               /\ page[page[x].parent].kind \in Interiors
                               /\ page[x].parent # x
<1>1. /\ Leaf(k) = page[x] /\ page[x] \in Node /\ page[x].number = x /\ Shape(page[x])
      /\ page[x].kind \in Leaves /\ Ordered(page[x], lo[x], hi[x])
      /\ (page[x].kind = "RootLeaf") = (x = root.number)
      /\ lo[x] \in Nat /\ hi[x] \in Nat /\ lo[x] <= k /\ k < hi[x]
      /\ Present(k) = ~Misses(page[x], k) /\ x \in U
  BY StandingLeaf
<1>2. Tree(page, U, root.number, lo, hi, ht)
  BY DEF Standing
<1>3. ~Present(k) /\ Size(page[x]) = NodesUp
  BY <1>1 DEF NeedsSplit, Full
<1>4. x \in PageNums /\ x \in Numbers /\ page[x].parent \in Numbers
  BY <1>1, StandingPage, NodeFields
<1>5. x # root.number => /\ page[x].parent \in U
                         /\ page[page[x].parent].kind \in Interiors
                         /\ page[x].parent # x
  BY <1>1, <1>2, TreeParent
<1> QED
  BY <1>1, <1>3, <1>4, <1>5 DEF Answers

(* The split of a root that is a leaf keeps the invariant.                    *)
LEMMA SplittingRootLeafKeeps ==
  ASSUME NEW U, InvOf(U), Fresh(U), NEW k \in Keys, NEW v \in Values, InsertSplittingRootLeaf(k, v)
  PROVE  Goes(U)
<1>1. PICK m, s : m = FindFree(used) /\ s = FindFree(Marked(used))
  OBVIOUS
<1>2. PICK d : d = DivideLeaf(Leaf(k), k, v, m)
  OBVIOUS
<1>3. PICK p, q : p = Given(d.p, s) /\ q = Given(d.s, s)
  OBVIOUS
<1>4. PICK top : top = CreateRoot(s, Head(q.keys), p.number, m)
  OBVIOUS
<1>5. /\ NeedsSplit(k) /\ Leaf(k).parent = 0
      /\ root' = top /\ meta' = s /\ page' = Written(page, <<p, q, top, MetaPage(s)>>)
      /\ used' = Marked(Marked(used)) /\ proc' = After(Leaf(k), {m, s})
      /\ kv' = With(kv, k, v) /\ buffer' = buffer /\ call' = call
  BY <1>1, <1>2, <1>3, <1>4 DEF InsertSplittingRootLeaf, Given, Map!Put, With
<1>6. Called
  BY <1>5 DEF NeedsSplit
<1>7. PICK lo, hi, ht : Standing(U, lo, hi, ht)
  BY <1>6, CalledStanding
<1>8. TypeOK /\ Pages(page) /\ call = Idle /\ buffer = "live"
  BY <1>6, CalledStanding DEF Called
<1>9. PICK x : LeafOf(U, x, lo, hi, k)
  BY <1>7, LeafIs
<1>10. /\ Leaf(k) = page[x] /\ page[x] \in Node /\ page[x].number = x /\ Shape(page[x])
       /\ page[x].kind \in Leaves /\ Size(page[x]) = NodesUp
       /\ lo[x] \in Nat /\ hi[x] \in Nat /\ Ordered(page[x], lo[x], hi[x])
       /\ lo[x] <= k /\ k < hi[x] /\ Misses(page[x], k) /\ Answers(lo, hi, x, k)
       /\ x \in U /\ x \in PageNums /\ x \in Numbers
       /\ x # root.number => page[x].parent \in U
  BY <1>5, <1>7, <1>9, SplitLeafIs
<1>11. /\ Tree(page, U, root.number, lo, hi, ht) /\ Holds(page, U, lo, hi, kv)
       /\ Filled(page, U, {}) /\ root = page[root.number]
  BY <1>7 DEF Standing
<1>12. x = root.number
  <2>1. 0 \notin U
    BY <1>11, TreeNumbers
  <2> QED
    BY <1>5, <1>10, <2>1
<1>13. /\ m \in Numbers /\ s \in Numbers /\ used' \subseteq PageNums
       /\ 0 \notin {m, s} =>
            /\ m \in PageNums /\ m \notin U /\ s \in PageNums /\ s \notin U /\ s # m
            /\ used' = used \union {s, m}
  <2>1. /\ m \in Numbers /\ Marked(used) \subseteq PageNums
        /\ m # 0 => m \in PageNums /\ m \notin used /\ Marked(used) = used \union {m}
    BY <1>1, <1>8, FreeIs DEF TypeOK
  <2>2. PICK W : W = Marked(used)
    OBVIOUS
  <2>3. /\ s \in Numbers /\ Marked(W) \subseteq PageNums
        /\ s # 0 => s \in PageNums /\ s \notin W /\ Marked(W) = W \union {s}
    BY <1>1, <2>1, <2>2, FreeIs
  <2>4. 0 \notin {m, s} =>
          /\ used' = used \union {s, m} /\ m \notin used /\ s \notin used /\ s # m
    BY <1>5, <2>1, <2>2, <2>3
  <2>5. 0 \notin {m, s} => m \notin U /\ s \notin U
    BY <2>4 DEF Fresh
  <2> QED
    BY <1>5, <2>1, <2>2, <2>3, <2>4, <2>5
<1>14. /\ Divided(d.p, d.s, x, m, "Leaf", NodesDown, NodesDown + 1)
       /\ Head(d.s.keys) \in Keys
  BY <1>2, <1>10, <1>13, DivideLeafTyped
<1>15. /\ p \in Node /\ Shape(p) /\ p.number = x /\ p.kind = "Leaf" /\ Size(p) = NodesDown
       /\ q \in Node /\ Shape(q) /\ q.number = m /\ q.kind = "Leaf" /\ Size(q) = NodesDown + 1
       /\ q.keys = d.s.keys
  BY <1>3, <1>13, <1>14, GivenIs DEF Divided
<1>16. /\ top \in Node /\ Shape(top) /\ top.kind = "Root" /\ top.number = s /\ top.parent = 0
       /\ Size(top) = 1 /\ top = CreateRoot(s, Head(d.s.keys), x, m)
  BY <1>4, <1>10, <1>13, <1>14, <1>15, CreateRootTyped
<1>17. PICK e : e = MetaPage(s)
  OBVIOUS
<1>18. e \in Node /\ ShapeOK(e) /\ e.number = 0 /\ Len(e.links) = 1
  BY <1>13, <1>17, MetaIs
<1>19. page' \in [Numbers -> Node] /\ (0 \notin {m, s} => Pages(page'))
  <2> DEFINE w == <<p, q, top, e>>
  <2>1. Len(w) = 4 /\ w[1] = p /\ w[2] = q /\ w[3] = top /\ w[4] = e
    OBVIOUS
  <2> HIDE DEF w
  <2>2. 1 .. Len(w) = {1, 2, 3, 4} /\ Len(w) \in Nat
    BY <2>1
  <2>3. page' = Written(page, w)
    BY <1>5, <1>17 DEF w
  <2>4. \A i \in 1 .. Len(w) : w[i] \in Node /\ ShapeOK(w[i])
    BY <1>15, <1>16, <1>18, <2>1, <2>2 DEF ShapeOK
  <2>5. page' \in [Numbers -> Node]
    BY <1>8, <2>2, <2>3, <2>4, WrittenKeeps DEF TypeOK
  <2>6. 0 \notin {m, s} => \A i \in 1 .. Len(w) : w[i].number = 0 => Len(w[i].links) = 1
    <3>1. x # 0
      BY <1>10, BTreeAssumption, BTreeNodeAssumption
    <3> QED
      BY <1>15, <1>16, <1>18, <2>1, <2>2, <3>1
  <2> QED
    BY <1>8, <2>2, <2>3, <2>4, <2>5, <2>6, WrittenPages
<1>20. proc' = (IF 0 \in {m, s} THEN "indexFull" ELSE "running")
  BY <1>5 DEF After, Orphaned
<1>21. TypeOK'
  <2>1. kv' \in [Keys -> Values \union {Absent}]
    BY <1>5, <1>8 DEF TypeOK, With
  <2> QED
    BY <1>5, <1>8, <1>13, <1>16, <1>19, <1>20, <2>1 DEF TypeOK
<1>22. CASE 0 \in {m, s}
  BY <1>20, <1>21, <1>22, StoppedNext
<1>23. CASE 0 \notin {m, s}
  <2>10. PICK U2 : U2 = U \union {s, m}
    OBVIOUS
  <2>1. /\ m \in PageNums /\ m \notin U /\ s \in PageNums /\ s \notin U /\ s # m
        /\ (U = used => U2 = used') /\ m # 0 /\ s # 0 /\ x # m /\ x # s
    BY <1>10, <1>13, <1>23, <2>10
  <2>2. \A n \in Numbers :
          page'[n] = IF n = 0 THEN e ELSE IF n = s THEN top
                     ELSE IF n = m THEN q ELSE IF n = x THEN p ELSE page[n]
    BY <1>5, <1>8, <1>15, <1>16, <1>17, <1>18, Written4 DEF TypeOK
  <2>3. 0 \notin U /\ \A n \in U : n \in Numbers
    BY <1>11, TreeNumbers
  <2>4. /\ page'[x] = p /\ page'[m] = q /\ page'[s] = top
        /\ \A n \in U \ {x} : page'[n] = page[n]
    BY <1>10, <1>13, <2>1, <2>2, <2>3
  <2>5. SplitsRootLeaf(page, page', U, x, k, v, s, m, d)
    BY <1>2, <1>3, <1>10, <1>16, <2>4 DEF SplitsRootLeaf
  <2>6. TreeOf(page', U \union {s, m}, s, With(kv, k, v))
    <3>1. kv \in [Keys -> Values \union {Absent}]
      BY <1>8 DEF TypeOK
    <3>2. Tree(page, U, x, lo, hi, ht)
      BY <1>11, <1>12
    <3> QED
      BY <1>10, <1>11, <2>1, <2>5, <3>1, <3>2, RootLeafSplitTree
  <2>7. TreeOf(page', U2, root'.number, kv')
    BY <1>5, <1>16, <2>10, <2>6
  <2>8. Filled(page', U2, {})
    <3>1. \A n \in (U2 \ {}) \ {x, m, s} :
            n \in U \ {} /\ page'[n].kind = page[n].kind /\ Size(page'[n]) = Size(page[n])
      BY <2>10, <2>4
    <3>2. \A n \in (U2 \ {}) \intersect {x, m, s} : Size(page'[n]) \in Least(page'[n]) .. NodesUp
      BY <1>15, <1>16, <2>4, NodesDownIs DEF Least
    <3> QED
      BY <1>11, <3>1, <3>2, FilledAfter
  <2>9. OrphanOK'
    <3>1. page'[0] # Blank
      BY <1>19, <1>23, NotBlank DEF Numbers
    <3> QED
      BY <1>5, <1>16, <3>1 DEF OrphanOK
  <2> QED
    BY <1>5, <1>8, <1>16, <1>19, <1>21, <1>23, <2>1, <2>4, <2>7, <2>8, <2>9, IdleNext
<1> QED
  BY <1>22, <1>23

(* Below the root, or in an orphan, a full leaf has a page that takes the new one. *)
LEMMA SplitParentIs ==
  ASSUME NEW U, InvOf(U), NEW lo, NEW hi, NEW ht, Standing(U, lo, hi, ht), NEW k \in Keys, NeedsSplit(k),
         NEW x, LeafOf(U, x, lo, hi, k), NEW P, P = page[x].parent, P # 0
  PROVE  /\ P \in Numbers /\ P # x /\ page[P] \in Node /\ Shape(page[P])
         /\ page[P].kind \in Interiors
         /\ Orphaned(page[x]) = (x = root.number)
         /\ x # root.number => P \in U /\ page[P].number = P
<1>1. /\ page[x] \in Node /\ page[x].number = x /\ P \in Numbers
      /\ (page[x].kind = "RootLeaf") = (x = root.number)
      /\ x # root.number => P \in U /\ page[P].kind \in Interiors /\ P # x
  BY SplitLeafIs
<1>2. Called
  BY DEF NeedsSplit
<1>3. Pages(page) /\ TypeOK
  BY <1>2, CalledStanding
<1>4. root = page[root.number] /\ OrphanOK
  BY DEF Standing
<1>5. x = root.number => P # x /\ page[P].kind \in Interiors
  <2> SUFFICES ASSUME x = root.number PROVE P # x /\ page[P].kind \in Interiors
    OBVIOUS
  <2>1. root.kind = "RootLeaf" /\ root.parent = P
    BY <1>1, <1>4
  <2> QED
    BY <1>4, <2>1 DEF OrphanOK
<1>6. page[P] \in Node /\ Shape(page[P])
  BY <1>1, <1>3, <1>5 DEF Pages, ShapeOK
<1>7. Orphaned(page[x]) = (x = root.number)
  BY <1>1 DEF Orphaned, IsRoot
<1>8. x # root.number => page[P].number = P
  BY <1>1, StandingPage
<1> QED
  BY <1>1, <1>5, <1>6, <1>7, <1>8

(* The split of a leaf below a node with room keeps the invariant.            *)
LEMMA SplittingLeafKeeps ==
  ASSUME NEW U, InvOf(U), Fresh(U), NEW k \in Keys, NEW v \in Values, InsertSplittingLeaf(k, v)
  PROVE  Goes(U)
<1>1. PICK m : m = FindFree(used)
  OBVIOUS
<1>2. PICK d, P : d = DivideLeaf(Leaf(k), k, v, m) /\ P = Leaf(k).parent
  OBVIOUS
<1>3. PICK n2 : n2 = InsertIntoIntermediate(page[P], Head(d.s.keys), m)
  OBVIOUS
<1>4. /\ NeedsSplit(k) /\ P # 0 /\ ~Full(page[P])
      /\ page' = Written(page, <<d.p, d.s, n2>>) /\ root' = RootAfter(n2)
      /\ buffer' = (IF IsRoot(Leaf(k)) THEN "freed" ELSE buffer)
      /\ used' = Marked(used) /\ proc' = After(Leaf(k), {m})
      /\ kv' = With(kv, k, v) /\ meta' = meta /\ call' = call
  BY <1>1, <1>2, <1>3 DEF InsertSplittingLeaf, Map!Put, With
<1>5. Called
  BY <1>4 DEF NeedsSplit
<1>6. PICK lo, hi, ht : Standing(U, lo, hi, ht)
  BY <1>5, CalledStanding
<1>7. TypeOK /\ Pages(page) /\ call = Idle /\ buffer = "live"
  BY <1>5, CalledStanding DEF Called
<1>8. PICK x : LeafOf(U, x, lo, hi, k)
  BY <1>6, LeafIs
<1>9. /\ Leaf(k) = page[x] /\ page[x] \in Node /\ page[x].number = x /\ Shape(page[x])
      /\ page[x].kind \in Leaves /\ Size(page[x]) = NodesUp
      /\ lo[x] \in Nat /\ hi[x] \in Nat /\ Ordered(page[x], lo[x], hi[x])
      /\ lo[x] <= k /\ k < hi[x] /\ Misses(page[x], k) /\ Answers(lo, hi, x, k)
      /\ x \in U /\ x \in PageNums /\ x \in Numbers /\ P = page[x].parent
  BY <1>2, <1>4, <1>6, <1>8, SplitLeafIs
<1>10. /\ P \in Numbers /\ P # x /\ page[P] \in Node /\ Shape(page[P])
       /\ page[P].kind \in Interiors
       /\ Orphaned(page[x]) = (x = root.number)
       /\ x # root.number => P \in U /\ page[P].number = P
  BY <1>4, <1>6, <1>8, <1>9, SplitParentIs
<1>11. /\ Tree(page, U, root.number, lo, hi, ht) /\ Holds(page, U, lo, hi, kv)
       /\ Filled(page, U, {}) /\ root = page[root.number] /\ OrphanOK
  BY <1>6 DEF Standing
<1>12. /\ m \in Numbers /\ used' \subseteq PageNums
       /\ m # 0 => m \in PageNums /\ m \notin U /\ used' = used \union {m}
  <2>1. /\ m \in Numbers /\ used' \subseteq PageNums
        /\ m # 0 => m \in PageNums /\ m \notin used /\ used' = used \union {m}
    BY <1>1, <1>4, <1>7, FreeIs DEF TypeOK
  <2> QED
    BY <2>1 DEF Fresh
<1>13. /\ Divided(d.p, d.s, x, m, "Leaf", NodesDown, NodesDown + 1)
       /\ Head(d.s.keys) \in Keys
  BY <1>2, <1>9, <1>12, DivideLeafTyped
<1>14. /\ d.p \in Node /\ Shape(d.p) /\ d.p.kind = "Leaf" /\ d.p.number = x /\ Size(d.p) = NodesDown
       /\ d.s \in Node /\ Shape(d.s) /\ d.s.kind = "Leaf" /\ d.s.number = m
       /\ Size(d.s) = NodesDown + 1
  BY <1>13 DEF Divided
<1>15. /\ n2 \in Node /\ Shape(n2) /\ n2.kind = page[P].kind /\ n2.number = page[P].number
       /\ n2.parent = page[P].parent /\ Size(n2) = Size(page[P]) + 1
  BY <1>3, <1>10, <1>12, <1>13, InsertTyped
<1>16. /\ page' \in [Numbers -> Node]
       /\ m # 0 /\ x # root.number => Pages(page') /\ Lasting(page, page')
  <2> DEFINE w == <<d.p, d.s, n2>>
  <2>1. Len(w) = 3 /\ w[1] = d.p /\ w[2] = d.s /\ w[3] = n2
    OBVIOUS
  <2> HIDE DEF w
  <2>2. 1 .. Len(w) = {1, 2, 3} /\ Len(w) \in Nat
    BY <2>1
  <2>3. page' = Written(page, w)
    BY <1>4 DEF w
  <2>4. \A i \in 1 .. Len(w) : w[i] \in Node /\ ShapeOK(w[i])
    BY <1>14, <1>15, <2>1, <2>2 DEF ShapeOK
  <2>5. page' \in [Numbers -> Node]
    BY <1>7, <2>2, <2>3, <2>4, WrittenKeeps DEF TypeOK
  <2>6. m # 0 /\ x # root.number => \A i \in 1 .. Len(w) : w[i].number = 0 => Len(w[i].links) = 1
    BY <1>4, <1>9, <1>10, <1>14, <1>15, <2>1, <2>2, BTreeAssumption, BTreeNodeAssumption
  <2> QED
    BY <1>7, <2>2, <2>3, <2>4, <2>5, <2>6, WrittenPages
<1>17. proc' = (IF m = 0 THEN "indexFull" ELSE IF x = root.number THEN "stalePage" ELSE "running")
  BY <1>4, <1>9, <1>10 DEF After
<1>18. TypeOK'
  <2>1. kv' \in [Keys -> Values \union {Absent}]
    BY <1>4, <1>7 DEF TypeOK, With
  <2>2. root' \in Node
    BY <1>4, <1>7, <1>15 DEF TypeOK, RootAfter
  <2>3. buffer' \in {"live", "freed"}
    BY <1>4, <1>7
  <2> QED
    BY <1>4, <1>7, <1>12, <1>16, <1>17, <2>1, <2>2, <2>3 DEF TypeOK
<1>19. CASE m = 0 \/ x = root.number
  BY <1>17, <1>18, <1>19, StoppedNext
<1>20. CASE m # 0 /\ x # root.number
  <2>14. PICK U2 : U2 = U \union {m}
    OBVIOUS
  <2>1. /\ m \in PageNums /\ m \notin U /\ (U = used => U2 = used')
        /\ P \in U /\ n2.number = P /\ x # m /\ P # m
    BY <1>9, <1>10, <1>12, <1>15, <1>20, <2>14
  <2>2. \A n \in Numbers :
          page'[n] = IF n = P THEN n2 ELSE IF n = m THEN d.s ELSE IF n = x THEN d.p ELSE page[n]
    BY <1>4, <1>7, <1>14, <2>1, Written3 DEF TypeOK
  <2>3. \A n \in U : n \in Numbers
    BY <1>11, TreeNumbers
  <2>4. /\ page'[x] = d.p /\ page'[m] = d.s /\ page'[P] = n2
        /\ \A n \in U \ {x, P} : page'[n] = page[n]
    BY <1>9, <1>10, <1>12, <2>1, <2>2, <2>3
  <2>5. SplitsLeaf(page, page', U, x, k, v, P, m, d)
    BY <1>2, <1>3, <1>9, <2>4 DEF SplitsLeaf
  <2>6. PICK r : r = root.number
    OBVIOUS
  <2>7. Tree(page, U, r, lo, hi, ht) /\ root = page[r] /\ r \in U /\ x # r
    BY <1>11, <1>20, <2>6 DEF Tree, RootOK
  <2>8. TreeOf(page', U \union {m}, r, With(kv, k, v))
    <3>1. kv \in [Keys -> Values \union {Absent}]
      BY <1>7 DEF TypeOK
    <3> QED
      BY <1>9, <1>11, <2>1, <2>5, <2>7, <3>1, LeafSplitTree
  <2>9. /\ root' = page'[root'.number] /\ root'.number = r /\ root'.kind = "Root"
        /\ root'.parent = root.parent
    BY <1>4, <1>10, <1>15, <2>1, <2>4, <2>6, <2>7, RootKept
  <2>10. TreeOf(page', U2, root'.number, kv')
    BY <1>4, <2>14, <2>8, <2>9
  <2>11. Filled(page', U2, {})
    <3>1. \A n \in (U2 \ {}) \ {x, m, P} :
            n \in U \ {} /\ page'[n].kind = page[n].kind /\ Size(page'[n]) = Size(page[n])
      BY <2>14, <2>4
    <3>2. Size(page[P]) \in Least(page[P]) .. NodesUp /\ Size(page[P]) # NodesUp
      BY <1>4, <1>6, <2>1, StandingPage DEF Full
    <3>3. Size(n2) \in Least(n2) .. NodesUp
      BY <1>15, <3>2, NodesDownIs DEF Least
    <3>4. \A n \in (U2 \ {}) \intersect {x, m, P} : Size(page'[n]) \in Least(page'[n]) .. NodesUp
      BY <1>14, <2>4, <3>3, NodesDownIs DEF Least
    <3> QED
      BY <1>11, <3>1, <3>4, FilledAfter
  <2>12. OrphanOK'
    BY <1>7, <1>11, <1>16, <1>20, <2>9, OrphanKept
  <2>13. buffer' = "live"
    BY <1>4, <1>7, <1>9, <1>20 DEF IsRoot
  <2> QED
    BY <1>4, <1>7, <1>16, <1>18, <1>20, <2>1, <2>9, <2>10, <2>11, <2>12, <2>13, IdleNext
<1> QED
  BY <1>19, <1>20

(* The pages that a pending split leaves behind.                               *)
LEMMA SplitView ==
  ASSUME NEW n, NEW k, NEW link, call' = [op |-> "split", node |-> n, key |-> k, link |-> link],
         NEW P, P = n.number
  PROVE  /\ call' # Idle /\ Exempt' = {P}
         /\ \A x \in Numbers :
              View'[x] = IF x = P THEN InsertIntoIntermediate(n, k, link) ELSE page'[x]
<1>1. call' # Idle
  BY DEF Idle
<1>2. PendingNode' = InsertIntoIntermediate(n, k, link) /\ call'.node.number = P
  BY DEF PendingNode
<1> QED
  BY <1>1, <1>2 DEF View, Exempt

(* The split of a leaf below a full node keeps the invariant: the key and     *)
(* the link on their way up are pending.                                      *)
LEMMA SplittingDeepKeeps ==
  ASSUME NEW U, InvOf(U), Fresh(U), NEW k \in Keys, NEW v \in Values, InsertSplittingDeep(k, v)
  PROVE  Goes(U)
<1>1. PICK m : m = FindFree(used)
  OBVIOUS
<1>2. PICK d, P : d = DivideLeaf(Leaf(k), k, v, m) /\ P = Leaf(k).parent
  OBVIOUS
<1>3. PICK sep : sep = Head(d.s.keys)
  OBVIOUS
<1>4. /\ NeedsSplit(k) /\ P # 0 /\ Full(page[P])
      /\ page' = Written(page, <<d.p, d.s>>)
      /\ call' = [op |-> "split", node |-> page[P], key |-> sep, link |-> m]
      /\ used' = Marked(used) /\ proc' = After(Leaf(k), {m})
      /\ kv' = With(kv, k, v) /\ meta' = meta /\ root' = root /\ buffer' = buffer
  BY <1>1, <1>2, <1>3 DEF InsertSplittingDeep, Map!Put, With
<1>5. Called
  BY <1>4 DEF NeedsSplit
<1>6. PICK lo, hi, ht : Standing(U, lo, hi, ht)
  BY <1>5, CalledStanding
<1>7. TypeOK /\ Pages(page) /\ buffer = "live"
  BY <1>5, CalledStanding DEF Called
<1>8. PICK x : LeafOf(U, x, lo, hi, k)
  BY <1>6, LeafIs
<1>9. /\ Leaf(k) = page[x] /\ page[x] \in Node /\ page[x].number = x /\ Shape(page[x])
      /\ page[x].kind \in Leaves /\ Size(page[x]) = NodesUp
      /\ lo[x] \in Nat /\ hi[x] \in Nat /\ Ordered(page[x], lo[x], hi[x])
      /\ lo[x] <= k /\ k < hi[x] /\ Misses(page[x], k) /\ Answers(lo, hi, x, k)
      /\ x \in U /\ x \in PageNums /\ x \in Numbers /\ P = page[x].parent
  BY <1>2, <1>4, <1>6, <1>8, SplitLeafIs
<1>10. /\ P \in Numbers /\ P # x /\ page[P] \in Node /\ Shape(page[P])
       /\ page[P].kind \in Interiors
       /\ Orphaned(page[x]) = (x = root.number)
       /\ x # root.number => P \in U /\ page[P].number = P
  BY <1>4, <1>6, <1>8, <1>9, SplitParentIs
<1>11. /\ Tree(page, U, root.number, lo, hi, ht) /\ Holds(page, U, lo, hi, kv)
       /\ Filled(page, U, {}) /\ root = page[root.number] /\ OrphanOK
  BY <1>6 DEF Standing
<1>12. /\ m \in Numbers /\ used' \subseteq PageNums
       /\ m # 0 => m \in PageNums /\ m \notin U /\ used' = used \union {m}
  <2>1. /\ m \in Numbers /\ used' \subseteq PageNums
        /\ m # 0 => m \in PageNums /\ m \notin used /\ used' = used \union {m}
    BY <1>1, <1>4, <1>7, FreeIs DEF TypeOK
  <2> QED
    BY <2>1 DEF Fresh
<1>13. /\ Divided(d.p, d.s, x, m, "Leaf", NodesDown, NodesDown + 1)
       /\ sep \in Keys
  BY <1>2, <1>3, <1>9, <1>12, DivideLeafTyped
<1>14. /\ d.p \in Node /\ Shape(d.p) /\ d.p.kind = "Leaf" /\ d.p.number = x /\ Size(d.p) = NodesDown
       /\ d.s \in Node /\ Shape(d.s) /\ d.s.kind = "Leaf" /\ d.s.number = m
       /\ Size(d.s) = NodesDown + 1
  BY <1>13 DEF Divided
<1>16. /\ page' \in [Numbers -> Node]
       /\ m # 0 /\ x # root.number => Pages(page') /\ Lasting(page, page')
  <2> DEFINE w == <<d.p, d.s>>
  <2>1. Len(w) = 2 /\ w[1] = d.p /\ w[2] = d.s
    OBVIOUS
  <2> HIDE DEF w
  <2>2. 1 .. Len(w) = {1, 2} /\ Len(w) \in Nat
    BY <2>1
  <2>3. page' = Written(page, w)
    BY <1>4 DEF w
  <2>4. \A i \in 1 .. Len(w) : w[i] \in Node /\ ShapeOK(w[i])
    BY <1>14, <2>1, <2>2 DEF ShapeOK
  <2>5. page' \in [Numbers -> Node]
    BY <1>7, <2>2, <2>3, <2>4, WrittenKeeps DEF TypeOK
  <2>6. m # 0 /\ x # root.number => \A i \in 1 .. Len(w) : w[i].number = 0 => Len(w[i].links) = 1
    BY <1>9, <1>14, <2>1, <2>2, BTreeAssumption, BTreeNodeAssumption
  <2> QED
    BY <1>7, <2>2, <2>3, <2>4, <2>5, <2>6, WrittenPages
<1>17. proc' = (IF m = 0 THEN "indexFull" ELSE IF x = root.number THEN "stalePage" ELSE "running")
  BY <1>4, <1>9, <1>10 DEF After
<1>18. TypeOK'
  <2>1. kv' \in [Keys -> Values \union {Absent}]
    BY <1>4, <1>7 DEF TypeOK, With
  <2>2. call' \in [op : {"none", "split", "underflow"}, node : Node,
                   key : Keys \union {0}, link : Numbers]
    BY <1>4, <1>10, <1>12, <1>13
  <2> QED
    BY <1>4, <1>7, <1>12, <1>16, <1>17, <2>1, <2>2 DEF TypeOK
<1>19. CASE m = 0 \/ x = root.number
  BY <1>17, <1>18, <1>19, StoppedNext
<1>20. CASE m # 0 /\ x # root.number
  <2>17. PICK U2 : U2 = U \union {m}
    OBVIOUS
  <2>1. /\ m \in PageNums /\ m \notin U /\ (U = used => U2 = used')
        /\ P \in U /\ page[P].number = P /\ x # m /\ P # m
    BY <1>9, <1>10, <1>12, <1>20, <2>17
  <2>2. \A n \in Numbers :
          page'[n] = IF n = m THEN d.s ELSE IF n = x THEN d.p ELSE page[n]
    BY <1>4, <1>7, <1>14, Written2 DEF TypeOK
  <2>3. \A n \in U : n \in Numbers
    BY <1>11, TreeNumbers
  <2>4. /\ call' # Idle /\ Exempt' = {P}
        /\ \A n \in Numbers :
             View'[n] = IF n = P THEN InsertIntoIntermediate(page[P], sep, m) ELSE page'[n]
    BY <1>4, <2>1, SplitView
  <2>5. PICK V2 : V2 = View'
    OBVIOUS
  <2>6. /\ V2[x] = d.p /\ V2[m] = d.s /\ V2[P] = InsertIntoIntermediate(page[P], sep, m)
        /\ \A n \in U \ {x, P} : V2[n] = page[n]
    BY <1>9, <1>10, <1>12, <2>1, <2>2, <2>3, <2>4, <2>5
  <2>7. SplitsLeaf(page, V2, U, x, k, v, P, m, d)
    BY <1>2, <1>3, <1>9, <2>6 DEF SplitsLeaf
  <2>8. PICK r : r = root.number
    OBVIOUS
  <2>9. Tree(page, U, r, lo, hi, ht) /\ root = page[r] /\ r \in U /\ x # r
    BY <1>11, <1>20, <2>8 DEF Tree, RootOK
  <2>10. TreeOf(V2, U \union {m}, r, With(kv, k, v))
    <3>1. kv \in [Keys -> Values \union {Absent}]
      BY <1>7 DEF TypeOK
    <3> QED
      BY <1>9, <1>11, <2>1, <2>7, <2>9, <3>1, LeafSplitTree
  <2>11. TreeOf(View', U2, root'.number, kv')
    BY <1>4, <2>17, <2>5, <2>8, <2>10
  <2>12. root' = page'[root'.number] /\ root'.kind = "Root"
    <3>1. root.kind = "Root"
      BY <1>10, <2>1, <2>9, InnerRoot
    <3>2. page'[r] = page[r]
      BY <2>1, <2>2, <2>3, <2>9
    <3> QED
      BY <1>4, <2>8, <2>9, <3>1, <3>2
  <2>13. Filled(View', U2, Exempt')
    <3>1. \A n \in (U2 \ {P}) \ {x, m} :
            n \in U \ {} /\ V2[n].kind = page[n].kind /\ Size(V2[n]) = Size(page[n])
      BY <2>17, <2>6
    <3>2. \A n \in (U2 \ {P}) \intersect {x, m} : Size(V2[n]) \in Least(V2[n]) .. NodesUp
      BY <1>14, <2>6, NodesDownIs DEF Least
    <3>3. Filled(V2, U2, {P})
      BY <1>11, <3>1, <3>2, FilledAfter
    <3> QED
      BY <2>4, <2>5, <3>3
  <2>14. CallOK(U2)'
    <3>1. page'[P] = page[P]
      BY <1>10, <2>1, <2>2
    <3>2. /\ call'.op = "split" /\ call'.node = page[P] /\ call'.key = sep
      BY <1>4
    <3>3. Size(page[P]) = NodesUp
      BY <1>4 DEF Full
    <3> QED
      BY <1>10, <1>13, <2>1, <2>17, <3>1, <3>2, <3>3 DEF CallOK
  <2>15. OrphanOK'
    BY <1>4, <1>7, <1>11, <1>16, <1>20, <2>12, OrphanKept
  <2>16. PagesOK'
    BY <1>16, <1>20 DEF Pages, PagesOK, ShapeOK
  <2> QED
    BY <1>4, <1>7, <1>18, <2>1, <2>11, <2>12, <2>13, <2>14, <2>15, <2>16, GrownNext
<1> QED
  BY <1>19, <1>20

-------------------------------------------------------------------------------
(* A pending split *)

(* A part of an inner page.                                                   *)
LEMMA NodePartTyped ==
  ASSUME NEW n \in Node, Shape(n), n.kind \in Interiors,
         NEW l \in 1 .. Size(n) + 1, NEW r \in l - 1 .. Size(n),
         NEW n2, n2 = NodePart(n, l, r)
  PROVE  /\ n2 \in Node /\ Shape(n2) /\ n2.kind = n.kind /\ n2.number = n.number
         /\ n2.parent = n.parent /\ Size(n2) = r - l + 1
<1>1. /\ n.keys \in Seq(Keys) /\ n.links \in Seq(Numbers)
      /\ Len(n.links) = Size(n) + 1 /\ n.vals = <<>> /\ Size(n) \in Nat
  BY NodeFields DEF Shape
<1>2. PICK ks, ls, r2 : r2 = r + 1 /\ ks = SubSeq(n.keys, l, r) /\ ls = SubSeq(n.links, l, r2)
  OBVIOUS
<1>3. l \in 1 .. Len(n.keys) + 1 /\ r \in l - 1 .. Len(n.keys) /\ r \in Int /\ l \in Int
  BY <1>1 DEF Size
<1>4. ks \in Seq(Keys) /\ Len(ks) = r - l + 1
  BY <1>1, <1>2, <1>3, SubSeqIs DEF Part
<1>5. ls \in Seq(Numbers) /\ Len(ls) = r2 - l + 1
  <2>1. l \in 1 .. Len(n.links) + 1 /\ r2 \in l - 1 .. Len(n.links)
    BY <1>1, <1>2, <1>3
  <2> QED
    BY <1>1, <1>2, <2>1, SubSeqIs DEF Part
<1>6. n2 = [n EXCEPT !.keys = ks, !.links = ls]
  BY <1>2 DEF NodePart
<1>7. /\ n2 \in Node /\ n2.kind = n.kind /\ n2.number = n.number /\ n2.parent = n.parent
      /\ n2.keys = ks /\ n2.vals = n.vals /\ n2.links = ls
  BY <1>4, <1>5, <1>6 DEF Node
<1>8. Size(n2) = r - l + 1
  BY <1>4, <1>7 DEF Size
<1>9. Len(ls) = Size(n2) + 1
  BY <1>2, <1>3, <1>5, <1>8
<1> QED
  BY <1>1, <1>7, <1>8, <1>9, Kinds DEF Shape

(* The inner pages that divide_intermediate makes.                            *)
LEMMA DivideIntermediateTyped ==
  ASSUME NEW n \in Node, Shape(n), n.kind \in Interiors, Size(n) = NodesUp,
         NEW k \in Keys, NEW link \in Numbers, NEW m \in Numbers,
         NEW d, d = DivideIntermediate(n, k, link, m)
  PROVE  /\ Divided(d.p, d.s, n.number, m, "Intermediate", NodesDown, NodesDown)
         /\ d.p.parent = n.parent /\ d.s.parent = n.parent /\ d.key \in Keys
<1>1. PICK n0 : n0 = [n EXCEPT !.kind = "Intermediate"]
  OBVIOUS
<1>2. /\ n0 \in Node /\ n0.kind = "Intermediate" /\ n0.number = n.number
      /\ n0.parent = n.parent
      /\ n0.keys = n.keys /\ n0.vals = n.vals /\ n0.links = n.links
  BY <1>1, Kinds DEF Node
<1>3. Size(n0) = NodesUp /\ n0.kind \in Interiors
  BY <1>2, Kinds DEF Size
<1>4. Shape(n0)
  BY <1>2, <1>3, Kinds DEF Shape
<1>5. PICK N : N = InsertIntoIntermediate(n0, k, link)
  OBVIOUS
<1>6. /\ N \in Node /\ Shape(N) /\ N.kind = "Intermediate" /\ N.number = n.number
      /\ N.parent = n.parent /\ Size(N) = NodesUp + 1
  BY <1>2, <1>3, <1>4, <1>5, InsertTyped
<1>7. PICK h, h2, e : h = NodesDown /\ h2 = NodesDown + 2 /\ e = NodesUp + 1
  OBVIOUS
<1>8. /\ (Size(n) + 1) \div 2 = h /\ h + 2 = h2 /\ Size(N) = e
      /\ h \in Nat /\ h2 \in Nat /\ e \in Nat /\ h >= 2 /\ e = 2 * h + 1 /\ h2 = h + 2
  BY <1>6, <1>7, NodesDownIs
<1>9. PICK L, R : L = NodePart(N, 1, h) /\ R = NodePart(N, h2, e)
  OBVIOUS
<1>10. /\ d.p = L /\ d.s = [R EXCEPT !.number = m] /\ d.key = N.keys[h + 1]
  BY <1>1, <1>5, <1>8, <1>9 DEF DivideIntermediate
<1>11. N.kind \in Interiors
  BY <1>6, Kinds
<1>12. /\ L \in Node /\ Shape(L) /\ L.kind = "Intermediate" /\ L.number = n.number
       /\ L.parent = n.parent /\ Size(L) = NodesDown
  <2>1. 1 \in 1 .. Size(N) + 1 /\ h \in 1 - 1 .. Size(N) /\ h - 1 + 1 = h
    BY <1>8
  <2> QED
    BY <1>6, <1>7, <1>9, <1>11, <2>1, NodePartTyped
<1>13. /\ R \in Node /\ Shape(R) /\ R.kind = "Intermediate" /\ R.parent = n.parent
       /\ Size(R) = NodesDown
  <2>1. h2 \in 1 .. Size(N) + 1 /\ e \in h2 - 1 .. Size(N)
    BY <1>8
  <2>2. Size(R) = e - h2 + 1 /\ R \in Node /\ Shape(R) /\ R.kind = "Intermediate" /\ R.parent = n.parent
    BY <1>6, <1>9, <1>11, <2>1, NodePartTyped
  <2> QED
    BY <1>7, <1>8, <2>2
<1>14. /\ d.s \in Node /\ Shape(d.s) /\ d.s.kind = "Intermediate" /\ d.s.number = m
       /\ d.s.parent = n.parent /\ Size(d.s) = NodesDown
  <2>1. PICK q : q = [R EXCEPT !.number = m]
    OBVIOUS
  <2>2. /\ q \in Node /\ q.kind = "Intermediate" /\ q.number = m /\ q.parent = n.parent
        /\ q.keys = R.keys /\ q.vals = R.vals /\ q.links = R.links
    BY <1>13, <2>1 DEF Node
  <2> QED
    BY <1>10, <1>13, <2>1, <2>2, Kinds DEF Size, Shape
<1>15. d.key \in Keys
  <2>1. PICK j : j = h + 1
    OBVIOUS
  <2>2. j \in 1 .. Size(N)
    BY <1>8, <2>1
  <2> QED
    BY <1>6, <1>10, <2>1, <2>2, NodeFields
<1> QED
  BY <1>10, <1>12, <1>14, <1>15 DEF Divided

(* The children of the new page were those of the divided one.                *)
LEMMA UpperLinks ==
  ASSUME NEW n \in Node, Shape(n), n.kind \in Interiors, Size(n) = NodesUp,
         NEW k \in Keys, NEW link \in Numbers, NEW m \in Numbers,
         NEW d, d = DivideIntermediate(n, k, link, m)
  PROVE  \A i \in 1 .. NodesDown + 1 :
           d.s.links[i] = InsertIntoIntermediate(n, k, link).links[NodesDown + 1 + i]
<1>1. PICK n0 : n0 = [n EXCEPT !.kind = "Intermediate"]
  OBVIOUS
<1>2. /\ n0 \in Node /\ n0.kind = "Intermediate" /\ n0.keys = n.keys
      /\ n0.vals = n.vals /\ n0.links = n.links
  BY <1>1, Kinds DEF Node
<1>3. PICK M, N : M = InsertIntoIntermediate(n, k, link) /\ N = InsertIntoIntermediate(n0, k, link)
  OBVIOUS
<1>4. n0.kind \in Interiors /\ Shape(n0) /\ Size(n0) = NodesUp
  BY <1>2, Kinds DEF Shape, Size
<1>5. /\ M \in Node /\ Shape(M) /\ M.kind = n.kind /\ Size(M) = NodesUp + 1
      /\ N \in Node /\ Shape(N) /\ N.kind = "Intermediate" /\ Size(N) = NodesUp + 1
  BY <1>2, <1>3, <1>4, InsertTyped
<1>6. N.links = M.links
  <2>1. PICK f, ks, ls : /\ f = FindPos(n, k) /\ ks = InsertAt(n.keys, f + 1, k)
                         /\ ls = InsertAt(n.links, f + 1 + 1, link)
    OBVIOUS
  <2>2. FindPos(n0, k) = f
    BY <1>2, <2>1 DEF FindPos, Size
  <2>3. M = [n EXCEPT !.keys = ks, !.links = ls] /\ N = [n0 EXCEPT !.keys = ks, !.links = ls]
    BY <1>2, <1>3, <2>1, <2>2 DEF InsertIntoIntermediate
  <2> QED
    BY <1>2, <2>3 DEF Node
<1>7. PICK h, h2, e : h = NodesDown /\ h2 = NodesDown + 2 /\ e = NodesUp + 1
  OBVIOUS
<1>8. /\ (Size(n) + 1) \div 2 = h /\ h + 2 = h2 /\ Size(N) = e
      /\ h \in Nat /\ h2 \in Nat /\ e \in Nat /\ h >= 2 /\ e = 2 * h + 1
  BY <1>5, <1>7, NodesDownIs
<1>9. PICK R, ls, e2 : R = NodePart(N, h2, e) /\ e2 = e + 1 /\ ls = SubSeq(N.links, h2, e2)
  OBVIOUS
<1>10. d.s = [R EXCEPT !.number = m]
  BY <1>1, <1>3, <1>8, <1>9 DEF DivideIntermediate
<1>11. N.links \in Seq(Numbers) /\ Len(N.links) = e + 1
  BY <1>4, <1>5, <1>8, Kinds, NodeFields DEF Shape
<1>12. ls \in Seq(Numbers) /\ Part(ls, N.links, h2, e2)
  <2>1. h2 \in 1 .. Len(N.links) + 1 /\ e2 \in h2 - 1 .. Len(N.links)
    BY <1>8, <1>9, <1>11
  <2> QED
    BY <1>9, <1>11, <2>1, SubSeqIs
<1>13. PICK ks : ks = SubSeq(N.keys, h2, e)
  OBVIOUS
<1>14. R = [N EXCEPT !.keys = ks, !.links = ls]
  BY <1>9, <1>13 DEF NodePart
<1>15. d.s.kind = "Intermediate" /\ d.s.links = ls /\ d.s.keys = ks
  BY <1>5, <1>10, <1>14 DEF Node
<1>16. ASSUME NEW i \in 1 .. NodesDown + 1 PROVE d.s.links[i] = M.links[NodesDown + 1 + i]
  <2>1. PICK j : j = h2 + i - 1
    OBVIOUS
  <2>2. i \in 1 .. e2 - h2 + 1 /\ j = NodesDown + 1 + i
    BY <1>7, <1>8, <1>9, <2>1
  <2>3. ls[i] = N.links[j]
    BY <1>12, <2>1, <2>2 DEF Part
  <2> QED
    BY <1>6, <1>15, <2>2, <2>3
<1> QED
  BY <1>3, <1>16

(* The upper half of a divided inner page links to pages that the page with the *)
(* new key links to.                                                           *)
LEMMA UpperUnder ==
  ASSUME NEW n \in Node, Shape(n), n.kind \in Interiors, Size(n) = NodesUp,
         NEW k \in Keys, NEW link \in Numbers, NEW m \in Numbers,
         NEW d, d = DivideIntermediate(n, k, link, m)
  PROVE  Under(d.s) \subseteq Under(InsertIntoIntermediate(n, k, link))
<1>1. PICK M, b : M = InsertIntoIntermediate(n, k, link) /\ b = d.s
  OBVIOUS
<1>2. M.kind \in Interiors /\ Size(M) = NodesUp + 1
  BY <1>1, InsertTyped
<1>3. Size(b) = NodesDown
  BY <1>1, DivideIntermediateTyped DEF Divided
<1>4. ASSUME NEW i \in 1 .. NodesDown + 1 PROVE b.links[i] = M.links[NodesDown + 1 + i]
  BY <1>1, UpperLinks
<1>5. ASSUME NEW c \in Under(b) PROVE c \in Under(M)
  <2>1. PICK i \in 1 .. NodesDown + 1 : c = b.links[i]
    BY <1>3, <1>5 DEF Under
  <2>2. PICK j : j = NodesDown + 1 + i
    OBVIOUS
  <2>3. j \in 1 .. Size(M) + 1
    BY <1>2, <2>2, NodesDownIs
  <2>4. c = M.links[j]
    BY <1>4, <2>1, <2>2
  <2> QED
    BY <1>2, <2>3, <2>4 DEF Under
<1> QED
  BY <1>1, <1>5

(* Between two steps of a climb the tree is what View shows.                   *)
Climbing(U, lo, hi, ht) ==
  /\ Tree(View, U, root.number, lo, hi, ht) /\ Holds(View, U, lo, hi, kv)
  /\ Filled(View, U, {call.node.number})
  /\ root = page[root.number] /\ CallOK(U) /\ OrphanOK

(* In the middle of a call the pages, with what is pending put in, are a      *)
(* tree.                                                                      *)
LEMMA PendingClimbing ==
  ASSUME NEW U, InvOf(U), proc = "running", call # Idle
  PROVE  /\ \E lo, hi, ht : Climbing(U, lo, hi, ht)
         /\ TypeOK /\ Pages(page) /\ buffer = "live"
         /\ \A n \in Numbers :
              View[n] = IF n = call.node.number THEN PendingNode ELSE page[n]
<1>1. TypeOK /\ PagesOK
  BY DEF InvOf
<1>2. GrownOf(U)
  BY DEF InvOf, EmptyOf
<1>3. PICK lo, hi, ht \in [Numbers -> Nat] : GrownWith(U, lo, hi, ht)
  BY <1>2 DEF GrownOf
<1>4. Climbing(U, lo, hi, ht) /\ buffer = "live"
  BY <1>3 DEF GrownWith, Climbing, Exempt
<1>5. Pages(page)
  BY <1>1 DEF TypeOK, PagesOK, Pages, ShapeOK
<1> QED
  BY <1>1, <1>4, <1>5 DEF View

(* The node of a pending split, and the two it is divided into.                *)
LEMMA SplittingIs ==
  ASSUME NEW U, InvOf(U), Pending("split"), NEW x, x = call.node.number,
         NEW m \in Numbers, NEW d, d = SplitOf(m)
  PROVE  /\ call # Idle /\ x \in U /\ x \in Numbers /\ x # 0
         /\ page[x] = call.node /\ call.node \in Node /\ Shape(call.node)
         /\ call.node.kind \in Interiors /\ Size(call.node) = NodesUp
         /\ call.key \in Keys /\ call.link \in Numbers
         /\ View[x] = InsertIntoIntermediate(call.node, call.key, call.link)
         /\ View[x].kind = call.node.kind /\ View[x].parent = call.node.parent
         /\ Size(View[x]) = NodesUp + 1
         /\ d = DivideIntermediate(call.node, call.key, call.link, m)
         /\ Divided(d.p, d.s, x, m, "Intermediate", NodesDown, NodesDown)
         /\ d.p.parent = call.node.parent /\ d.s.parent = call.node.parent /\ d.key \in Keys
<1>1. proc = "running" /\ call.op = "split" /\ call # Idle
  BY DEF Pending, Idle
<1>2. /\ TypeOK /\ Pages(page)
      /\ \A n \in Numbers :
           View[n] = IF n = call.node.number THEN PendingNode ELSE page[n]
  BY <1>1, PendingClimbing
<1>3. CallOK(U)
  BY <1>1, PendingClimbing DEF Climbing
<1>4. /\ x \in U /\ page[x] = call.node /\ call.node.kind \in Interiors
      /\ Size(call.node) = NodesUp /\ call.key \in Keys
  BY <1>1, <1>3 DEF CallOK
<1>5. call.node \in Node /\ call.link \in Numbers /\ x \in Numbers /\ x # 0
  <2>1. U \subseteq Numbers /\ 0 \notin U
    BY <1>1, PendingClimbing, TreeNumbers DEF Climbing
  <2> QED
    BY <1>2, <1>4, <2>1 DEF TypeOK
<1>6. Shape(call.node)
  BY <1>2, <1>4, <1>5 DEF Pages, ShapeOK
<1>7. d = DivideIntermediate(call.node, call.key, call.link, m)
  BY DEF SplitOf
<1>8. /\ Divided(d.p, d.s, x, m, "Intermediate", NodesDown, NodesDown)
      /\ d.p.parent = call.node.parent /\ d.s.parent = call.node.parent /\ d.key \in Keys
  BY <1>4, <1>5, <1>6, <1>7, DivideIntermediateTyped
<1>9. View[x] = InsertIntoIntermediate(call.node, call.key, call.link)
  BY <1>1, <1>2, <1>5 DEF PendingNode
<1>10. /\ View[x].kind = call.node.kind /\ View[x].parent = call.node.parent
       /\ Size(View[x]) = NodesUp + 1
  BY <1>4, <1>5, <1>6, <1>9, InsertTyped
<1> QED
  BY <1>1, <1>4, <1>5, <1>6, <1>7, <1>8, <1>9, <1>10

(* The pages that move to the new page are pages of the tree.                  *)
LEMMA SplittingUnder ==
  ASSUME NEW U, InvOf(U), Pending("split"), NEW m \in Numbers, NEW d, d = SplitOf(m)
  PROVE  \A c \in Under(d.s) : c \in U /\ page[c].number = c
<1>1. PICK x : x = call.node.number
  OBVIOUS
<1>2. proc = "running" /\ call # Idle
  BY DEF Pending, Idle
<1>3. PICK lo, hi, ht : Climbing(U, lo, hi, ht)
  BY <1>2, PendingClimbing
<1>4. \A n \in Numbers : n # x => View[n] = page[n]
  BY <1>1, <1>2, PendingClimbing
<1>5. Tree(View, U, root.number, lo, hi, ht)
  BY <1>3 DEF Climbing
<1>6. PICK n, V, r : n = call.node /\ V = View /\ r = root.number
  OBVIOUS
<1>7. /\ n \in Node /\ Shape(n) /\ n.kind \in Interiors /\ Size(n) = NodesUp
      /\ call.key \in Keys /\ call.link \in Numbers
      /\ d = DivideIntermediate(n, call.key, call.link, m)
      /\ V[x] = InsertIntoIntermediate(n, call.key, call.link)
      /\ x \in U /\ page[x] = n /\ n.number = x
  BY <1>1, <1>6, SplittingIs
<1>8. Under(d.s) \subseteq Under(V[x])
  BY <1>7, UpperUnder
<1>9. ASSUME NEW c \in Under(d.s) PROVE c \in U /\ page[c].number = c
  <2>1. c \in U
    BY <1>5, <1>6, <1>7, <1>8, UnderIs
  <2>2. V[c].number = c /\ c \in Numbers
    BY <1>5, <1>6, <2>1, TreePage
  <2> QED
    BY <1>4, <1>6, <1>7, <2>1, <2>2
<1> QED
  BY <1>9

(* The split of an inner root keeps the invariant.                            *)
LEMMA SplitRootKeeps ==
  ASSUME NEW U, InvOf(U), Fresh(U), SplitRoot
  PROVE  Goes(U)
<1>1. PICK m, s, x : m = FindFree(used) /\ s = FindFree(Marked(used)) /\ x = call.node.number
  OBVIOUS
<1>2. PICK d : d = SplitOf(m)
  OBVIOUS
<1>3. PICK p, q : p = Given(d.p, s) /\ q = Given(d.s, s)
  OBVIOUS
<1>4. PICK top, wp : top = CreateRoot(s, d.key, p.number, m) /\ wp = WriteParents(page, q)
  OBVIOUS
<1>5. /\ Pending("split") /\ call.node.parent = 0
      /\ root' = top /\ page' = Written(wp, <<p, q, top, MetaPage(meta)>>)
      /\ used' = Marked(Marked(used)) /\ proc' = After(call.node, {m, s})
      /\ call' = Idle /\ kv' = kv /\ buffer' = buffer /\ meta' = meta
  BY <1>1, <1>2, <1>3, <1>4 DEF SplitRoot, Given
<1>6. proc = "running" /\ call # Idle
  BY <1>5 DEF Pending, Idle
<1>7. PICK lo, hi, ht : Climbing(U, lo, hi, ht)
  BY <1>6, PendingClimbing
<1>8. /\ TypeOK /\ Pages(page) /\ buffer = "live"
      /\ \A n \in Numbers : View[n] = IF n = x THEN PendingNode ELSE page[n]
  BY <1>1, <1>6, PendingClimbing
<1>9. /\ m \in Numbers /\ s \in Numbers /\ used' \subseteq PageNums
      /\ 0 \notin {m, s} =>
           /\ m \in PageNums /\ m \notin U /\ s \in PageNums /\ s \notin U /\ s # m
           /\ used' = used \union {s, m}
  <2>1. /\ m \in Numbers /\ Marked(used) \subseteq PageNums
        /\ m # 0 => m \in PageNums /\ m \notin used /\ Marked(used) = used \union {m}
    BY <1>1, <1>8, FreeIs DEF TypeOK
  <2>2. PICK W : W = Marked(used)
    OBVIOUS
  <2>3. /\ s \in Numbers /\ Marked(W) \subseteq PageNums
        /\ s # 0 => s \in PageNums /\ s \notin W /\ Marked(W) = W \union {s}
    BY <1>1, <2>1, <2>2, FreeIs
  <2>4. 0 \notin {m, s} =>
          /\ used' = used \union {s, m} /\ m \notin used /\ s \notin used /\ s # m
    BY <1>5, <2>1, <2>2, <2>3
  <2>5. 0 \notin {m, s} => m \notin U /\ s \notin U
    BY <2>4 DEF Fresh
  <2> QED
    BY <1>5, <2>1, <2>2, <2>3, <2>4, <2>5
<1>10. /\ x \in U /\ x \in Numbers /\ x # 0
       /\ page[x] = call.node /\ call.node \in Node /\ Shape(call.node)
       /\ call.node.kind \in Interiors /\ Size(call.node) = NodesUp
       /\ call.key \in Keys /\ call.link \in Numbers
       /\ View[x] = InsertIntoIntermediate(call.node, call.key, call.link)
       /\ View[x].kind = call.node.kind /\ View[x].parent = call.node.parent
       /\ Size(View[x]) = NodesUp + 1
       /\ d = DivideIntermediate(call.node, call.key, call.link, m)
       /\ Divided(d.p, d.s, x, m, "Intermediate", NodesDown, NodesDown)
       /\ d.key \in Keys
  BY <1>1, <1>2, <1>5, <1>9, SplittingIs
<1>11. /\ Tree(View, U, root.number, lo, hi, ht) /\ Holds(View, U, lo, hi, kv)
       /\ Filled(View, U, {x}) /\ U \subseteq Numbers /\ 0 \notin U
  BY <1>1, <1>7, TreeNumbers DEF Climbing
<1>12. x = root.number
  <2>1. PICK r : r = root.number
    OBVIOUS
  <2>2. 0 \notin U
    BY <1>11
  <2>3. x # r => View[x].parent \in U
    BY <1>10, <1>11, <2>1, TreeParent
  <2> QED
    BY <1>5, <1>10, <2>1, <2>2, <2>3
<1>13. call.node.kind = "Root"
  <2>1. (View[x].kind \in {"Root", "RootLeaf"}) = (x = root.number)
    BY <1>10, <1>11, TreePage
  <2> QED
    BY <1>10, <1>12, <2>1, Kinds
<1>14. /\ p \in Node /\ Shape(p) /\ p.number = x /\ p.kind = "Intermediate" /\ Size(p) = NodesDown
       /\ q \in Node /\ Shape(q) /\ q.number = m /\ q.kind = "Intermediate"
       /\ Size(q) = NodesDown /\ q.kind \in Interiors
  <2>1. PICK a, b : a = d.p /\ b = d.s
    OBVIOUS
  <2>2. /\ a \in Node /\ Shape(a) /\ a.kind = "Intermediate" /\ a.number = x /\ Size(a) = NodesDown
        /\ b \in Node /\ Shape(b) /\ b.kind = "Intermediate" /\ b.number = m /\ Size(b) = NodesDown
        /\ p = Given(a, s) /\ q = Given(b, s)
    BY <1>3, <1>10, <2>1 DEF Divided
  <2> QED
    BY <1>9, <2>2, GivenIs, Kinds
<1>15. /\ top \in Node /\ Shape(top) /\ top.kind = "Root" /\ top.number = s /\ top.parent = 0
       /\ Size(top) = 1 /\ top = CreateRoot(s, d.key, x, m)
  BY <1>4, <1>9, <1>10, <1>14, CreateRootTyped
<1>16. PICK e : e = MetaPage(meta)
  OBVIOUS
<1>17. e \in Node /\ ShapeOK(e) /\ e.number = 0 /\ Len(e.links) = 1
  BY <1>8, <1>16, MetaIs DEF TypeOK
<1>18. /\ wp \in [Numbers -> Node] /\ Pages(wp)
       /\ \A n \in Numbers : wp[n] = IF n \in Under(d.s) THEN [page[n] EXCEPT !.parent = m]
                                     ELSE page[n]
  <2>1. page \in [Numbers -> Node]
    BY <1>8 DEF TypeOK
  <2>2. /\ wp \in [Numbers -> Node]
        /\ \A n \in Numbers :
             wp[n] = IF n \in Under(q) THEN [page[n] EXCEPT !.parent = q.number] ELSE page[n]
    BY <1>4, <1>14, <2>1, WriteParentsIs
  <2>3. Under(q) = Under(d.s)
    BY <1>3, UnderGiven
  <2>5. \A c \in Under(q) : page[c].number = c
    BY <1>2, <1>5, <1>9, <2>3, SplittingUnder
  <2>4. Pages(wp)
    BY <1>4, <1>8, <1>14, <2>5, WriteParentsPages
  <2> QED
    BY <1>14, <2>2, <2>3, <2>4
<1>19. page' \in [Numbers -> Node] /\ (0 \notin {m, s} => Pages(page'))
  <2> DEFINE w == <<p, q, top, e>>
  <2>1. Len(w) = 4 /\ w[1] = p /\ w[2] = q /\ w[3] = top /\ w[4] = e
    OBVIOUS
  <2> HIDE DEF w
  <2>2. 1 .. Len(w) = {1, 2, 3, 4} /\ Len(w) \in Nat
    BY <2>1
  <2>3. page' = Written(wp, w)
    BY <1>5, <1>16 DEF w
  <2>4. \A i \in 1 .. Len(w) : w[i] \in Node /\ ShapeOK(w[i])
    BY <1>14, <1>15, <1>17, <2>1, <2>2 DEF ShapeOK
  <2>5. page' \in [Numbers -> Node]
    BY <1>18, <2>2, <2>3, <2>4, WrittenKeeps
  <2>6. 0 \notin {m, s} => \A i \in 1 .. Len(w) : w[i].number = 0 => Len(w[i].links) = 1
    BY <1>10, <1>14, <1>15, <1>17, <2>1, <2>2
  <2> QED
    BY <1>18, <2>2, <2>3, <2>4, <2>5, <2>6, WrittenPages
<1>20. proc' = (IF 0 \in {m, s} THEN "indexFull" ELSE "running")
  BY <1>5 DEF After, Orphaned
<1>21. TypeOK'
  <2>1. Idle \in [op : {"none", "split", "underflow"}, node : Node,
                  key : Keys \union {0}, link : Numbers]
    BY BlankIs DEF Idle, Numbers
  <2> QED
    BY <1>5, <1>8, <1>9, <1>15, <1>19, <1>20, <2>1 DEF TypeOK
<1>22. CASE 0 \in {m, s}
  BY <1>20, <1>21, <1>22, StoppedNext
<1>23. CASE 0 \notin {m, s}
  <2>11. PICK U2 : U2 = U \union {s, m}
    OBVIOUS
  <2>1. /\ m \in PageNums /\ m \notin U /\ s \in PageNums /\ s \notin U /\ s # m
        /\ (U = used => U2 = used') /\ m # 0 /\ s # 0 /\ x # m /\ x # s
    BY <1>9, <1>10, <1>23, <2>11
  <2>2. \A n \in Numbers :
          page'[n] = IF n = 0 THEN e ELSE IF n = s THEN top
                     ELSE IF n = m THEN q ELSE IF n = x THEN p ELSE wp[n]
    BY <1>5, <1>14, <1>15, <1>16, <1>17, <1>18, Written4
  <2>3. 0 \notin U /\ \A n \in U : n \in Numbers
    BY <1>11
  <2>4. PICK V, V2 : V = View /\ V2 = page'
    OBVIOUS
  <2>5. /\ V2[x] = p /\ V2[m] = q /\ V2[s] = top
        /\ \A n \in U \ {x} :
             V2[n] = IF n \in Under(d.s) THEN [V[n] EXCEPT !.parent = m] ELSE V[n]
    BY <1>8, <1>9, <1>10, <1>18, <2>1, <2>2, <2>3, <2>4
  <2>6. SplitsRootNode(V, V2, U, x, call.node, call.key, call.link, s, m, d)
    BY <1>3, <1>10, <1>15, <2>5 DEF SplitsRootNode
  <2>7. TreeOf(V2, U \union {s, m}, s, kv)
    <3>1. Tree(V, U, x, lo, hi, ht) /\ Holds(V, U, lo, hi, kv)
      BY <1>11, <1>12, <2>4
    <3>2. Taking(call.node, "Root", call.key, call.link, V[x])
      BY <1>10, <1>13, <2>4 DEF Taking
    <3> QED
      BY <2>1, <2>6, <3>1, <3>2, RootNodeSplitTree
  <2>8. TreeOf(page', U2, root'.number, kv')
    BY <1>5, <1>15, <2>11, <2>4, <2>7
  <2>9. Filled(page', U2, {})
    <3>1. \A n \in (U2 \ {}) \ {x, m, s} :
            n \in U \ {x} /\ V2[n].kind = V[n].kind /\ Size(V2[n]) = Size(V[n])
      <4> SUFFICES ASSUME NEW n \in U \ {x}
                   PROVE  V2[n].kind = V[n].kind /\ Size(V2[n]) = Size(V[n])
        BY <2>11
      <4>1. V[n] \in Node
        BY <1>11, <2>4, TreePage
      <4> QED
        BY <2>5, <4>1 DEF Node, Size
    <3>2. \A n \in (U2 \ {}) \intersect {x, m, s} : Size(V2[n]) \in Least(V2[n]) .. NodesUp
      BY <1>14, <1>15, <2>5, NodesDownIs DEF Least
    <3>3. Filled(V, U, {x})
      BY <1>11, <2>4
    <3>4. Filled(V2, U2, {})
      BY <3>1, <3>2, <3>3, FilledAfter
    <3> QED
      BY <2>4, <3>4
  <2>10. OrphanOK'
    <3>1. page'[0] # Blank
      BY <1>19, <1>23, NotBlank DEF Numbers
    <3> QED
      BY <1>5, <1>15, <3>1 DEF OrphanOK
  <2> QED
    BY <1>5, <1>8, <1>15, <1>19, <1>21, <1>23, <2>1, <2>4, <2>5, <2>8, <2>9, <2>10, IdleNext
<1> QED
  BY <1>22, <1>23

(* The children that move are pages of the tree below the divided node.        *)
LEMMA HalfUnder ==
  ASSUME NEW V, NEW U, NEW r, NEW lo, NEW hi, NEW ht, Tree(V, U, r, lo, hi, ht),
         NEW x \in U, x # r, NEW n, NEW k, NEW link, Taking(n, "Intermediate", k, link, V[x]),
         NEW m \in Numbers, NEW d, d = DivideIntermediate(n, k, link, m),
         NEW P, P = V[x].parent
  PROVE  /\ \A c \in Under(d.s) : c \in U /\ c # r /\ c # x
         /\ P \notin Under(d.s)
<1>1. /\ n \in Node /\ n.kind = "Intermediate" /\ Size(n) = NodesUp
      /\ V[x] = InsertIntoIntermediate(n, k, link)
      /\ V[x].kind = "Intermediate" /\ Size(V[x]) = NodesUp + 1
  BY DEF Taking
<1>2. /\ V[x] \in Node /\ Shape(V[x]) /\ Ordered(V[x], lo[x], hi[x])
      /\ lo[x] \in Nat /\ hi[x] \in Nat /\ ht[x] \in Nat
  BY TreePage
<1>3. PICK N : N = V[x]
  OBVIOUS
<1>4. InnerHalves(N, d.p, d.s, NodesDown, lo[x], d.key, hi[x])
  BY <1>1, <1>2, <1>3, DivideIntermediateHalves
<1>5. Parted(N, d.p, d.s, NodesDown, lo[x], d.key, hi[x]) /\ N.kind \in Interiors
  BY <1>1, <1>3, <1>4, Kinds DEF Parted
<1>6. \A c \in Under(d.s) : c \in Under(V[x])
  BY <1>3, <1>5, PartedUnder
<1>7. \A c \in Under(d.s) : c \in U /\ c # r /\ V[c].parent = x
  BY <1>6, UnderIs
<1>8. P \in U /\ ht[P] = ht[x] + 1 /\ ht[P] \in Nat
  <2>1. P \in U /\ ht[P] = ht[x] + 1
    BY TreeParent
  <2> QED
    BY <2>1, TreePage
<1>9. ASSUME NEW c \in Under(d.s) PROVE ht[x] = ht[c] + 1 /\ ht[c] \in Nat
  <2>1. c \in U /\ c # r /\ x = V[c].parent
    BY <1>7
  <2>2. ht[x] = ht[c] + 1
    BY <2>1, TreeParent
  <2> QED
    BY <2>1, <2>2, TreePage
<1>10. \A c \in Under(d.s) : c # x /\ c # P
  BY <1>2, <1>8, <1>9
<1> QED
  BY <1>7, <1>10

(* The split of an inner page below the root keeps the invariant.             *)
LEMMA SplitNodeKeeps ==
  ASSUME NEW U, InvOf(U), Fresh(U), SplitNode
  PROVE  Goes(U)
<1>1. PICK m, x, P : m = FindFree(used) /\ x = call.node.number /\ P = call.node.parent
  OBVIOUS
<1>2. PICK d : d = SplitOf(m)
  OBVIOUS
<1>3. PICK wp, pg : wp = WriteParents(page, d.s) /\ pg = Written(wp, <<d.p, d.s>>)
  OBVIOUS
<1>4. PICK parent, taken : /\ parent = pg[d.p.parent]
                           /\ taken = IF parent.kind \in Interiors
                                      THEN InsertIntoIntermediate(parent, d.key, m)
                                      ELSE parent
  OBVIOUS
<1>5. /\ Pending("split") /\ P # 0
      /\ used' = Marked(used) /\ proc' = After(call.node, {m})
      /\ kv' = kv /\ buffer' = buffer /\ meta' = meta
      /\ IF ~Full(parent)
         THEN page' = Written(pg, <<taken>>) /\ root' = RootAfter(taken) /\ call' = Idle
         ELSE /\ page' = pg /\ root' = root
              /\ call' = [op |-> "split", node |-> parent, key |-> d.key, link |-> m]
  BY <1>1, <1>2, <1>3, <1>4 DEF SplitNode, SplitWritten
<1>6. proc = "running" /\ call # Idle
  BY <1>5 DEF Pending, Idle
<1>7. PICK lo, hi, ht : Climbing(U, lo, hi, ht)
  BY <1>6, PendingClimbing
<1>8. /\ TypeOK /\ Pages(page) /\ buffer = "live"
      /\ \A n \in Numbers : View[n] = IF n = x THEN PendingNode ELSE page[n]
  BY <1>1, <1>6, PendingClimbing
<1>9. /\ m \in Numbers /\ used' \subseteq PageNums
      /\ m # 0 => m \in PageNums /\ m \notin U /\ used' = used \union {m}
  <2>1. /\ m \in Numbers /\ used' \subseteq PageNums
        /\ m # 0 => m \in PageNums /\ m \notin used /\ used' = used \union {m}
    BY <1>1, <1>5, <1>8, FreeIs DEF TypeOK
  <2> QED
    BY <2>1 DEF Fresh
<1>10. /\ x \in U /\ x \in Numbers /\ x # 0
       /\ page[x] = call.node /\ call.node \in Node /\ Shape(call.node)
       /\ call.node.kind \in Interiors /\ Size(call.node) = NodesUp
       /\ call.key \in Keys /\ call.link \in Numbers
       /\ View[x] = InsertIntoIntermediate(call.node, call.key, call.link)
       /\ View[x].kind = call.node.kind /\ View[x].parent = P
       /\ Size(View[x]) = NodesUp + 1
       /\ d = DivideIntermediate(call.node, call.key, call.link, m)
       /\ Divided(d.p, d.s, x, m, "Intermediate", NodesDown, NodesDown)
       /\ d.p.parent = P /\ d.key \in Keys
  BY <1>1, <1>2, <1>5, <1>9, SplittingIs
<1>11. /\ Tree(View, U, root.number, lo, hi, ht) /\ Holds(View, U, lo, hi, kv)
       /\ Filled(View, U, {x}) /\ root = page[root.number] /\ OrphanOK
       /\ U \subseteq Numbers /\ 0 \notin U
  BY <1>1, <1>7, TreeNumbers DEF Climbing
<1>12. PICK a, b : a = d.p /\ b = d.s
  OBVIOUS
<1>13. /\ a \in Node /\ Shape(a) /\ a.kind = "Intermediate" /\ a.number = x /\ Size(a) = NodesDown
       /\ b \in Node /\ Shape(b) /\ b.kind = "Intermediate" /\ b.number = m /\ Size(b) = NodesDown
       /\ b.kind \in Interiors
  BY <1>10, <1>12, Kinds DEF Divided
<1>14. /\ wp \in [Numbers -> Node] /\ Pages(wp) /\ Lasting(page, wp)
       /\ \A n \in Numbers : wp[n] = IF n \in Under(d.s) THEN [page[n] EXCEPT !.parent = m]
                                     ELSE page[n]
  <2>1. page \in [Numbers -> Node]
    BY <1>8 DEF TypeOK
  <2>2. wp = WriteParents(page, b)
    BY <1>3, <1>12
  <2>3. /\ wp \in [Numbers -> Node]
        /\ \A n \in Numbers :
             wp[n] = IF n \in Under(b) THEN [page[n] EXCEPT !.parent = b.number] ELSE page[n]
    BY <1>13, <2>1, <2>2, WriteParentsIs
  <2>5. \A c \in Under(b) : page[c].number = c
    BY <1>2, <1>5, <1>9, <1>12, SplittingUnder
  <2>4. Pages(wp) /\ Lasting(page, wp)
    BY <1>8, <1>13, <2>2, <2>5, WriteParentsPages
  <2> QED
    BY <1>12, <1>13, <2>3, <2>4
<1>15. /\ pg \in [Numbers -> Node] /\ (m # 0 => Pages(pg) /\ Lasting(wp, pg))
       /\ \A n \in Numbers : ShapeOK(pg[n])
       /\ \A n \in Numbers : pg[n] = IF n = m THEN b ELSE IF n = x THEN a ELSE wp[n]
  <2> DEFINE w == <<a, b>>
  <2>1. Len(w) = 2 /\ w[1] = a /\ w[2] = b
    OBVIOUS
  <2> HIDE DEF w
  <2>2. 1 .. Len(w) = {1, 2} /\ Len(w) \in Nat
    BY <2>1
  <2>3. pg = Written(wp, w)
    BY <1>3, <1>12 DEF w
  <2>4. \A i \in 1 .. Len(w) : w[i] \in Node /\ ShapeOK(w[i])
    BY <1>13, <2>1, <2>2 DEF ShapeOK
  <2>5. pg \in [Numbers -> Node]
    BY <1>14, <2>2, <2>3, <2>4, WrittenKeeps
  <2>6. m # 0 => \A i \in 1 .. Len(w) : w[i].number = 0 => Len(w[i].links) = 1
    BY <1>10, <1>13, <2>1, <2>2
  <2>7. \A n \in Numbers : pg[n] = IF n = m THEN b ELSE IF n = x THEN a ELSE wp[n]
    BY <1>3, <1>12, <1>13, <1>14, Written2
  <2>8. \A n \in Numbers : ShapeOK(pg[n])
    <3>1. ShapeOK(a) /\ ShapeOK(b) /\ \A n \in Numbers : ShapeOK(wp[n])
      BY <1>13, <1>14 DEF ShapeOK, Pages
    <3> QED
      BY <2>7, <3>1
  <2> QED
    BY <1>14, <2>2, <2>3, <2>4, <2>5, <2>6, <2>7, <2>8, WrittenPages
<1>16. P \in Numbers /\ parent = pg[P] /\ parent \in Node /\ ShapeOK(parent)
  <2>1. P \in Numbers
    BY <1>1, <1>10, NodeFields
  <2> QED
    BY <1>4, <1>10, <1>15, <2>1
<1>17. parent.kind \in Interiors =>
         /\ taken \in Node /\ Shape(taken) /\ taken.kind = parent.kind
         /\ taken.number = parent.number /\ taken.parent = parent.parent
         /\ Size(taken) = Size(parent) + 1
  BY <1>4, <1>9, <1>10, <1>16, InsertTyped DEF ShapeOK
<1>18. page' \in [Numbers -> Node]
  <2>1. CASE ~Full(parent)
    <3> DEFINE w == <<taken>>
    <3>1. Len(w) = 1 /\ w[1] = taken
      OBVIOUS
    <3> HIDE DEF w
    <3>2. 1 .. Len(w) = {1} /\ Len(w) \in Nat
      BY <3>1
    <3>3. page' = Written(pg, w)
      BY <1>5, <2>1 DEF w
    <3>4. \A i \in 1 .. Len(w) : w[i] \in Node
      BY <1>4, <1>16, <1>17, <3>1, <3>2
    <3> QED
      BY <1>15, <3>2, <3>3, <3>4, WrittenKeeps
  <2>2. CASE Full(parent)
    BY <1>5, <1>15, <2>2
  <2> QED
    BY <2>1, <2>2
<1>19. Orphaned(call.node) = (x = root.number)
  BY <1>1, <1>5 DEF Orphaned, IsRoot
<1>20. proc' = (IF m = 0 THEN "indexFull" ELSE IF x = root.number THEN "stalePage" ELSE "running")
  BY <1>5, <1>19 DEF After
<1>21. TypeOK'
  <2>1. call' \in [op : {"none", "split", "underflow"}, node : Node,
                   key : Keys \union {0}, link : Numbers]
    <3>1. Idle \in [op : {"none", "split", "underflow"}, node : Node,
                    key : Keys \union {0}, link : Numbers]
      BY BlankIs DEF Idle, Numbers
    <3> QED
      BY <1>5, <1>9, <1>10, <1>16, <3>1
  <2>2. root' \in Node
    BY <1>4, <1>5, <1>8, <1>16, <1>17 DEF TypeOK, RootAfter
  <2> QED
    BY <1>5, <1>8, <1>9, <1>18, <1>20, <2>1, <2>2 DEF TypeOK
<1>22. CASE m = 0 \/ x = root.number
  BY <1>20, <1>21, <1>22, StoppedNext
<1>23. CASE m # 0 /\ x # root.number
  <2>17. PICK U2 : U2 = U \union {m}
    OBVIOUS
  <2>1. m \in PageNums /\ m \notin U /\ (U = used => U2 = used') /\ x # m
    BY <1>9, <1>10, <1>23, <2>17
  <2>2. PICK V, r : V = View /\ r = root.number
    OBVIOUS
  <2>3. /\ Tree(V, U, r, lo, hi, ht) /\ Holds(V, U, lo, hi, kv) /\ Filled(V, U, {x})
        /\ x # r /\ P = V[x].parent /\ r \in U /\ root = page[r]
        /\ \A n \in Numbers : n # x => V[n] = page[n]
    BY <1>8, <1>10, <1>11, <1>23, <2>2 DEF Tree, RootOK
  <2>4. V[x].kind = "Intermediate"
    <3>1. (V[x].kind \in {"Root", "RootLeaf"}) = (x = r)
      BY <1>10, <2>3, TreePage
    <3> QED
      BY <1>10, <2>2, <2>3, <3>1, Kinds
  <2>5. Taking(call.node, "Intermediate", call.key, call.link, V[x])
    BY <1>10, <2>2, <2>4 DEF Taking
  <2>6. /\ \A c \in Under(d.s) : c \in U /\ c # r /\ c # x
        /\ P \notin Under(d.s)
    BY <1>9, <1>10, <2>3, <2>5, HalfUnder
  <2>7. P \in U /\ V[P].kind \in Interiors /\ P # x
    BY <1>10, <2>3, TreeParent
  <2>8. \A n \in U : n \in Numbers
    BY <1>11
  <2>9. parent = page[P] /\ parent = V[P] /\ parent.kind \in Interiors /\ parent.number = P
        /\ Shape(parent)
    <3>1. V[P].number = P /\ Shape(V[P])
      BY <2>3, <2>7, TreePage
    <3> QED
      BY <1>14, <1>15, <1>16, <2>1, <2>3, <2>6, <2>7, <3>1
  <2>10. \A n \in U \ {x} :
           pg[n] = IF n \in Under(d.s) THEN [V[n] EXCEPT !.parent = m] ELSE V[n]
    BY <1>14, <1>15, <2>1, <2>3, <2>8
  <2>11. pg[x] = a /\ pg[m] = b /\ pg[r] = root
    BY <1>9, <1>10, <1>14, <1>15, <2>1, <2>3, <2>6, <2>8
  <2>12. ASSUME NEW V2, V2[P] = taken, \A n \in Numbers \ {P} : V2[n] = pg[n]
         PROVE  /\ TreeOf(V2, U2, r, kv')
                /\ \A n \in (U2 \ {}) \ {x, m, P} :
                     n \in U \ {x} /\ V2[n].kind = V[n].kind /\ Size(V2[n]) = Size(V[n])
                /\ V2[x] = a /\ V2[m] = b
    <3>1. /\ V2[x] = a /\ V2[m] = b
          /\ \A n \in U \ {x, P} :
               V2[n] = IF n \in Under(d.s) THEN [V[n] EXCEPT !.parent = m] ELSE V[n]
      BY <1>9, <1>10, <2>1, <2>7, <2>8, <2>10, <2>11, <2>12
    <3>2. SplitsNode(V, V2, U, x, call.node, call.key, call.link, P, m, d)
      BY <1>4, <1>10, <1>12, <2>9, <2>12, <3>1 DEF SplitsNode
    <3>3. TreeOf(V2, U \union {m}, r, kv)
      BY <1>10, <2>1, <2>3, <2>5, <3>2, NodeSplitTree
    <3>4. \A n \in (U2 \ {}) \ {x, m, P} :
            n \in U \ {x} /\ V2[n].kind = V[n].kind /\ Size(V2[n]) = Size(V[n])
      <4> SUFFICES ASSUME NEW n \in U \ {x, P}
                   PROVE  V2[n].kind = V[n].kind /\ Size(V2[n]) = Size(V[n])
        BY <2>17
      <4>1. V[n] \in Node
        BY <2>3, TreePage
      <4> QED
        BY <3>1, <4>1 DEF Node, Size
    <3> QED
      BY <1>5, <2>17, <3>1, <3>3, <3>4
  <2>13. /\ taken \in Node /\ Shape(taken) /\ taken.kind = V[P].kind /\ taken.number = P
         /\ taken.parent = V[P].parent /\ Size(taken) = Size(parent) + 1
    BY <1>17, <2>9
  <2>14. Size(V[P]) \in Least(V[P]) .. NodesUp
    BY <2>3, <2>7 DEF Filled
  <2>15. CASE ~Full(parent)
    <3>1. page' = Written(pg, <<taken>>) /\ root' = RootAfter(taken) /\ call' = Idle
      BY <1>5, <2>9, <2>15
    <3>2. \A n \in Numbers : page'[n] = IF n = P THEN taken ELSE pg[n]
      BY <1>15, <2>13, <3>1, Written1
    <3>3. PICK V2 : V2 = page'
      OBVIOUS
    <3>4. V2[P] = taken /\ \A n \in Numbers \ {P} : V2[n] = pg[n]
      BY <1>16, <3>2, <3>3
    <3>5. /\ TreeOf(V2, U2, r, kv')
          /\ \A n \in (U2 \ {}) \ {x, m, P} :
               n \in U \ {x} /\ V2[n].kind = V[n].kind /\ Size(V2[n]) = Size(V[n])
          /\ V2[x] = a /\ V2[m] = b
      BY <2>12, <3>4
    <3>6. /\ root' = V2[root'.number] /\ root'.number = r /\ root'.kind = "Root"
          /\ root'.parent = root.parent
      <4>1. P # r => V2[r] = V[r]
        BY <2>3, <2>8, <2>11, <3>4
      <4>2. root = V[r]
        BY <2>3, <2>8
      <4> QED
        BY <2>2, <2>3, <2>7, <2>13, <3>1, <3>4, <4>1, <4>2, RootKept
    <3>7. Filled(V2, U2, {})
      <4>1. Size(taken) \in Least(taken) .. NodesUp
        BY <2>9, <2>13, <2>14, <2>15, NodesDownIs DEF Least, Full
      <4>2. \A n \in (U2 \ {}) \intersect {x, m, P} : Size(V2[n]) \in Least(V2[n]) .. NodesUp
        BY <1>13, <3>4, <3>5, <4>1, NodesDownIs DEF Least
      <4>3. Filled(V, U, {x})
        BY <2>3
      <4>4. \A n \in (U2 \ {}) \ {x, m, P} :
              n \in U \ {x} /\ V2[n].kind = V[n].kind /\ Size(V2[n]) = Size(V[n])
        BY <3>5
      <4> QED
        BY <4>2, <4>3, <4>4, FilledAfter
    <3>8. Pages(page') /\ Lasting(pg, page')
      <4> DEFINE w == <<taken>>
      <4>1. Len(w) = 1 /\ w[1] = taken
        OBVIOUS
      <4> HIDE DEF w
      <4>2. 1 .. Len(w) = {1} /\ Len(w) \in Nat
        BY <4>1
      <4>3. page' = Written(pg, w)
        BY <3>1 DEF w
      <4>4. /\ \A i \in 1 .. Len(w) : ShapeOK(w[i])
            /\ \A i \in 1 .. Len(w) : w[i].number = 0 => Len(w[i].links) = 1
        BY <1>5, <2>13, <4>1, <4>2 DEF ShapeOK
      <4>5. Pages(pg)
        BY <1>15, <1>23
      <4> QED
        BY <4>2, <4>3, <4>4, <4>5, WrittenPages
    <3>9. OrphanOK'
      <4>1. Lasting(page, page')
        BY <1>14, <1>15, <1>23, <3>8 DEF Lasting
      <4> QED
        BY <1>8, <1>11, <3>6, <4>1, OrphanKept
    <3> QED
      BY <1>5, <1>8, <1>21, <2>1, <3>1, <3>3, <3>5, <3>6, <3>7, <3>8, <3>9, IdleNext
  <2>16. CASE Full(parent)
    <3>1. /\ page' = pg /\ root' = root
          /\ call' = [op |-> "split", node |-> parent, key |-> d.key, link |-> m]
      BY <1>5, <2>16
    <3>2. /\ call' # Idle /\ Exempt' = {P}
          /\ \A n \in Numbers : View'[n] = IF n = P THEN taken ELSE page'[n]
      BY <1>4, <2>9, <3>1, SplitView
    <3>3. PICK V2 : V2 = View'
      OBVIOUS
    <3>4. V2[P] = taken /\ \A n \in Numbers \ {P} : V2[n] = pg[n]
      BY <1>16, <3>1, <3>2, <3>3
    <3>5. /\ TreeOf(V2, U2, r, kv')
          /\ \A n \in (U2 \ {}) \ {x, m, P} :
               n \in U \ {x} /\ V2[n].kind = V[n].kind /\ Size(V2[n]) = Size(V[n])
          /\ V2[x] = a /\ V2[m] = b
      BY <2>12, <3>4
    <3>6. TreeOf(View', U2, root'.number, kv')
      BY <2>2, <3>1, <3>3, <3>5
    <3>7. root' = page'[root'.number] /\ root'.kind = "Root"
      <4>1. V[r].kind = "Root"
        BY <2>3, <2>7, InnerRoot
      <4>2. V[r] = page[r]
        BY <2>3, <2>8
      <4> QED
        BY <2>2, <2>3, <2>11, <3>1, <4>1, <4>2
    <3>8. Filled(View', U2, Exempt')
      <4>1. \A n \in (U2 \ {P}) \ {x, m} :
              n \in U \ {x} /\ V2[n].kind = V[n].kind /\ Size(V2[n]) = Size(V[n])
        BY <3>5
      <4>2. \A n \in (U2 \ {P}) \intersect {x, m} : Size(V2[n]) \in Least(V2[n]) .. NodesUp
        BY <1>13, <3>5, NodesDownIs DEF Least
      <4>3. Filled(V, U, {x})
        BY <2>3
      <4>4. Filled(V2, U2, {P})
        BY <4>1, <4>2, <4>3 DEF Filled, Least
      <4> QED
        BY <3>2, <3>3, <4>4
    <3>9. CallOK(U2)'
      <4>1. page'[P] = parent
        BY <1>16, <3>1
      <4>2. Size(parent) = NodesUp
        BY <2>16 DEF Full
      <4>3. P \in U2
        BY <2>7, <2>17
      <4> QED
        BY <1>10, <2>9, <3>1, <4>1, <4>2, <4>3 DEF CallOK
    <3>10. OrphanOK'
      <4>1. Lasting(page, page')
        BY <1>14, <1>15, <1>23, <3>1 DEF Lasting
      <4> QED
        BY <1>8, <1>11, <3>1, <3>7, <4>1, OrphanKept
    <3>11. PagesOK'
      BY <1>15, <1>23, <3>1 DEF Pages, PagesOK, ShapeOK
    <3> QED
      BY <1>5, <1>8, <1>21, <2>1, <3>6, <3>7, <3>8, <3>9, <3>10, <3>11, GrownNext
  <2> QED
    BY <2>15, <2>16
<1> QED
  BY <1>22, <1>23

-------------------------------------------------------------------------------
(* A page that underflows and its sibling *)

(* The sibling that is chosen is a neighbour below the same parent.           *)
LEMMA FindSiblingIs ==
  ASSUME NEW V, NEW U, NEW r, NEW lo, NEW hi, NEW ht, Tree(V, U, r, lo, hi, ht),
         NEW x \in U, x # r, NEW P, P = V[x].parent, Size(V[P]) >= 1,
         NEW pg, NEW s, s = FindSibling(pg, V[P], x)
  PROVE  \E p, a, b : Beside(V, U, P, p, a, b) /\ Siblings(x, s, a, b)
<1>1. /\ P \in U /\ V[P].kind \in Interiors
      /\ \E j \in 1 .. Size(V[P]) + 1 : V[P].links[j] = x
  BY TreeParent
<1>2. PICK j \in 1 .. Size(V[P]) + 1 : V[P].links[j] = x
  BY <1>1
<1>3. V[P] \in Node /\ Shape(V[P]) /\ Size(V[P]) \in Nat
  BY <1>1, TreePage
<1>4. PICK n, z : n = V[P] /\ z = Size(V[P])
  OBVIOUS
<1>5. n.links \in Seq(Numbers) /\ Len(n.links) = z + 1 /\ z \in Nat /\ z >= 1
  BY <1>1, <1>3, <1>4, NodeFields DEF Shape
<1>6. IndexIn(n.links, x) = j
  <2>1. \A i \in 1 .. Len(n.links) : n.links[i] = n.links[j] => i = j
    BY SMTT(30), <1>1, <1>2, <1>4, <1>5, LinksDiffer
  <2>2. j \in 1 .. Len(n.links) /\ n.links[j] = x
    BY <1>2, <1>4, <1>5
  <2> QED
    BY <1>5, <2>1, <2>2, IndexInIs
<1>7. PICK L, R : L = n.links[j - 1] /\ R = n.links[j + 1]
  OBVIOUS
<1>8. FindSibling(pg, n, x) =
        IF j = 1 THEN R
        ELSE IF j = z + 1 THEN L
        ELSE IF Size(pg[R]) > Size(pg[L]) THEN R ELSE L
  <2>1. FindSibling(pg, n, x) =
          LET i == IndexIn(n.links, x) IN
          IF i = 1 THEN n.links[i + 1]
          ELSE IF i = Len(n.links) THEN n.links[i - 1]
          ELSE IF Size(pg[n.links[i + 1]]) > Size(pg[n.links[i - 1]])
               THEN n.links[i + 1] ELSE n.links[i - 1]
    BY DEF FindSibling, SelectInSeq, IndexIn
  <2> QED
    BY <1>5, <1>6, <1>7, <2>1
<1>9. (s = R /\ j # z + 1) \/ (s = L /\ j # 1)
  BY <1>4, <1>5, <1>8
<1>10. CASE s = R /\ j # z + 1
  <2>1. Beside(V, U, P, j, x, s)
    BY <1>1, <1>2, <1>4, <1>5, <1>7, <1>10 DEF Beside
  <2> QED
    BY <2>1 DEF Siblings
<1>11. CASE s = L /\ j # 1
  <2>1. PICK i : i = j - 1
    OBVIOUS
  <2>2. i \in 1 .. z /\ i + 1 = j
    BY <1>2, <1>4, <1>5, <1>11, <2>1
  <2>3. Beside(V, U, P, i, s, x)
    BY <1>1, <1>2, <1>4, <1>7, <1>11, <2>1, <2>2 DEF Beside
  <2> QED
    BY <2>3 DEF Siblings
<1> QED
  BY <1>9, <1>10, <1>11

(* Three pages written by a redistribution, W the pages that it describes.     *)
Shared(V, W, U, wp, P, a, b, q) ==
  /\ SharedPages(V, W, P, a, b)
  /\ Triple(q) /\ W[a] = q[1] /\ W[b] = q[2] /\ W[P] = q[3]
  /\ \A n \in U \ {a, b, P} :
       wp[n] = W[n] /\ W[n].kind = V[n].kind /\ Size(W[n]) = Size(V[n])
  /\ P # root.number => W[root.number] = V[root.number]

(* A redistribution, written to the file, ends the call and keeps the         *)
(* invariant.                                                                 *)
LEMMA ShareWritten ==
  ASSUME NEW U, TypeOK, OrphanOK, NEW V, NEW r, r = root.number, root = V[r],
         NEW lo, NEW hi, NEW ht, Tree(V, U, r, lo, hi, ht),
         NEW P, NEW p, NEW a, NEW b, Beside(V, U, P, p, a, b),
         NEW x, x = a \/ x = b, Filled(V, U, {x}),
         NEW W, NEW wp, Pages(wp), Lasting(page, wp), NEW q, Shared(V, W, U, wp, P, a, b, q),
         NEW map \in [Keys -> Values \union {Absent}], TreeOf(W, U, r, map),
         page' = Written(wp, q), root' = RootAfter(q[3]), call' = Idle, used' = used,
         kv' = map, meta' = meta, proc' = proc, buffer' = "live"
  PROVE  Goes(U)
<1>1. PICK q1, q2, q3 : q1 = q[1] /\ q2 = q[2] /\ q3 = q[3]
  OBVIOUS
<1>2. /\ q = <<q1, q2, q3>> /\ W[a] = q1 /\ W[b] = q2 /\ W[P] = q3
      /\ SharedPages(V, W, P, a, b)
      /\ \A n \in U \ {a, b, P} :
           wp[n] = W[n] /\ W[n].kind = V[n].kind /\ Size(W[n]) = Size(V[n])
      /\ P # r => W[r] = V[r]
  BY <1>1 DEF Shared, Triple
<1>3. /\ P \in U /\ a \in U /\ b \in U /\ a # b /\ a # r /\ b # r /\ a # P /\ b # P
  BY BesideAre
<1>4. V[P].kind \in Interiors
  BY DEF Beside
<1>5. /\ q1 \in Node /\ q1.kind = V[a].kind /\ q1.number = a /\ Size(q1) \in NodesDown .. NodesUp
      /\ q2 \in Node /\ q2.kind = V[b].kind /\ q2.number = b /\ Size(q2) \in NodesDown .. NodesUp
      /\ q3 \in Node /\ Shape(q3) /\ q3.kind = V[P].kind /\ q3.number = P
      /\ q3.parent = V[P].parent /\ Size(q3) = Size(V[P])
  BY <1>2 DEF SharedPages
<1>6. Shape(q1) /\ Shape(q2)
  <2>1. PICK l2, h2, t2 \in [Numbers -> Nat] : Tree(W, U, r, l2, h2, t2)
    BY DEF TreeOf
  <2> QED
    BY <1>2, <1>3, <2>1, TreePage
<1>7. U \subseteq Numbers /\ 0 \notin U
  BY TreeNumbers
<1>8. Pages(page') /\ Lasting(wp, page')
  <2> DEFINE w == <<q1, q2, q3>>
  <2>1. Len(w) = 3 /\ w[1] = q1 /\ w[2] = q2 /\ w[3] = q3
    OBVIOUS
  <2>2. page' = Written(wp, w)
    BY <1>2
  <2> HIDE DEF w
  <2>3. 1 .. Len(w) = {1, 2, 3} /\ Len(w) \in Nat
    BY <2>1
  <2>4. /\ \A i \in 1 .. Len(w) : ShapeOK(w[i])
        /\ \A i \in 1 .. Len(w) : w[i].number = 0 => Len(w[i].links) = 1
    BY <1>3, <1>5, <1>6, <1>7, <2>1, <2>3 DEF ShapeOK
  <2> QED
    BY <2>2, <2>3, <2>4, WrittenPages
<1>9. PICK V2 : V2 = page'
  OBVIOUS
<1>10. V2[a] = q1 /\ V2[b] = q2 /\ V2[P] = q3 /\ \A n \in U : V2[n] = W[n]
  <2>1. \A n \in Numbers :
          V2[n] = IF n = P THEN q3 ELSE IF n = b THEN q2 ELSE IF n = a THEN q1 ELSE wp[n]
    BY <1>2, <1>5, <1>9, Written3 DEF Pages
  <2> QED
    BY <1>2, <1>3, <1>7, <2>1
<1>11. TreeOf(V2, U, r, map)
  BY <1>10, TreeOfSame
<1>12. /\ root' = V2[root'.number] /\ root'.number = r /\ root'.kind = "Root" /\ root' \in Node
       /\ root'.parent = root.parent
  <2>1. P # r => V2[r] = V[r]
    BY <1>2, <1>3, <1>10 DEF Tree, RootOK
  <2> QED
    BY <1>1, <1>3, <1>4, <1>5, <1>10, <2>1, RootKept
<1>13. TypeOK'
  <2>1. Idle \in [op : {"none", "split", "underflow"}, node : Node,
                  key : Keys \union {0}, link : Numbers]
    BY BlankIs DEF Idle, Numbers
  <2> QED
    BY <1>8, <1>12, <2>1 DEF TypeOK, Pages
<1>14. Filled(V2, U, {})
  <2>1. ASSUME NEW n \in U PROVE Size(V2[n]) \in Least(V2[n]) .. NodesUp
    <3>1. CASE n = P
      <4>1. Size(V[P]) \in Least(V[P]) .. NodesUp
        BY <1>3 DEF Filled
      <4> QED
        BY <1>5, <1>10, <3>1, <4>1 DEF Least
    <3>2. CASE n = a \/ n = b
      <4>1. V[n].kind \notin {"Root", "RootLeaf"}
        BY <1>3, <3>2, TreePage
      <4>2. Size(V2[n]) \in NodesDown .. NodesUp /\ V2[n].kind = V[n].kind
        BY <1>5, <1>10, <3>2
      <4> QED
        BY <4>1, <4>2 DEF Least
    <3>3. CASE n \notin {a, b, P}
      <4>1. V2[n].kind = V[n].kind /\ Size(V2[n]) = Size(V[n])
        BY <1>2, <1>10, <3>3
      <4>2. Size(V[n]) \in Least(V[n]) .. NodesUp
        BY <3>3 DEF Filled
      <4> QED
        BY <4>1, <4>2 DEF Least
    <3> QED
      BY <3>1, <3>2, <3>3
  <2> QED
    BY <2>1 DEF Filled
<1>15. OrphanOK'
  <2>1. Lasting(page, page')
    BY <1>8 DEF Lasting
  <2> QED
    BY <1>12, <2>1, OrphanKept
<1>16. TreeOf(page', U, root'.number, kv') /\ Filled(page', U, {})
  BY <1>9, <1>11, <1>12, <1>14
<1> QED
  BY <1>8, <1>9, <1>12, <1>13, <1>15, <1>16, IdleNext

(* The pages when key k has left leaf x.                                       *)
Dropped(V, x, k) ==
  V[x] = DeleteKeyLeaf(page[x], k) /\ \A n \in Numbers \ {x} : V[n] = page[n]

(* The pages after the removal of a key can be named.                         *)
LEMMA DroppedExists ==
  ASSUME NEW x \in Numbers, NEW k
  PROVE  \E V : Dropped(V, x, k)
<1> DEFINE V == [n \in Numbers |-> IF n = x THEN DeleteKeyLeaf(page[x], k) ELSE page[n]]
<1>1. Dropped(V, x, k)
  BY DEF Dropped
<1> QED
  BY <1>1

(* The tree with a page x of too few keys under P.                             *)
Lacking(V, U, r, lo, hi, ht, x, P, map) ==
  /\ Tree(V, U, r, lo, hi, ht) /\ Holds(V, U, lo, hi, map) /\ Filled(V, U, {x})
  /\ x \in U /\ x # r /\ r \in U /\ P \in U /\ P # x
  /\ V[x] \in Node /\ V[x].number = x /\ V[x].parent = P /\ Size(V[x]) = NodesDown - 1

(* Where the leaf of a deleted key underflows.                                 *)
LEMMA UnderflowIs ==
  ASSUME NEW U, TypeOK, NEW lo, NEW hi, NEW ht, Standing(U, lo, hi, ht), NEW k \in Keys, Underflows(k),
         NEW x, LeafOf(U, x, lo, hi, k), NEW r, r = root.number,
         NEW P, P = page[x].parent, NEW V, Dropped(V, x, k)
  PROVE  /\ Lacking(V, U, r, lo, hi, ht, x, P, With(kv, k, Absent))
         /\ root = V[r] /\ Leaf(k) = page[x] /\ page[x].number = x
         /\ V[x] = DeleteKeyLeaf(Leaf(k), k) /\ V[x].kind = "Leaf"
         /\ \A n \in U \ {x} : V[n] = page[n]
<1>1. /\ Tree(page, U, r, lo, hi, ht) /\ Holds(page, U, lo, hi, kv)
      /\ Filled(page, U, {}) /\ root = page[r]
  BY DEF Standing
<1>2. /\ Leaf(k) = page[x] /\ page[x] \in Node /\ page[x].number = x
      /\ page[x].kind \in Leaves
      /\ (page[x].kind = "RootLeaf") = (x = root.number)
      /\ Present(k) = ~Misses(page[x], k) /\ x \in U
  BY StandingLeaf
<1>3. Present(k) /\ Size(page[x]) = NodesDown /\ page[x].kind = "Leaf"
  BY <1>2 DEF Underflows
<1>4. x # r /\ r \in U
  BY <1>1, <1>2, <1>3 DEF Tree, RootOK
<1>5. \A n \in U : n \in Numbers
  BY <1>1, TreeNumbers
<1>6. V[x] = DeleteKeyLeaf(page[x], k) /\ \A n \in U \ {x} : V[n] = page[n]
  BY <1>5 DEF Dropped
<1>7. /\ Tree(V, U, r, lo, hi, ht) /\ Holds(V, U, lo, hi, With(kv, k, Absent))
      /\ LessOne(V[x], page[x])
  <2>1. kv \in [Keys -> Values \union {Absent}]
    BY DEF TypeOK
  <2>2. Drops(page, V, U, x, k)
    BY <1>2, <1>3, <1>6 DEF Drops
  <2>3. Tree(page, U, r, lo, hi, ht) /\ Holds(page, U, lo, hi, kv)
    BY <1>1
  <2> QED
    BY <2>1, <2>2, <2>3, DropKeyTree
<1>8. Filled(V, U, {x})
  BY <1>1, <1>6 DEF Filled
<1>9. P \in U /\ P # x
  BY <1>1, <1>2, <1>4, TreeParent
<1>10. Lacking(V, U, r, lo, hi, ht, x, P, With(kv, k, Absent))
  BY <1>2, <1>3, <1>4, <1>7, <1>8, <1>9 DEF Lacking, LessOne
<1> QED
  BY <1>1, <1>2, <1>3, <1>4, <1>6, <1>7, <1>10 DEF LessOne

(* x and its sibling s, beside each other under a parent that has a key.       *)
Neighboured(V, U, r, x, P, s) ==
  /\ s \in U /\ s # x /\ s # P /\ s # r
  /\ V[P].kind \in Interiors /\ Size(V[P]) >= 1
  /\ Size(V[s]) \in NodesDown .. NodesUp /\ V[s].kind = V[x].kind /\ V[s] \in Node
  /\ \E p, a, b : Beside(V, U, P, p, a, b) /\ Siblings(x, s, a, b)

(* The page that lacks a key has a neighbour under its parent.                *)
LEMMA UnderflowSibling ==
  ASSUME NEW V, NEW U, NEW r, NEW lo, NEW hi, NEW ht, NEW x, NEW P, NEW map,
         Lacking(V, U, r, lo, hi, ht, x, P, map),
         NEW pg, NEW s, s = FindSibling(pg, V[P], x)
  PROVE  Neighboured(V, U, r, x, P, s)
<1> USE DEF Lacking
<1>1. P \in U /\ V[P].kind \in Interiors /\ P # x
  BY TreeParent
<1>2. Size(V[P]) >= 1 /\ Size(V[P]) \in Nat
  <2>1. Size(V[P]) \in Least(V[P]) .. NodesUp
    BY <1>1 DEF Filled
  <2>2. Least(V[P]) >= 1 /\ Least(V[P]) \in Nat
    BY <1>1, NodesDownIs, Kinds DEF Least
  <2> QED
    BY <1>1, <2>1, <2>2, TreePage
<1>3. PICK p, a, b : Beside(V, U, P, p, a, b) /\ Siblings(x, s, a, b)
  BY <1>2, FindSiblingIs
<1>4. /\ a \in U /\ b \in U /\ a # b /\ a # r /\ b # r /\ a # P /\ b # P /\ V[a].kind = V[b].kind
  BY <1>3, BesideAre
<1>5. s \in U /\ s # x /\ s # P /\ s # r /\ V[s].kind = V[x].kind
  BY <1>3, <1>4 DEF Siblings
<1>6. Size(V[s]) \in NodesDown .. NodesUp /\ V[s] \in Node
  <2>1. Size(V[s]) \in Least(V[s]) .. NodesUp
    BY <1>5 DEF Filled
  <2>2. V[s].kind \notin {"Root", "RootLeaf"} /\ V[s] \in Node
    BY <1>5, TreePage
  <2> QED
    BY <2>1, <2>2 DEF Least
<1> QED
  BY <1>1, <1>2, <1>3, <1>5, <1>6 DEF Neighboured

(* The page n, which lacks a key in the tree of the pages V, and its sibling:  *)
(* a and b are the two, in order, under their parent P.                        *)
Lacks(U, n, map, V, r, x, t, P, a, b) ==
  /\ r = root.number /\ root = V[r] /\ map \in [Keys -> Values \union {Absent}]
  /\ \E lo, hi, ht : Lacking(V, U, r, lo, hi, ht, x, P, map)
  /\ n = V[x] /\ \A y \in U \ {x} : V[y] = page[y]
  /\ t = FindSibling(page, V[P], x)
  /\ \E c : Beside(V, U, P, c, a, b) /\ Siblings(x, t, a, b)

(* A redistribution of n and its sibling: the pages W that q makes of V, of    *)
(* which pg holds those that are not written.                                  *)
Shares(U, n, pg, map, V, W, r, x, t, P, a, b, q) ==
  /\ Lacks(U, n, map, V, r, x, t, P, a, b)
  /\ Shared(V, W, U, pg, P, a, b, q) /\ TreeOf(W, U, r, map)
  /\ Pages(pg) /\ Lasting(page, pg) /\ TypeOK /\ OrphanOK
  /\ page' = Written(pg, q) /\ root' = RootAfter(q[3])
  /\ call' = Idle /\ used' = used /\ kv' = map
  /\ meta' = meta /\ proc' = proc /\ buffer' = "live"

(* A redistribution keeps the invariant.                                       *)
LEMMA SharesKeeps ==
  ASSUME NEW U, NEW n, NEW pg, NEW map, NEW V, NEW W, NEW r, NEW x, NEW t, NEW P,
         NEW a, NEW b, NEW q, Shares(U, n, pg, map, V, W, r, x, t, P, a, b, q)
  PROVE  Goes(U)
<1>1. Lacks(U, n, map, V, r, x, t, P, a, b)
  BY DEF Shares
<1>2. PICK lo, hi, ht : Lacking(V, U, r, lo, hi, ht, x, P, map)
  BY <1>1 DEF Lacks
<1>3. PICK c : Beside(V, U, P, c, a, b) /\ Siblings(x, t, a, b)
  BY <1>1 DEF Lacks
<1>4. /\ r = root.number /\ root = V[r] /\ map \in [Keys -> Values \union {Absent}]
      /\ (x = a \/ x = b) /\ Filled(V, U, {x}) /\ Tree(V, U, r, lo, hi, ht)
  BY <1>1, <1>2, <1>3 DEF Lacks, Lacking, Siblings
<1>5. /\ Shared(V, W, U, pg, P, a, b, q) /\ TreeOf(W, U, r, map)
      /\ Pages(pg) /\ Lasting(page, pg) /\ TypeOK /\ OrphanOK
      /\ page' = Written(pg, q) /\ root' = RootAfter(q[3])
      /\ call' = Idle /\ used' = used /\ kv' = map
      /\ meta' = meta /\ proc' = proc /\ buffer' = "live"
  BY DEF Shares
<1> QED
  BY <1>3, <1>4, <1>5, ShareWritten

(* What a deletion does that takes entries from a sibling leaf.               *)
LEMMA DeleteRedistributingIs ==
  ASSUME NEW U, InvOf(U), NEW k \in Keys, DeleteRedistributing(k),
         NEW n, n = DeleteKeyLeaf(Leaf(k), k)
  PROVE  \E V, W, r, x, t, P, a, b, q :
           /\ Shares(U, n, page, With(kv, k, Absent), V, W, r, x, t, P, a, b, q)
           /\ Leaf(k) = page[x] /\ page[x].number = x /\ page[x].parent = P
<1>1. PICK s, p, q : /\ s = SiblingOf(Leaf(k)) /\ p = DeleteKeyLeaf(Leaf(k), k)
                     /\ q = RedistributeKeysLeaf(p, s, ParentOf(p))
  OBVIOUS
<1>2. /\ Underflows(k) /\ Lends(s) /\ page' = Written(page, q) /\ root' = RootAfter(q[3])
      /\ kv' = With(kv, k, Absent)
      /\ used' = used /\ call' = call /\ meta' = meta /\ proc' = proc /\ buffer' = buffer
  BY <1>1 DEF DeleteRedistributing, Map!Remove, With
<1>3. Called
  BY <1>2 DEF Underflows
<1>4. PICK lo, hi, ht : Standing(U, lo, hi, ht)
  BY <1>3, CalledStanding
<1>5. TypeOK /\ Pages(page) /\ call = Idle /\ buffer = "live"
  BY <1>3, CalledStanding DEF Called
<1>6. PICK x : LeafOf(U, x, lo, hi, k)
  BY <1>4, LeafIs
<1>7. x \in Numbers
  BY <1>4, <1>6, TreeNumbers DEF LeafOf, Standing
<1>8. PICK V : Dropped(V, x, k)
  BY <1>7, DroppedExists
<1>9. PICK r, P, map : r = root.number /\ P = page[x].parent /\ map = With(kv, k, Absent)
  OBVIOUS
<1>10. /\ Lacking(V, U, r, lo, hi, ht, x, P, map)
       /\ root = V[r] /\ Leaf(k) = page[x] /\ page[x].number = x
       /\ V[x] = DeleteKeyLeaf(Leaf(k), k) /\ V[x].kind = "Leaf"
       /\ \A j \in U \ {x} : V[j] = page[j]
  BY <1>2, <1>4, <1>5, <1>6, <1>8, <1>9, UnderflowIs
<1>11. PICK t : t = FindSibling(page, V[P], x)
  OBVIOUS
<1>12. Neighboured(V, U, r, x, P, t)
  BY <1>10, <1>11, UnderflowSibling
<1>13. /\ t \in U /\ t # x /\ Size(V[t]) \in NodesDown .. NodesUp /\ V[t] \in Node
  BY <1>12 DEF Neighboured
<1>14. /\ x \in U /\ x # r /\ r \in U /\ P \in U /\ P # x /\ V[x] \in Node
       /\ V[x].parent = P /\ Size(V[x]) = NodesDown - 1
       /\ Tree(V, U, r, lo, hi, ht) /\ Holds(V, U, lo, hi, map) /\ Filled(V, U, {x})
  BY <1>10 DEF Lacking
<1>15. /\ p = V[x] /\ V[P] = page[P] /\ s = V[t] /\ ParentOf(p) = V[P]
  BY <1>1, <1>9, <1>10, <1>11, <1>13, <1>14 DEF SiblingOf, ParentOf
<1>16. PICK c, a, b : Beside(V, U, P, c, a, b) /\ Siblings(x, t, a, b)
  BY <1>12 DEF Neighboured
<1>17. /\ a \in U /\ b \in U /\ a # b /\ a # r /\ b # r /\ a # P /\ b # P
       /\ V[a].kind = V[b].kind
  BY <1>14, <1>16, BesideAre
<1>18. V[a].kind \in Leaves
  BY <1>10, <1>16, <1>17, Kinds DEF Siblings
<1> DEFINE W0 == [j \in U |-> IF j = a THEN q[1] ELSE IF j = b THEN q[2]
                                 ELSE IF j = P THEN q[3] ELSE V[j]]
<1>19. PICK W : W = W0
  OBVIOUS
<1>20. SharesLeaves(V, W, U, P, a, b, q)
  <2>1. PICK n1, n2 : n1 = V[x] /\ n2 = V[t]
    OBVIOUS
  <2>2. n1 \in Node /\ n2 \in Node /\ Siblings(n1, n2, V[a], V[b])
    BY <1>13, <1>14, <1>16, <2>1 DEF Siblings
  <2>3. Size(n1) = NodesDown - 1 /\ Size(n2) > NodesDown /\ Size(n2) <= NodesUp
    BY <1>2, <1>13, <1>14, <1>15, <2>1, NodesDownIs DEF Lends
  <2>4. q = RedistributeKeysLeaf(n1, n2, V[P])
    BY <1>1, <1>15, <2>1
  <2>5. Sharers(n1, n2, V[a], V[b])
    BY <2>2, <2>3 DEF Sharers
  <2>6. /\ W[a] = q[1] /\ W[b] = q[2] /\ W[P] = q[3]
        /\ \A j \in U \ {a, b, P} : W[j] = V[j]
    BY <1>14, <1>17, <1>19
  <2> QED
    BY <1>18, <2>4, <2>5, <2>6 DEF SharesLeaves
<1> HIDE DEF W0
<1>21. TreeOf(W, U, r, map) /\ SharedPages(V, W, P, a, b) /\ Triple(q)
  <2>1. Tree(V, U, r, lo, hi, ht) /\ Holds(V, U, lo, hi, map) /\ Beside(V, U, P, c, a, b)
    BY <1>14, <1>16
  <2> QED
    BY <1>20, <2>1, LeavesShareTree
<1>22. Shared(V, W, U, page, P, a, b, q)
  <2>1. /\ W[a] = q[1] /\ W[b] = q[2] /\ W[P] = q[3]
        /\ \A j \in U \ {a, b, P} : W[j] = V[j]
    BY <1>20 DEF SharesLeaves
  <2>2. \A j \in U \ {a, b, P} : page[j] = V[j]
    BY <1>10, <1>16 DEF Siblings
  <2>3. P # root.number => W[root.number] = V[root.number]
    BY <1>9, <1>14, <1>17, <2>1
  <2> QED
    BY <1>21, <2>1, <2>2, <2>3 DEF Shared
<1>23. map \in [Keys -> Values \union {Absent}]
  BY <1>5, <1>9 DEF TypeOK, With
<1>24. (x = a \/ x = b) /\ Filled(V, U, {x}) /\ Tree(V, U, r, lo, hi, ht)
  BY <1>14, <1>16 DEF Siblings
<1>25. kv' = map /\ root = V[r] /\ Beside(V, U, P, c, a, b) /\ TreeOf(W, U, r, map)
  BY <1>2, <1>9, <1>10, <1>16, <1>21
<1>26. OrphanOK /\ Lasting(page, page)
  BY <1>4 DEF Standing, Lasting
<1>27. Lacks(U, n, map, V, r, x, t, P, a, b)
  BY <1>1, <1>9, <1>10, <1>11, <1>15, <1>16, <1>23 DEF Lacks
<1>28. Shares(U, n, page, map, V, W, r, x, t, P, a, b, q)
  BY <1>2, <1>5, <1>9, <1>21, <1>22, <1>26, <1>27 DEF Shares, Called
<1> QED
  BY <1>9, <1>10, <1>28

(* A deletion that takes entries from a sibling leaf keeps the invariant.     *)
LEMMA DeleteRedistributingKeeps ==
  ASSUME NEW U, InvOf(U), NEW k \in Keys, DeleteRedistributing(k)
  PROVE  Goes(U)
BY DeleteRedistributingIs, SharesKeeps

(* Where a pending inner page underflows.                                      *)
LEMMA NodeUnderflowIs ==
  ASSUME NEW U, InvOf(U), Pending("underflow"), NEW lo, NEW hi, NEW ht, Climbing(U, lo, hi, ht),
         NEW r, r = root.number, NEW x, x = call.node.number,
         NEW P, P = call.node.parent, NEW V, V = View
  PROVE  /\ Lacking(V, U, r, lo, hi, ht, x, P, kv)
         /\ root = V[r] /\ V[x] = call.node /\ V[x].kind = "Intermediate"
         /\ \A n \in U \ {x} : V[n] = page[n]
<1>1. proc = "running" /\ call # Idle /\ call.op = "underflow"
  BY DEF Pending, Idle
<1>2. TypeOK /\ \A n \in Numbers : View[n] = IF n = x THEN PendingNode ELSE page[n]
  BY <1>1, PendingClimbing
<1>3. PendingNode = call.node
  BY <1>1 DEF PendingNode
<1>4. /\ Tree(V, U, r, lo, hi, ht) /\ Holds(V, U, lo, hi, kv) /\ Filled(V, U, {x})
      /\ root = page[r]
  BY DEF Climbing
<1>5. /\ x \in U /\ call.node.kind = "Intermediate" /\ Size(call.node) = NodesDown - 1
  BY <1>1 DEF Climbing, CallOK
<1>6. \A n \in U : n \in Numbers
  BY <1>4, TreeNumbers
<1>7. V[x] = call.node /\ \A n \in U \ {x} : V[n] = page[n]
  BY <1>2, <1>3, <1>5, <1>6
<1>8. r \in U /\ x # r
  <2>1. (V[x].kind \in {"Root", "RootLeaf"}) = (x = r)
    BY <1>4, <1>5, TreePage
  <2> QED
    BY <1>4, <1>5, <1>7, <2>1 DEF Tree, RootOK
<1>9. V[x] \in Node /\ V[x].number = x
  BY <1>4, <1>5, TreePage
<1>10. P \in U /\ P # x
  BY <1>4, <1>5, <1>7, <1>8, TreeParent
<1>11. Lacking(V, U, r, lo, hi, ht, x, P, kv)
  BY <1>4, <1>5, <1>7, <1>8, <1>9, <1>10 DEF Lacking
<1> QED
  BY <1>4, <1>5, <1>7, <1>8, <1>11

(* What a redistribution of inner pages does.                                 *)
LEMMA RedistributeNodeIs ==
  ASSUME NEW U, InvOf(U), RedistributeNode
  PROVE  \E V, W, r, x, t, P, a, b, q, wp :
           /\ Shares(U, call.node, wp, kv, V, W, r, x, t, P, a, b, q)
           /\ q = SharedNodes(call.node) /\ Receiver(q, call.node) = W[x]
           /\ wp = WriteParents(page, W[x]) /\ W[x].kind \in Interiors
<1>1. PICK s, q : /\ s = SiblingOf(call.node)
                  /\ q = SharedNodes(call.node)
  OBVIOUS
<1>2. PICK p, wp : p = Receiver(q, call.node) /\ wp = WriteParents(page, p)
  OBVIOUS
<1>3. /\ Pending("underflow") /\ Lends(s) /\ page' = Written(wp, q) /\ root' = RootAfter(q[3])
      /\ call' = Idle /\ kv' = kv
      /\ used' = used /\ meta' = meta /\ proc' = proc /\ buffer' = buffer
  BY <1>1, <1>2 DEF RedistributeNode
<1>4. proc = "running" /\ call # Idle
  BY <1>3 DEF Pending, Idle
<1>5. PICK lo, hi, ht : Climbing(U, lo, hi, ht)
  BY <1>4, PendingClimbing
<1>6. TypeOK /\ Pages(page) /\ buffer = "live"
  BY <1>4, PendingClimbing
<1>7. PICK r, x, P, V : r = root.number /\ x = call.node.number /\ P = call.node.parent /\ V = View
  OBVIOUS
<1>8. /\ Lacking(V, U, r, lo, hi, ht, x, P, kv)
      /\ root = V[r] /\ V[x] = call.node /\ V[x].kind = "Intermediate"
      /\ \A n \in U \ {x} : V[n] = page[n]
  BY <1>3, <1>5, <1>7, NodeUnderflowIs
<1>9. PICK t : t = FindSibling(page, V[P], x)
  OBVIOUS
<1>10. Neighboured(V, U, r, x, P, t)
  BY <1>8, <1>9, UnderflowSibling
<1>11. t \in U /\ t # x /\ Size(V[t]) \in NodesDown .. NodesUp
  BY <1>10 DEF Neighboured
<1>12. /\ x \in U /\ x # r /\ r \in U /\ P \in U /\ P # x /\ V[x] \in Node
       /\ V[x].number = x /\ Size(V[x]) = NodesDown - 1
       /\ Tree(V, U, r, lo, hi, ht) /\ Holds(V, U, lo, hi, kv) /\ Filled(V, U, {x})
  BY <1>8 DEF Lacking
<1>13. V[P] = page[P] /\ s = V[t] /\ q = RedistributeKeysIntermediate(V[x], V[t], V[P])
  BY <1>1, <1>7, <1>8, <1>9, <1>11, <1>12 DEF SharedNodes, SiblingOf, ParentOf
<1>14. PICK c, a, b : Beside(V, U, P, c, a, b) /\ Siblings(x, t, a, b)
  BY <1>10 DEF Neighboured
<1>15. /\ a \in U /\ b \in U /\ a # b /\ a # r /\ b # r /\ a # P /\ b # P
       /\ V[a].kind = V[b].kind
  BY <1>12, <1>14, BesideAre
<1>16. V[a].kind \in Interiors /\ (x = a \/ x = b)
  BY <1>8, <1>14, <1>15, Kinds DEF Siblings
<1>17. \A n \in U : V[n] \in Node
  BY <1>12, TreePage
<1>18. PICK z : z = IF x = a THEN q[1] ELSE q[2]
  OBVIOUS
<1> DEFINE W0 == [n \in U |-> IF n = a THEN q[1] ELSE IF n = b THEN q[2]
                                 ELSE IF n = P THEN q[3]
                                 ELSE IF n \in Under(z) THEN [V[n] EXCEPT !.parent = x]
                                 ELSE V[n]]
<1>19. PICK W : W = W0
  OBVIOUS
<1>20. /\ W[a] = q[1] /\ W[b] = q[2] /\ W[P] = q[3] /\ W[x] = z
       /\ \A n \in U \ {a, b, P} :
            W[n] = IF n \in Under(z) THEN [V[n] EXCEPT !.parent = x] ELSE V[n]
  BY <1>12, <1>15, <1>16, <1>18, <1>19
<1> HIDE DEF W0
<1>21. SharesNodes(V, W, U, P, a, b, q, x, t)
  <2>1. Size(V[t]) > NodesDown /\ Size(V[t]) <= NodesUp
    BY <1>3, <1>11, <1>13, NodesDownIs DEF Lends
  <2> QED
    BY <1>12, <1>13, <1>14, <1>16, <1>20, <2>1 DEF SharesNodes
<1>22. TreeOf(W, U, r, kv) /\ SharedPages(V, W, P, a, b) /\ Triple(q)
  <2>1. Tree(V, U, r, lo, hi, ht) /\ Holds(V, U, lo, hi, kv) /\ Beside(V, U, P, c, a, b)
    BY <1>12, <1>14
  <2> QED
    BY <1>21, <2>1, NodesShareTree
<1>23. PICK l2, h2, t2 \in [Numbers -> Nat] : Tree(W, U, r, l2, h2, t2)
  BY <1>22 DEF TreeOf
<1>24. W[x] \in Node /\ Shape(W[x]) /\ W[x].kind \in Interiors /\ W[x].number = x
  <2>1. W[x].kind = V[x].kind
    BY <1>16, <1>22 DEF SharedPages
  <2> QED
    BY <1>8, <1>12, <1>23, <2>1, TreePage, Kinds
<1>25. p = W[x]
  <2>1. q[1].number = a /\ q[2].number = b
    BY <1>20, <1>22 DEF SharedPages
  <2> QED
    BY <1>2, <1>7, <1>15, <1>16, <1>18, <1>20, <2>1 DEF Receiver
<1>26. /\ wp \in [Numbers -> Node] /\ Pages(wp) /\ Lasting(page, wp)
       /\ \A n \in Numbers :
            wp[n] = IF n \in Under(p) THEN [page[n] EXCEPT !.parent = p.number] ELSE page[n]
  <2>1. page \in [Numbers -> Node] /\ p \in Node /\ Shape(p) /\ p.kind \in Interiors
    BY <1>6, <1>24, <1>25 DEF TypeOK
  <2>2. ASSUME NEW n \in Under(p) PROVE page[n].number = n
    <3>1. n \in U /\ n # r /\ W[n].parent = x
      BY <1>12, <1>23, <1>25, <2>2, UnderIs
    <3>2. n # x
      BY <1>23, <3>1, TreeParent
    <3> QED
      BY <1>8, <1>12, <3>1, <3>2, TreePage
  <2> QED
    BY <1>2, <1>6, <2>1, <2>2, WriteParentsIs, WriteParentsPages
<1>27. ASSUME NEW n \in U \ {a, b, P}
       PROVE  wp[n] = W[n] /\ W[n].kind = V[n].kind /\ Size(W[n]) = Size(V[n])
  <2>1. n \in Numbers /\ n # x /\ V[n] = page[n] /\ V[n] \in Node
    BY <1>8, <1>12, <1>16, <1>17, TreeNumbers
  <2>2. wp[n] = W[n]
    BY <1>20, <1>24, <1>25, <1>26, <2>1
  <2> QED
    BY <1>20, <2>1, <2>2 DEF Node, Size
<1>28. P # r => W[r] = V[r]
  <2>1. r \notin Under(W[x])
    BY <1>12, <1>23, <1>24, UnderIs
  <2> QED
    BY <1>12, <1>15, <1>20, <2>1
<1>29. Shared(V, W, U, wp, P, a, b, q)
  BY <1>7, <1>20, <1>22, <1>27, <1>28 DEF Shared
<1>30. kv \in [Keys -> Values \union {Absent}]
  BY <1>6 DEF TypeOK
<1>31. /\ (x = a \/ x = b) /\ Filled(V, U, {x}) /\ Tree(V, U, r, lo, hi, ht)
       /\ root = V[r] /\ Beside(V, U, P, c, a, b) /\ TreeOf(W, U, r, kv) /\ Pages(wp)
  BY <1>8, <1>12, <1>14, <1>16, <1>22, <1>26
<1>32. Lasting(page, wp) /\ OrphanOK
  BY <1>5, <1>26 DEF Climbing
<1>33. Lacks(U, call.node, kv, V, r, x, t, P, a, b)
  BY <1>7, <1>8, <1>9, <1>14, <1>30 DEF Lacks
<1>34. Shares(U, call.node, wp, kv, V, W, r, x, t, P, a, b, q)
  BY <1>3, <1>6, <1>22, <1>29, <1>31, <1>32, <1>33 DEF Shares
<1> QED
  BY <1>1, <1>2, <1>24, <1>25, <1>34

(* An inner page that takes keys from its sibling keeps the invariant.        *)
LEMMA RedistributeNodeKeeps ==
  ASSUME NEW U, InvOf(U), RedistributeNode
  PROVE  Goes(U)
BY RedistributeNodeIs, SharesKeeps

(* The pages V that underflow and the pages W that a merge of a and b under P  *)
(* describes, of which pg holds all but a and P.                               *)
Combined(V, W, U, pg, P, a, b) ==
  /\ MergedPages(V, W, P, a, b)
  /\ W[P] = DeleteKeyIntermediate(V[P], a)
  /\ Size(W[a]) \in NodesDown .. NodesUp
  /\ \A n \in U \ {a, b, P} :
       pg[n] = W[n] /\ W[n].kind = V[n].kind /\ Size(W[n]) = Size(V[n])
  /\ P # root.number => W[root.number] = V[root.number]
  /\ pg[P].kind = V[P].kind

(* The three ends of a merge: an only child becomes the root ...               *)
Collapses(pg, mp, P, kind) ==
  /\ root' = Raised(mp, kind) /\ page' = Written(pg, <<Raised(mp, kind)>>) /\ call' = Idle

(* ... the parent loses a key ...                                              *)
Shortens(pg, mp, less) ==
  root' = RootAfter(less) /\ page' = Written(pg, <<mp, less>>) /\ call' = Idle

(* ... or underflows in turn.                                                  *)
Passes(pg, mp, less) ==
  /\ page' = Written(pg, <<mp>>) /\ root' = root
  /\ call' = [Idle EXCEPT !.op = "underflow", !.node = less]

(* What follows a merge: the root gives way, the parent keeps enough keys,    *)
(* or the parent now lacks one.                                               *)
LEMMA MergedEnds ==
  ASSUME NEW pg, NEW mp, NEW ms, NEW parent, NEW kind, Merged(pg, mp, ms, parent, kind),
         NEW a, a = mp.number, NEW b, b = ms.number, NEW P, P = parent.number,
         NEW less, less = DeleteKeyIntermediate(parent, a)
  PROVE  \/ Size(parent) = 1 /\ used' = used \ {b, P} /\ Collapses(pg, mp, P, kind)
         \/ /\ Size(parent) # 1 /\ (Size(parent) > NodesDown \/ parent.kind = "Root")
            /\ used' = used \ {b} /\ Shortens(pg, mp, less)
         \/ /\ Size(parent) # 1 /\ Size(parent) <= NodesDown /\ parent.kind # "Root"
            /\ used' = used \ {b} /\ Passes(pg, mp, less)
<1>1. used' = used \ Released(ms, parent)
  BY DEF Merged
<1>2. /\ Size(parent) = 1 => used' = used \ {b, P}
      /\ Size(parent) # 1 => used' = used \ {b}
  BY <1>1 DEF Released
<1>3. \/ Size(parent) = 1 /\ Collapses(pg, mp, P, kind)
      \/ /\ Size(parent) # 1 /\ (Size(parent) > NodesDown \/ parent.kind = "Root")
         /\ Shortens(pg, mp, less)
      \/ /\ Size(parent) # 1 /\ Size(parent) <= NodesDown /\ parent.kind # "Root"
         /\ Passes(pg, mp, less)
  BY DEF Merged, Collapses, Shortens, Passes, Raised
<1> QED
  BY <1>2, <1>3

(* What all three ends need to know.                                           *)
Merging(V, W, U, pg, r, P, a, b) ==
  /\ r = root.number /\ root = V[r] /\ r \in U /\ U \subseteq PageNums
  /\ P \in U /\ a \in U /\ b \in U
  /\ a # b /\ a # r /\ b # r /\ a # P /\ b # P
  /\ V[P].kind \in Interiors /\ V[P] \in Node /\ V[P].number = P
  /\ (V[P].kind = "Root") = (P = r) /\ V[r].kind = "Root"
  /\ V[a].kind \in {"Leaf", "Intermediate"}
  /\ Size(V[P]) \in Nat /\ Size(V[P]) \in Least(V[P]) .. NodesUp
  /\ Pages(pg) /\ \A n \in U : n \in Numbers /\ n # 0
  /\ \A n \in U \ {a, b} : Size(V[n]) \in Least(V[n]) .. NodesUp
  /\ \A n \in U \ {r} : V[n].kind \notin {"Root", "RootLeaf"}

(* The facts that every end of a merge starts from.                           *)
LEMMA MergingIs ==
  ASSUME NEW U, TypeOK, NEW V, NEW r, r = root.number, root = V[r],
         NEW lo, NEW hi, NEW ht, Tree(V, U, r, lo, hi, ht),
         NEW P, NEW p, NEW a, NEW b, Beside(V, U, P, p, a, b),
         NEW x, x = a \/ x = b, Filled(V, U, {x}), NEW W, NEW pg, Pages(pg)
  PROVE  Merging(V, W, U, pg, r, P, a, b)
<1>1. r \in U /\ U \subseteq PageNums
  BY DEF Tree, RootOK
<1>2. /\ P \in U /\ a \in U /\ b \in U
      /\ a # b /\ a # r /\ b # r /\ a # P /\ b # P
  BY BesideAre
<1>3. V[P].kind \in Interiors
  BY DEF Beside
<1>4. /\ V[P] \in Node /\ V[P].number = P /\ Size(V[P]) \in Nat
      /\ (V[P].kind \in {"Root", "RootLeaf"}) = (P = r)
  BY <1>2, TreePage
<1>5. V[r].kind = "Root"
  BY <1>2, <1>3, InnerRoot
<1>6. \A n \in U \ {r} : V[n].kind \notin {"Root", "RootLeaf"}
  BY TreePage
<1>7. V[a].kind \in {"Leaf", "Intermediate"}
  <2>1. V[a].kind \in Leaves \union Interiors
    BY <1>2, TreePage
  <2> QED
    BY <1>2, <1>6, <2>1, Kinds
<1>8. \A n \in U \ {a, b} : Size(V[n]) \in Least(V[n]) .. NodesUp
  BY DEF Filled
<1>9. \A n \in U : n \in Numbers /\ n # 0
  BY <1>1, BTreeAssumption, BTreeNodeAssumption DEF Numbers
<1>10. (V[P].kind = "Root") = (P = r)
  BY <1>3, <1>4, Kinds
<1> QED
  BY <1>1, <1>2, <1>3, <1>4, <1>5, <1>6, <1>7, <1>8, <1>9, <1>10 DEF Merging

(* A merge that takes the last key of the root keeps the invariant.           *)
LEMMA CollapsesKeeps ==
  ASSUME NEW U, TypeOK, NEW V, NEW W, NEW pg, NEW r, NEW P, NEW a, NEW b,
         Merging(V, W, U, pg, r, P, a, b), Combined(V, W, U, pg, P, a, b),
         NEW map \in [Keys -> Values \union {Absent}], TreeOf(W, U \ {b}, r, map),
         Size(V[P]) = 1, used' = used \ {b, P},
         NEW kind, kind = (IF V[a].kind = "Leaf" THEN "RootLeaf" ELSE "Root"),
         Collapses(pg, W[a], P, kind),
         kv' = map, meta' = meta, proc' = proc, buffer' = "live"
  PROVE  Goes(U)
<1> USE DEF Merging
<1>0. PICK U2 : U2 = U \ {b, P}
  OBVIOUS
<1>1. P = r
  <2>1. CASE P # r
    <3>1. V[P].kind \notin {"Root", "RootLeaf"}
      BY <2>1
    <3>2. Least(V[P]) = NodesDown
      BY <3>1 DEF Least
    <3> QED
      BY <3>2, NodesDownIs
  <2> QED
    BY <2>1
<1>2. PICK mp, top : mp = W[a] /\ top = Raised(mp, kind)
  OBVIOUS
<1>3. root' = top /\ page' = Written(pg, <<top>>) /\ call' = Idle
  BY <1>2 DEF Collapses
<1>4. /\ mp \in Node /\ Shape(mp) /\ mp.kind = V[a].kind /\ mp.number = a /\ mp.parent = P
      /\ Size(mp) \in NodesDown .. NodesUp
      /\ W[P].kind = V[P].kind /\ Size(W[P]) = 0 /\ W[P].links[1] = a
  BY <1>2 DEF Combined, MergedPages
<1>5. PICK q : q = mp.parent
  OBVIOUS
<1>6. kind \in {"Root", "RootLeaf"} /\ (kind \in Leaves) = (mp.kind \in Leaves)
  BY <1>4, Kinds
<1>7. Recast(top, mp, kind, q)
  BY <1>2, <1>4, <1>5, <1>6, RaisedIs
<1>8. /\ top \in Node /\ Shape(top) /\ top.kind = kind /\ top.number = a /\ top.parent = P
      /\ Size(top) = Size(mp)
  BY <1>4, <1>5, <1>7, RecastAlike
<1>9. \A n \in Numbers : page'[n] = IF n = a THEN top ELSE pg[n]
  BY <1>3, <1>8, Written1 DEF Pages
<1>10. PICK V2 : V2 = page'
  OBVIOUS
<1>11. V2[a] = top /\ \A n \in U \ {a, b, P} : V2[n] = W[n]
  BY <1>9, <1>10 DEF Combined
<1>12. TreeOf(V2, (U \ {b}) \ {r}, a, map)
  <2>1. PICK U3 : U3 = U \ {b}
    OBVIOUS
  <2>2. OnlyChild(W, r, a)
    BY <1>1, <1>4 DEF OnlyChild
  <2>3. Lifted(W, V2, U3, r, a)
    BY <1>1, <1>2, <1>6, <1>7, <1>11, <2>1, <2>2 DEF Lifted
  <2>4. TreeOf(W, U3, r, map)
    BY <2>1
  <2> QED
    BY <2>1, <2>3, <2>4, LiftedTree
<1>13. TreeOf(page', U2, root'.number, kv')
  <2>1. U2 = (U \ {b}) \ {r}
    BY <1>0, <1>1
  <2> QED
    BY <1>3, <1>8, <1>10, <1>12, <2>1
<1>14. Pages(page')
  <2> DEFINE w == <<top>>
  <2>1. Len(w) = 1 /\ w[1] = top
    OBVIOUS
  <2> HIDE DEF w
  <2>2. 1 .. Len(w) = {1} /\ Len(w) \in Nat
    BY <2>1
  <2>3. page' = Written(pg, w)
    BY <1>3 DEF w
  <2>4. /\ \A i \in 1 .. Len(w) : ShapeOK(w[i])
        /\ \A i \in 1 .. Len(w) : w[i].number = 0 => Len(w[i].links) = 1
    BY <1>8, <2>1, <2>2 DEF ShapeOK
  <2> QED
    BY <2>2, <2>3, <2>4, WrittenPages
<1>15. root' = page'[root'.number]
  BY <1>3, <1>8, <1>9
<1>16. Filled(page', U2, {})
  <2>1. ASSUME NEW n \in U2 PROVE Size(V2[n]) \in Least(V2[n]) .. NodesUp
    <3>1. CASE n = a
      BY <1>4, <1>6, <1>8, <1>11, <3>1, NodesDownIs DEF Least
    <3>2. CASE n # a
      <4>1. n \in U \ {a, b, P}
        BY <1>0, <3>2
      <4>2. V2[n].kind = V[n].kind /\ Size(V2[n]) = Size(V[n])
        BY <1>11, <4>1 DEF Combined
      <4> QED
        BY <4>1, <4>2 DEF Least
    <3> QED
      BY <3>1, <3>2
  <2> QED
    BY <1>10, <2>1 DEF Filled
<1>17. OrphanOK'
  <2>1. page'[P] = pg[P] /\ pg[P].kind \in Interiors /\ page'[P] # Blank
    BY <1>9, Kinds DEF Combined, Blank
  <2> QED
    BY <1>3, <1>8, <2>1 DEF OrphanOK
<1>18. TypeOK'
  <2>1. Idle \in [op : {"none", "split", "underflow"}, node : Node,
                  key : Keys \union {0}, link : Numbers]
    BY BlankIs DEF Idle, Numbers
  <2> QED
    BY <1>3, <1>8, <1>14, <2>1 DEF TypeOK, Pages
<1>19. U = used => U2 = used'
  BY <1>0
<1> QED
  BY <1>19, <1>3, <1>13, <1>14, <1>15, <1>16, <1>17, <1>18, IdleNext

(* A merge that leaves the parent enough keys keeps the invariant.            *)
LEMMA ShortensKeeps ==
  ASSUME NEW U, TypeOK, OrphanOK, NEW V, NEW W, NEW pg, NEW r, NEW P, NEW a, NEW b,
         Merging(V, W, U, pg, r, P, a, b), Combined(V, W, U, pg, P, a, b), Lasting(page, pg),
         NEW lo, NEW hi, NEW ht, Tree(V, U, r, lo, hi, ht),
         NEW map \in [Keys -> Values \union {Absent}], TreeOf(W, U \ {b}, r, map),
         Size(V[P]) # 1, Size(V[P]) > NodesDown \/ V[P].kind = "Root",
         used' = used \ {b}, Shortens(pg, W[a], W[P]),
         kv' = map, meta' = meta, proc' = proc, buffer' = "live"
  PROVE  Goes(U)
<1> USE DEF Merging
<1>1. PICK mp, less : mp = W[a] /\ less = W[P]
  OBVIOUS
<1>2. root' = RootAfter(less) /\ page' = Written(pg, <<mp, less>>) /\ call' = Idle
  BY <1>1 DEF Shortens
<1>3. /\ mp \in Node /\ Shape(mp) /\ mp.kind = V[a].kind /\ mp.number = a
      /\ Size(mp) \in NodesDown .. NodesUp
      /\ less \in Node /\ Shape(less) /\ less.kind = V[P].kind /\ less.number = P
      /\ less.parent = V[P].parent /\ Size(less) = Size(V[P]) - 1
  BY <1>1 DEF Combined, MergedPages
<1>4. \A n \in Numbers : page'[n] = IF n = P THEN less ELSE IF n = a THEN mp ELSE pg[n]
  BY <1>2, <1>3, Written2 DEF Pages
<1>5. PICK V2, U2 : V2 = page' /\ U2 = U \ {b}
  OBVIOUS
<1>6. V2[a] = mp /\ V2[P] = less /\ \A n \in U2 : V2[n] = W[n]
  BY <1>1, <1>4, <1>5 DEF Combined
<1>7. TreeOf(V2, U2, r, map)
  <2>1. TreeOf(W, U2, r, map)
    BY <1>5
  <2> QED
    BY <1>6, <2>1, TreeOfSame
<1>8. /\ root' = V2[root'.number] /\ root'.number = r /\ root'.kind = "Root" /\ root' \in Node
      /\ root'.parent = root.parent
  <2>1. P # r => V2[r] = V[r]
    BY <1>5, <1>6 DEF Combined
  <2> QED
    BY <1>2, <1>3, <1>6, <2>1, RootKept
<1>9. Pages(page') /\ Lasting(pg, page')
  <2> DEFINE w == <<mp, less>>
  <2>1. Len(w) = 2 /\ w[1] = mp /\ w[2] = less
    OBVIOUS
  <2> HIDE DEF w
  <2>2. 1 .. Len(w) = {1, 2} /\ Len(w) \in Nat
    BY <2>1
  <2>3. page' = Written(pg, w)
    BY <1>2 DEF w
  <2>4. /\ \A i \in 1 .. Len(w) : ShapeOK(w[i])
        /\ \A i \in 1 .. Len(w) : w[i].number = 0 => Len(w[i].links) = 1
    BY <1>3, <2>1, <2>2 DEF ShapeOK
  <2> QED
    BY <2>2, <2>3, <2>4, WrittenPages
<1>10. Filled(V2, U2, {})
  <2>1. ASSUME NEW n \in U2 PROVE Size(V2[n]) \in Least(V2[n]) .. NodesUp
    <3>1. CASE n = a
      BY <1>3, <1>6, <3>1 DEF Least
    <3>2. CASE n = P
      <4>1. less.kind = "Root" \/ less.kind \notin {"Root", "RootLeaf"}
        BY <1>3
      <4>2. Size(less) \in Nat
        BY <1>3, NodeFields
      <4> QED
        BY <1>3, <1>6, <3>2, <4>1, <4>2, NodesDownIs DEF Least
    <3>3. CASE n # a /\ n # P
      <4>1. n \in U \ {a, b, P}
        BY <1>5, <3>3
      <4>2. V2[n].kind = V[n].kind /\ Size(V2[n]) = Size(V[n])
        BY <1>6, <4>1 DEF Combined
      <4> QED
        BY <4>1, <4>2 DEF Least
    <3> QED
      BY <3>1, <3>2, <3>3
  <2> QED
    BY <2>1 DEF Filled
<1>11. OrphanOK'
  <2>1. Lasting(page, page')
    BY <1>9 DEF Lasting
  <2> QED
    BY <1>8, <2>1, OrphanKept
<1>12. TypeOK'
  <2>1. Idle \in [op : {"none", "split", "underflow"}, node : Node,
                  key : Keys \union {0}, link : Numbers]
    BY BlankIs DEF Idle, Numbers
  <2> QED
    BY <1>2, <1>8, <1>9, <2>1 DEF TypeOK, Pages
<1>13. /\ TreeOf(page', U2, root'.number, kv') /\ Filled(page', U2, {})
       /\ U = used => U2 = used'
  BY <1>5, <1>7, <1>8, <1>10
<1> QED
  BY <1>2, <1>5, <1>8, <1>9, <1>11, <1>12, <1>13, IdleNext

(* A merge that leaves the parent short of a key keeps the invariant, with    *)
(* the parent pending.                                                        *)
LEMMA PassesKeeps ==
  ASSUME NEW U, TypeOK, OrphanOK, NEW V, NEW W, NEW pg, NEW r, NEW P, NEW a, NEW b,
         Merging(V, W, U, pg, r, P, a, b), Combined(V, W, U, pg, P, a, b), Lasting(page, pg),
         NEW map \in [Keys -> Values \union {Absent}], TreeOf(W, U \ {b}, r, map),
         Size(V[P]) <= NodesDown, V[P].kind # "Root",
         used' = used \ {b}, Passes(pg, W[a], W[P]),
         kv' = map, meta' = meta, proc' = proc, buffer' = "live"
  PROVE  Goes(U)
<1> USE DEF Merging
<1>1. PICK mp, less : mp = W[a] /\ less = W[P]
  OBVIOUS
<1>2. /\ root' = root /\ page' = Written(pg, <<mp>>)
      /\ call' = [Idle EXCEPT !.op = "underflow", !.node = less]
  BY <1>1 DEF Passes
<1>3. /\ mp \in Node /\ Shape(mp) /\ mp.kind = V[a].kind /\ mp.number = a
      /\ Size(mp) \in NodesDown .. NodesUp
      /\ less \in Node /\ Shape(less) /\ less.kind = V[P].kind /\ less.number = P
      /\ Size(less) = Size(V[P]) - 1
  BY <1>1 DEF Combined, MergedPages
<1>4. V[P].kind = "Intermediate" /\ P # r /\ Size(V[P]) = NodesDown
  <2>1. P # r
    OBVIOUS
  <2>2. Least(V[P]) = NodesDown
    BY <2>1 DEF Least
  <2> QED
    BY <2>1, <2>2, NodesDownIs, Kinds
<1>5. \A n \in Numbers : page'[n] = IF n = a THEN mp ELSE pg[n]
  BY <1>2, <1>3, Written1 DEF Pages
<1>6. call' = [op |-> "underflow", node |-> less, key |-> 0, link |-> 0]
  BY <1>2 DEF Idle
<1>7. call' # Idle /\ Exempt' = {P}
  BY <1>3, <1>6 DEF Exempt, Idle
<1>8. \A n \in Numbers : View'[n] = IF n = P THEN less ELSE page'[n]
  BY <1>3, <1>6, <1>7 DEF View, PendingNode
<1>9. PICK V2, U2 : V2 = View' /\ U2 = U \ {b}
  OBVIOUS
<1>10. V2[a] = mp /\ V2[P] = less /\ \A n \in U2 : V2[n] = W[n]
  BY <1>1, <1>5, <1>8, <1>9 DEF Combined
<1>11. TreeOf(V2, U2, r, map)
  <2>1. TreeOf(W, U2, r, map)
    BY <1>9
  <2> QED
    BY <1>10, <2>1, TreeOfSame
<1>12. root' = page'[root'.number] /\ root'.number = r /\ root'.kind = "Root" /\ root' \in Node
  <2>1. page'[r] = V[r]
    BY <1>4, <1>5 DEF Combined
  <2> QED
    BY <1>2, <2>1 DEF TypeOK
<1>13. Pages(page') /\ Lasting(pg, page')
  <2> DEFINE w == <<mp>>
  <2>1. Len(w) = 1 /\ w[1] = mp
    OBVIOUS
  <2> HIDE DEF w
  <2>2. 1 .. Len(w) = {1} /\ Len(w) \in Nat
    BY <2>1
  <2>3. page' = Written(pg, w)
    BY <1>2 DEF w
  <2>4. /\ \A i \in 1 .. Len(w) : ShapeOK(w[i])
        /\ \A i \in 1 .. Len(w) : w[i].number = 0 => Len(w[i].links) = 1
    BY <1>3, <2>1, <2>2 DEF ShapeOK
  <2> QED
    BY <2>2, <2>3, <2>4, WrittenPages
<1>14. Filled(V2, U2, {P})
  <2>1. ASSUME NEW n \in U2 \ {P} PROVE Size(V2[n]) \in Least(V2[n]) .. NodesUp
    <3>1. CASE n = a
      BY <1>3, <1>10, <3>1 DEF Least
    <3>2. CASE n # a
      <4>1. n \in U \ {a, b, P}
        BY <1>9, <3>2
      <4>2. V2[n].kind = V[n].kind /\ Size(V2[n]) = Size(V[n])
        BY <1>10, <4>1 DEF Combined
      <4> QED
        BY <4>1, <4>2 DEF Least
    <3> QED
      BY <3>1, <3>2
  <2> QED
    BY <2>1 DEF Filled
<1>15. OrphanOK'
  <2>1. Lasting(page, page')
    BY <1>13 DEF Lasting
  <2> QED
    BY <1>2, <1>12, <2>1, OrphanKept
<1>16. CallOK(U2)'
  <2>1. P \in U2 /\ call'.node.number = P
    BY <1>3, <1>6, <1>9
  <2> QED
    BY <2>1, <1>3, <1>4, <1>6 DEF CallOK
<1>17. TypeOK'
  <2>1. call' \in [op : {"none", "split", "underflow"}, node : Node,
                   key : Keys \union {0}, link : Numbers]
    BY <1>3, <1>6 DEF Numbers
  <2> QED
    BY <1>2, <1>12, <1>13, <2>1 DEF TypeOK, Pages
<1>18. PagesOK'
  BY <1>13 DEF Pages, PagesOK, ShapeOK
<1>19. /\ TreeOf(View', U2, root'.number, kv') /\ Filled(View', U2, Exempt')
       /\ U = used => U2 = used'
  BY <1>7, <1>9, <1>11, <1>12, <1>14
<1> QED
  BY <1>12, <1>15, <1>16, <1>17, <1>18, <1>19, GrownNext

(* What a merge of a and b under P does.                                       *)
Merges(V, W, pg, P, a, b, map) ==
  /\ \E mp, ms, parent, kind :
       /\ mp = W[a] /\ ms = V[b] /\ parent = V[P]
       /\ kind = (IF V[a].kind = "Leaf" THEN "RootLeaf" ELSE "Root")
       /\ Merged(pg, mp, ms, parent, kind)
  /\ kv' = map /\ meta' = meta /\ proc' = proc /\ buffer' = "live"

(* A merge keeps the invariant, whichever end it has.                          *)
LEMMA MergeWritten ==
  ASSUME NEW U, TypeOK, OrphanOK, NEW V, NEW r, r = root.number, root = V[r],
         NEW lo, NEW hi, NEW ht, Tree(V, U, r, lo, hi, ht),
         NEW P, NEW p, NEW a, NEW b, Beside(V, U, P, p, a, b),
         NEW x, x = a \/ x = b, Filled(V, U, {x}),
         NEW W, NEW pg, Pages(pg), Lasting(page, pg),
         Combined(V, W, U, pg, P, a, b),
         NEW map \in [Keys -> Values \union {Absent}], TreeOf(W, U \ {b}, r, map),
         Merges(V, W, pg, P, a, b, map)
  PROVE  Goes(U)
<1>0. PICK mp, ms, parent, kind :
        /\ mp = W[a] /\ ms = V[b] /\ parent = V[P]
        /\ kind = (IF V[a].kind = "Leaf" THEN "RootLeaf" ELSE "Root")
        /\ Merged(pg, mp, ms, parent, kind)
  BY DEF Merges
<1>d. kv' = map /\ meta' = meta /\ proc' = proc /\ buffer' = "live"
  BY DEF Merges
<1>1. Merging(V, W, U, pg, r, P, a, b)
  BY MergingIs
<1>2. PICK less : less = DeleteKeyIntermediate(parent, a)
  OBVIOUS
<1>3. a = mp.number /\ b = ms.number /\ P = parent.number /\ less = W[P]
  <2>1. ms.number = b /\ parent.number = P
    <3>1. b \in U /\ P \in U
      BY <1>1 DEF Merging
    <3> QED
      BY <1>0, <3>1, TreePage
  <2> QED
    BY <1>0, <1>2, <2>1 DEF Combined, MergedPages
<1>4. \/ Size(parent) = 1 /\ used' = used \ {b, P} /\ Collapses(pg, mp, P, kind)
      \/ /\ Size(parent) # 1 /\ (Size(parent) > NodesDown \/ parent.kind = "Root")
         /\ used' = used \ {b} /\ Shortens(pg, mp, less)
      \/ /\ Size(parent) # 1 /\ Size(parent) <= NodesDown /\ parent.kind # "Root"
         /\ used' = used \ {b} /\ Passes(pg, mp, less)
  BY <1>0, <1>2, <1>3, MergedEnds
<1>5. CASE Size(parent) = 1 /\ used' = used \ {b, P} /\ Collapses(pg, mp, P, kind)
  BY <1>0, <1>d, <1>1, <1>5, CollapsesKeeps
<1>6. CASE /\ Size(parent) # 1 /\ (Size(parent) > NodesDown \/ parent.kind = "Root")
           /\ used' = used \ {b} /\ Shortens(pg, mp, less)
  BY <1>0, <1>d, <1>1, <1>3, <1>6, ShortensKeeps
<1>7. CASE /\ Size(parent) # 1 /\ Size(parent) <= NodesDown /\ parent.kind # "Root"
           /\ used' = used \ {b} /\ Passes(pg, mp, less)
  BY <1>0, <1>d, <1>1, <1>3, <1>7, PassesKeeps
<1> QED
  BY <1>4, <1>5, <1>6, <1>7

(* A merge of n and its sibling into mp: the pages W that it makes of V, of    *)
(* which pg holds all but mp and the parent.                                   *)
Combines(U, n, pg, map, V, W, r, x, t, P, a, b, mp) ==
  /\ Lacks(U, n, map, V, r, x, t, P, a, b)
  /\ Inorder(V[x], V[t]) = <<V[a], V[b]>> /\ W[a] = mp
  /\ Combined(V, W, U, pg, P, a, b) /\ TreeOf(W, U \ {b}, r, map)
  /\ Pages(pg) /\ Lasting(page, pg) /\ TypeOK /\ OrphanOK
  /\ Merges(V, W, pg, P, a, b, map)

(* A merge keeps the invariant.                                                *)
LEMMA CombinesKeeps ==
  ASSUME NEW U, NEW n, NEW pg, NEW map, NEW V, NEW W, NEW r, NEW x, NEW t, NEW P,
         NEW a, NEW b, NEW mp, Combines(U, n, pg, map, V, W, r, x, t, P, a, b, mp)
  PROVE  Goes(U)
<1>1. Lacks(U, n, map, V, r, x, t, P, a, b)
  BY DEF Combines
<1>2. PICK lo, hi, ht : Lacking(V, U, r, lo, hi, ht, x, P, map)
  BY <1>1 DEF Lacks
<1>3. PICK c : Beside(V, U, P, c, a, b) /\ Siblings(x, t, a, b)
  BY <1>1 DEF Lacks
<1>4. /\ r = root.number /\ root = V[r] /\ map \in [Keys -> Values \union {Absent}]
      /\ (x = a \/ x = b) /\ Filled(V, U, {x}) /\ Tree(V, U, r, lo, hi, ht)
  BY <1>1, <1>2, <1>3 DEF Lacks, Lacking, Siblings
<1>5. /\ Combined(V, W, U, pg, P, a, b) /\ TreeOf(W, U \ {b}, r, map)
      /\ Pages(pg) /\ Lasting(page, pg) /\ TypeOK /\ OrphanOK
      /\ Merges(V, W, pg, P, a, b, map)
  BY DEF Combines
<1> QED
  BY <1>3, <1>4, <1>5, MergeWritten

(* What a deletion does that merges two leaves.                               *)
LEMMA DeleteMergingIs ==
  ASSUME NEW U, InvOf(U), NEW k \in Keys, DeleteMerging(k),
         NEW n, n = DeleteKeyLeaf(Leaf(k), k),
         NEW q, q = MergedLeaves(n, SiblingOf(Leaf(k)))
  PROVE  \E V, W, r, x, t, P, a, b :
           /\ Combines(U, n, page, With(kv, k, Absent), V, W, r, x, t, P, a, b, q)
           /\ Leaf(k) = page[x] /\ page[x].number = x /\ page[x].parent = P
<1>1. PICK s, d, o : /\ s = SiblingOf(Leaf(k)) /\ d = DeleteKeyLeaf(Leaf(k), k)
                     /\ o = Inorder(d, s)
  OBVIOUS
<1>2. PICK mp, ms, parent : mp = MergeLeaves(o[1], o[2]) /\ ms = o[2] /\ parent = ParentOf(Leaf(k))
  OBVIOUS
<1>3. /\ Underflows(k) /\ Size(s) = NodesDown /\ Merged(page, mp, ms, parent, "RootLeaf")
      /\ kv' = With(kv, k, Absent)
      /\ meta' = meta /\ proc' = proc /\ buffer' = buffer
  BY <1>1, <1>2 DEF DeleteMerging, MergedLeaves, Map!Remove, With
<1>4. Called
  BY <1>3 DEF Underflows
<1>5. PICK lo, hi, ht : Standing(U, lo, hi, ht)
  BY <1>4, CalledStanding
<1>6. TypeOK /\ Pages(page) /\ buffer = "live"
  BY <1>4, CalledStanding DEF Called
<1>7. PICK x : LeafOf(U, x, lo, hi, k)
  BY <1>5, LeafIs
<1>8. x \in Numbers
  BY <1>5, <1>7, TreeNumbers DEF LeafOf, Standing
<1>9. PICK V : Dropped(V, x, k)
  BY <1>8, DroppedExists
<1>10. PICK r, P, map : r = root.number /\ P = page[x].parent /\ map = With(kv, k, Absent)
  OBVIOUS
<1>11. /\ Lacking(V, U, r, lo, hi, ht, x, P, map)
       /\ root = V[r] /\ Leaf(k) = page[x] /\ page[x].number = x
       /\ V[x] = DeleteKeyLeaf(Leaf(k), k) /\ V[x].kind = "Leaf"
       /\ \A j \in U \ {x} : V[j] = page[j]
  BY <1>3, <1>5, <1>6, <1>7, <1>9, <1>10, UnderflowIs
<1>12. PICK t : t = FindSibling(page, V[P], x)
  OBVIOUS
<1>13. Neighboured(V, U, r, x, P, t)
  BY <1>11, <1>12, UnderflowSibling
<1>14. t \in U /\ t # x /\ V[t] \in Node
  BY <1>13 DEF Neighboured
<1>15. /\ x \in U /\ r \in U /\ P \in U /\ P # x /\ V[x] \in Node
       /\ Size(V[x]) = NodesDown - 1
       /\ Tree(V, U, r, lo, hi, ht) /\ Holds(V, U, lo, hi, map) /\ Filled(V, U, {x})
  BY <1>11 DEF Lacking
<1>16. d = V[x] /\ V[P] = page[P] /\ s = V[t] /\ parent = V[P]
  BY <1>1, <1>2, <1>10, <1>11, <1>12, <1>14, <1>15 DEF SiblingOf, ParentOf
<1>17. PICK c, a, b : Beside(V, U, P, c, a, b) /\ Siblings(x, t, a, b)
  BY <1>13 DEF Neighboured
<1>18. /\ a \in U /\ b \in U /\ a # b /\ a # r /\ b # r /\ a # P /\ b # P
       /\ V[a].kind = V[b].kind /\ (x = a \/ x = b)
  BY <1>15, <1>17, BesideAre DEF Siblings
<1>19. V[a].kind = "Leaf" /\ V[a].kind \in Leaves
  BY <1>11, <1>18, Kinds
<1>20. /\ Size(V[a]) >= 1 /\ Size(V[b]) >= 1
       /\ Size(V[a]) + Size(V[b]) \in NodesDown .. NodesUp
  <2>1. \/ Size(V[a]) = NodesDown - 1 /\ Size(V[b]) = NodesDown
        \/ Size(V[b]) = NodesDown - 1 /\ Size(V[a]) = NodesDown
    BY <1>3, <1>15, <1>16, <1>17 DEF Siblings
  <2> QED
    BY <2>1, NodesDownIs
<1>21. ms = V[b] /\ mp = MergeLeaves(V[a], V[b])
  <2>1. Siblings(d, s, V[a], V[b])
    BY <1>16, <1>17 DEF Siblings
  <2>2. Inorder(d, s)[1] = V[a] /\ Inorder(d, s)[2] = V[b]
    BY <1>15, <1>17, <1>20, <2>1, InorderBeside
  <2> QED
    BY <1>1, <1>2, <2>2
<1> DEFINE W0 == [j \in U |-> IF j = a THEN mp
                                 ELSE IF j = P THEN DeleteKeyIntermediate(V[P], a) ELSE V[j]]
<1>22. PICK W : W = W0
  OBVIOUS
<1>23. /\ W[a] = mp /\ W[P] = DeleteKeyIntermediate(V[P], a)
       /\ \A j \in U \ {a, b, P} : W[j] = V[j]
  BY <1>15, <1>18, <1>22
<1> HIDE DEF W0
<1>24. MergesLeaves(V, W, U, P, a, b)
  BY <1>21, <1>23 DEF MergesLeaves
<1>25. /\ TreeOf(W, U \ {b}, r, map) /\ MergedPages(V, W, P, a, b)
       /\ Size(W[a]) = Size(V[a]) + Size(V[b])
  <2>1. /\ Tree(V, U, r, lo, hi, ht) /\ Holds(V, U, lo, hi, map)
        /\ Beside(V, U, P, c, a, b) /\ V[a].kind \in Leaves
    BY <1>15, <1>17, <1>19
  <2> QED
    BY <1>24, <2>1, LeavesMergeTree
<1>26. Combined(V, W, U, page, P, a, b)
  <2>1. P # root.number => W[root.number] = V[root.number]
    BY <1>10, <1>15, <1>18, <1>23
  <2>2. \A j \in U \ {a, b, P} : page[j] = V[j]
    BY <1>11, <1>18
  <2> QED
    BY <1>16, <1>20, <1>23, <1>25, <2>1, <2>2 DEF Combined
<1>27. map \in [Keys -> Values \union {Absent}]
  BY <1>6, <1>10 DEF TypeOK, With
<1>28. /\ Filled(V, U, {x}) /\ Tree(V, U, r, lo, hi, ht) /\ root = V[r]
       /\ Beside(V, U, P, c, a, b) /\ kv' = map
  BY <1>3, <1>10, <1>11, <1>15, <1>17
<1>29. Merges(V, W, page, P, a, b, map)
  BY <1>3, <1>6, <1>10, <1>16, <1>19, <1>21, <1>23 DEF Merges
<1>30. TreeOf(W, U \ {b}, r, map) /\ (x = a \/ x = b) /\ Pages(page) /\ TypeOK
  BY <1>6, <1>18, <1>25
<1>31. Lasting(page, page) /\ OrphanOK
  BY <1>5 DEF Standing, Lasting
<1>32. Lacks(U, n, map, V, r, x, t, P, a, b)
  BY <1>1, <1>10, <1>11, <1>12, <1>16, <1>17, <1>27 DEF Lacks
<1>33. Inorder(V[x], V[t]) = <<V[a], V[b]>> /\ W[a] = q
  <2>1. Siblings(V[x], V[t], V[a], V[b])
    BY <1>17 DEF Siblings
  <2>2. q = mp
    BY <1>1, <1>2 DEF MergedLeaves
  <2> QED
    BY <1>15, <1>17, <1>20, <1>23, <2>1, <2>2, InorderBeside
<1>34. Combines(U, n, page, map, V, W, r, x, t, P, a, b, q)
  BY <1>26, <1>29, <1>30, <1>31, <1>32, <1>33 DEF Combines
<1> QED
  BY <1>10, <1>11, <1>34

(* A deletion that merges two leaves keeps the invariant.                     *)
LEMMA DeleteMergingKeeps ==
  ASSUME NEW U, InvOf(U), NEW k \in Keys, DeleteMerging(k)
  PROVE  Goes(U)
BY DeleteMergingIs, CombinesKeeps

(* What a merge of two inner pages does.                                      *)
LEMMA MergeNodeIs ==
  ASSUME NEW U, InvOf(U), MergeNode, NEW q, q = MergedNodes(call.node, SiblingOf(call.node))
  PROVE  \E V, W, r, x, t, P, a, b, wp :
           /\ Combines(U, call.node, wp, kv, V, W, r, x, t, P, a, b, q)
           /\ wp = WriteParents(page, q) /\ q.kind \in Interiors
<1>1. PICK s, o, parent : /\ s = SiblingOf(call.node) /\ o = Inorder(call.node, s)
                          /\ parent = ParentOf(call.node)
  OBVIOUS
<1>2. PICK mp, ms : mp = MergeNodes(o[1], KeyBehind(parent, o[1].number), o[2]) /\ ms = o[2]
  OBVIOUS
<1>3. PICK pg : pg = WriteParents(page, mp)
  OBVIOUS
<1>4. /\ Pending("underflow") /\ Size(s) = NodesDown /\ Merged(pg, mp, ms, parent, "Root")
      /\ kv' = kv /\ meta' = meta /\ proc' = proc /\ buffer' = buffer
  BY <1>1, <1>2, <1>3 DEF MergeNode, MergedNodes
<1>5. proc = "running" /\ call # Idle
  BY <1>4 DEF Pending, Idle
<1>6. PICK lo, hi, ht : Climbing(U, lo, hi, ht)
  BY <1>5, PendingClimbing
<1>7. TypeOK /\ Pages(page) /\ buffer = "live"
  BY <1>5, PendingClimbing
<1>8. PICK r, x, P, V : r = root.number /\ x = call.node.number /\ P = call.node.parent /\ V = View
  OBVIOUS
<1>9. /\ Lacking(V, U, r, lo, hi, ht, x, P, kv)
      /\ root = V[r] /\ V[x] = call.node /\ V[x].kind = "Intermediate"
      /\ \A n \in U \ {x} : V[n] = page[n]
  BY <1>4, <1>6, <1>8, NodeUnderflowIs
<1>10. PICK t : t = FindSibling(page, V[P], x)
  OBVIOUS
<1>11. Neighboured(V, U, r, x, P, t)
  BY <1>9, <1>10, UnderflowSibling
<1>12. t \in U /\ t # x
  BY <1>11 DEF Neighboured
<1>13. /\ x \in U /\ r \in U /\ P \in U /\ P # x
       /\ V[x].number = x /\ Size(V[x]) = NodesDown - 1
       /\ Tree(V, U, r, lo, hi, ht) /\ Holds(V, U, lo, hi, kv) /\ Filled(V, U, {x})
  BY <1>9 DEF Lacking
<1>14. V[P] = page[P] /\ s = V[t] /\ parent = V[P]
  BY <1>1, <1>8, <1>9, <1>10, <1>12, <1>13 DEF SiblingOf, ParentOf
<1>15. PICK c, a, b : Beside(V, U, P, c, a, b) /\ Siblings(x, t, a, b)
  BY <1>11 DEF Neighboured
<1>16. /\ a \in U /\ b \in U /\ a # b /\ a # r /\ b # r /\ a # P /\ b # P
       /\ V[a].kind = V[b].kind /\ (x = a \/ x = b) /\ V[a].number = a
  BY <1>13, <1>15, BesideAre DEF Siblings
<1>17. V[a].kind = "Intermediate" /\ V[a].kind \in Interiors
  BY <1>9, <1>16, Kinds
<1>18. /\ Size(V[a]) >= 1 /\ Size(V[b]) >= 1
       /\ Size(V[a]) + Size(V[b]) + 1 \in NodesDown .. NodesUp
  <2>1. \/ Size(V[a]) = NodesDown - 1 /\ Size(V[b]) = NodesDown
        \/ Size(V[b]) = NodesDown - 1 /\ Size(V[a]) = NodesDown
    BY <1>4, <1>13, <1>14, <1>15 DEF Siblings
  <2> QED
    BY <2>1, NodesDownIs
<1>19. ms = V[b] /\ mp = MergeNodes(V[a], KeyBehind(V[P], a), V[b])
  <2>1. Siblings(call.node, s, V[a], V[b])
    BY <1>9, <1>14, <1>15 DEF Siblings
  <2>2. PICK n : n = call.node
    OBVIOUS
  <2>3. Inorder(n, s)[1] = V[a] /\ Inorder(n, s)[2] = V[b]
    BY <1>13, <1>15, <1>18, <2>1, <2>2, InorderBeside
  <2> QED
    BY <1>1, <1>2, <1>14, <1>16, <2>2, <2>3
<1>20. \A n \in U : V[n] \in Node
  BY <1>13, TreePage
<1> DEFINE W0 == [n \in U |-> IF n = a THEN mp
                                 ELSE IF n = P THEN DeleteKeyIntermediate(V[P], a)
                                 ELSE IF n \in Under(mp) THEN [V[n] EXCEPT !.parent = a]
                                 ELSE V[n]]
<1>21. PICK W : W = W0
  OBVIOUS
<1>22. /\ W[a] = mp /\ W[P] = DeleteKeyIntermediate(V[P], a)
       /\ \A n \in U \ {a, b, P} :
            W[n] = IF n \in Under(mp) THEN [V[n] EXCEPT !.parent = a] ELSE V[n]
  BY <1>13, <1>16, <1>21
<1> HIDE DEF W0
<1>23. MergesNodes(V, W, U, P, a, b)
  BY <1>19, <1>22 DEF MergesNodes
<1>24. /\ TreeOf(W, U \ {b}, r, kv) /\ MergedPages(V, W, P, a, b)
       /\ Size(W[a]) = Size(V[a]) + Size(V[b]) + 1
  BY <1>13, <1>15, <1>17, <1>23, NodesMergeTree
<1>25. mp \in Node /\ Shape(mp) /\ mp.kind \in Interiors /\ mp.number = a
  BY <1>17, <1>22, <1>24 DEF MergedPages
<1>26. /\ pg \in [Numbers -> Node] /\ Pages(pg) /\ Lasting(page, pg)
       /\ \A n \in Numbers :
            pg[n] = IF n \in Under(mp) THEN [page[n] EXCEPT !.parent = mp.number] ELSE page[n]
  <2>1. page \in [Numbers -> Node]
    BY <1>7 DEF TypeOK
  <2>2. PICK U2 : U2 = U \ {b}
    OBVIOUS
  <2>3. PICK l2, h2, t2 \in [Numbers -> Nat] : Tree(W, U2, r, l2, h2, t2)
    BY <1>24, <2>2 DEF TreeOf
  <2>4. ASSUME NEW n \in Under(mp) PROVE page[n].number = n
    <3>1. a \in U2 /\ a # r
      BY <1>16, <2>2
    <3>2. n \in U2 /\ n # r /\ W[n].parent = a
      BY <1>22, <2>3, <2>4, <3>1, UnderIs
    <3>3. n # a
      BY <2>3, <3>2, TreeParent
    <3>4. n \in U /\ n # b /\ n # x
      BY <1>16, <2>2, <3>2, <3>3
    <3> QED
      BY <1>9, <1>13, <3>4, TreePage
  <2> QED
    BY <1>3, <1>7, <1>25, <2>1, <2>4, WriteParentsIs, WriteParentsPages
<1>27. \A n \in U : n \in Numbers
  BY <1>13, TreeNumbers
<1>28. ASSUME NEW n \in U \ {a, b, P}
       PROVE  pg[n] = W[n] /\ W[n].kind = V[n].kind /\ Size(W[n]) = Size(V[n])
  <2>1. n \in Numbers /\ V[n] = page[n] /\ V[n] \in Node
    BY <1>9, <1>16, <1>20, <1>27
  <2>2. pg[n] = W[n]
    BY <1>22, <1>25, <1>26, <2>1
  <2> QED
    BY <1>22, <2>1, <2>2 DEF Node, Size
<1>29. P # r => W[r] = V[r]
  <2>1. r \in U \ {b}
    BY <1>13, <1>16
  <2>2. PICK U2 : U2 = U \ {b}
    OBVIOUS
  <2>3. PICK l2, h2, t2 \in [Numbers -> Nat] : Tree(W, U2, r, l2, h2, t2)
    BY <1>24, <2>2 DEF TreeOf
  <2>4. a \in U2
    BY <1>16, <2>2
  <2>5. r \notin Under(W[a])
    BY <2>3, <2>4, UnderIs
  <2> QED
    BY <1>13, <1>16, <1>22, <2>5
<1>30. pg[P].kind = V[P].kind
  <2>1. P \in Numbers /\ page[P] \in Node /\ pg[P] \in Node
    BY <1>7, <1>13, <1>26, <1>27 DEF TypeOK
  <2> QED
    BY ZenonT(60), <1>14, <1>26, <2>1 DEF Node
<1>31. Combined(V, W, U, pg, P, a, b)
  BY <1>8, <1>18, <1>22, <1>24, <1>28, <1>29, <1>30 DEF Combined
<1>32. kv \in [Keys -> Values \union {Absent}]
  BY <1>7 DEF TypeOK
<1>33. /\ Filled(V, U, {x}) /\ Tree(V, U, r, lo, hi, ht) /\ root = V[r]
       /\ Beside(V, U, P, c, a, b) /\ Pages(pg)
  BY <1>9, <1>13, <1>15, <1>26
<1>34. Merges(V, W, pg, P, a, b, kv)
  BY <1>4, <1>7, <1>14, <1>17, <1>19, <1>22 DEF Merges
<1>35. TreeOf(W, U \ {b}, r, kv) /\ (x = a \/ x = b) /\ TypeOK
  BY <1>7, <1>16, <1>24
<1>36. Lasting(page, pg) /\ OrphanOK
  BY <1>6, <1>26 DEF Climbing
<1>37. Lacks(U, call.node, kv, V, r, x, t, P, a, b)
  BY <1>8, <1>9, <1>10, <1>15, <1>32 DEF Lacks
<1>38. q = mp
  BY <1>1, <1>2 DEF MergedNodes
<1>39. Inorder(V[x], V[t]) = <<V[a], V[b]>> /\ W[a] = q
  <2>1. Siblings(V[x], V[t], V[a], V[b])
    BY <1>15 DEF Siblings
  <2> QED
    BY <1>13, <1>15, <1>18, <1>22, <1>38, <2>1, InorderBeside
<1>40. Combines(U, call.node, pg, kv, V, W, r, x, t, P, a, b, q)
  BY <1>26, <1>31, <1>34, <1>35, <1>36, <1>37, <1>39 DEF Combines
<1> QED
  BY <1>3, <1>25, <1>38, <1>40

(* A merge of two inner pages keeps the invariant.                            *)
LEMMA MergeNodeKeeps ==
  ASSUME NEW U, InvOf(U), MergeNode
  PROVE  Goes(U)
BY MergeNodeIs, CombinesKeeps

-------------------------------------------------------------------------------
(* The invariant *)

(* Closing and opening the database keeps the invariant.                      *)
LEMMA ReopenKeeps ==
  ASSUME NEW U, InvOf(U), Reopen
  PROVE  Goes(U)
<1>1. PICK m : m = Head(page[0].links)
  OBVIOUS
<1>2. /\ proc = "running" /\ call = Idle /\ meta' = m
      /\ root' = (IF m = 0 THEN Blank ELSE page[m])
      /\ buffer' \in (IF m = 0 THEN {"null", "wild"} ELSE {"live"})
      /\ proc' = IF m = root.number THEN "running" ELSE "staleRoot"
      /\ page' = page /\ used' = used /\ call' = call /\ kv' = kv
  BY <1>1 DEF Reopen
<1>3. TypeOK /\ PagesOK /\ (EmptyOf(U) \/ GrownOf(U))
  BY <1>2 DEF InvOf
<1>4. page[0] \in Node /\ Len(page[0].links) = 1
  BY <1>3 DEF TypeOK, PagesOK, Numbers
<1>5. m \in Numbers
  BY <1>1, <1>4, NodeFields
<1>6. TypeOK'
  <2>1. root' \in Node
    BY <1>2, <1>3, <1>5, BlankIs DEF TypeOK
  <2> QED
    BY <1>2, <1>3, <1>5, <2>1 DEF TypeOK
<1>7. CASE m # root.number
  BY <1>2, <1>6, <1>7, StoppedNext
<1>8. CASE m = root.number /\ EmptyOf(U)
  <2>1. m = 0
    BY <1>8, BlankIs DEF EmptyOf
  <2>2. EmptyOf(U)'
    BY <1>2, <1>8, <2>1 DEF EmptyOf, NewPages
  <2>3. PagesOK'
    BY <1>2, <1>3 DEF PagesOK
  <2> QED
    <3>1. InvOf(U)'
      BY <1>6, <2>2, <2>3 DEF InvOf
    <3> QED
      BY <1>2, <3>1 DEF Goes
<1>9. CASE m = root.number /\ GrownOf(U)
  <2>1. PICK lo, hi, ht : GrownWith(U, lo, hi, ht)
    BY <1>9 DEF GrownOf
  <2>2. View = page /\ Exempt = {}
    BY <1>2, <1>3, IdleView
  <2>3. /\ Tree(page, U, m, lo, hi, ht) /\ Holds(page, U, lo, hi, kv)
        /\ Filled(page, U, {}) /\ root = page[m] /\ OrphanOK
    BY <1>9, <2>1, <2>2 DEF GrownWith
  <2>4. m \in PageNums /\ m # 0
    BY <2>3, BTreeAssumption, BTreeNodeAssumption DEF Tree, RootOK
  <2>5. root' = root /\ buffer' = "live"
    BY <1>2, <2>3, <2>4
  <2>6. TreeOf(page, U, m, kv)
    BY <2>3, TreeOfIs
  <2>7. OrphanOK'
    BY <1>2, <2>3, <2>5 DEF OrphanOK
  <2>8. Pages(page')
    BY <1>2, <1>3 DEF TypeOK, PagesOK, Pages, ShapeOK
  <2>9. /\ root' = page'[root'.number] /\ TreeOf(page', U, root'.number, kv')
        /\ Filled(page', U, {}) /\ (U = used => U = used')
    BY <1>2, <1>9, <2>3, <2>5, <2>6
  <2> QED
    BY <1>2, <1>6, <2>5, <2>7, <2>8, <2>9, IdleNext
<1> QED
  BY <1>3, <1>7, <1>8, <1>9

(* Undefined behaviour ends what the invariant says of the process.           *)
LEMMA UndefinedKeeps ==
  ASSUME NEW U, InvOf(U), Undefined
  PROVE  Goes(U)
<1>1. TypeOK'
  BY DEF InvOf, Undefined, TypeOK
<1> QED
  BY <1>1, StoppedNext DEF Undefined

(* A step that changes nothing keeps the invariant.                           *)
LEMMA StutterKeeps ==
  ASSUME NEW U, InvOf(U), UNCHANGED vars
  PROVE  Goes(U)
<1>1. /\ page' = page /\ root' = root /\ buffer' = buffer /\ meta' = meta
      /\ used' = used /\ call' = call /\ kv' = kv /\ proc' = proc
  BY DEF vars
<1>2. TypeOK' = TypeOK /\ PagesOK' = PagesOK /\ EmptyOf(U)' = EmptyOf(U)
  BY <1>1 DEF TypeOK, PagesOK, EmptyOf
<1>3. GrownOf(U)' = GrownOf(U)
  BY <1>1 DEF GrownOf, GrownWith, View, PendingNode, Exempt, CallOK, OrphanOK
<1>4. InvOf(U)'
  BY <1>1, <1>2, <1>3 DEF InvOf
<1> QED
  BY <1>1, <1>4 DEF Goes

(* A new database meets the invariant.                                        *)
LEMMA InitInv ==
  ASSUME Init
  PROVE  Inv
<1>1. /\ page = NewPages /\ root = Blank /\ buffer \in {"null", "wild"} /\ meta = 0
      /\ used = {} /\ call = Idle /\ kv = [k \in Keys |-> Absent] /\ proc = "running"
  BY DEF Init
<1>2. 0 \in Numbers /\ MetaPage(0) \in Node /\ Blank \in Node
  BY BlankIs, MetaIs DEF Numbers
<1>3. /\ page \in [Numbers -> Node] /\ page[0] = MetaPage(0)
      /\ \A n \in Numbers : n # 0 => page[n] = Blank
  BY <1>1, <1>2 DEF Numbers, NewPages
<1>4. Idle \in [op : {"none", "split", "underflow"}, node : Node,
                key : Keys \union {0}, link : Numbers]
  BY <1>2 DEF Idle
<1>5. TypeOK
  BY <1>1, <1>2, <1>3, <1>4 DEF TypeOK
<1>6. PagesOK
  BY <1>2, <1>3, BlankIs, MetaIs DEF PagesOK, ShapeOK, Interiors
<1>7. EmptyOf(used)
  BY <1>1 DEF EmptyOf
<1> QED
  BY <1>5, <1>6, <1>7 DEF Inv, InvOf

(* Every step keeps the invariant.                                            *)
LEMMA NextKeeps ==
  ASSUME NEW U, InvOf(U), Fresh(U), [Next]_vars
  PROVE  Goes(U)
<1>1. ASSUME NEW k \in Keys, Delete(k) PROVE Goes(U)
  BY <1>1, DeleteFromLeafKeeps, DeleteRedistributingKeeps, DeleteMergingKeeps DEF Delete
<1>2. ASSUME NEW k \in Keys, NEW v \in Values, Insert(k, v) PROVE Goes(U)
  <2>1. CASE InsertFirst(k, v)
    BY <2>1, InsertFirstKeeps
  <2>2. CASE InsertExisting(k, v)
    BY <2>2, InsertExistingKeeps
  <2>3. CASE InsertWithRoom(k, v)
    BY <2>3, InsertWithRoomKeeps
  <2>4. CASE InsertSplittingRootLeaf(k, v)
    BY <2>4, SplittingRootLeafKeeps
  <2>5. CASE InsertSplittingLeaf(k, v)
    BY <2>5, SplittingLeafKeeps
  <2>6. CASE InsertSplittingDeep(k, v)
    BY <2>6, SplittingDeepKeeps
  <2> QED
    BY <1>2, <2>1, <2>2, <2>3, <2>4, <2>5, <2>6 DEF Insert
<1>3. CASE Climb
  <2>1. CASE SplitNode
    BY <2>1, SplitNodeKeeps
  <2>2. CASE SplitRoot
    BY <2>2, SplitRootKeeps
  <2>3. CASE RedistributeNode
    BY <2>3, RedistributeNodeKeeps
  <2>4. CASE MergeNode
    BY <2>4, MergeNodeKeeps
  <2> QED
    BY <1>3, <2>1, <2>2, <2>3, <2>4 DEF Climb
<1>4. CASE Reopen
  BY <1>4, ReopenKeeps
<1>5. CASE Undefined
  BY <1>5, UndefinedKeeps
<1>6. CASE UNCHANGED vars
  BY <1>6, StutterKeeps
<1> QED
  BY <1>1, <1>2, <1>3, <1>4, <1>5, <1>6 DEF Next

(* In every reachable state the pages in use are a search tree of the right    *)
(* occupancy that holds the map, for some bounds and heights.                  *)
THEOREM TreeInvariant == Spec => []Inv
<1>1. Init => Inv
  BY InitInv
<1>2. Inv /\ [Next]_vars => Inv'
  <2> SUFFICES ASSUME Inv, [Next]_vars PROVE Inv'
    OBVIOUS
  <2>1. PICK U : U = used
    OBVIOUS
  <2>2. InvOf(U) /\ Fresh(U)
    BY <2>1 DEF Inv, Fresh
  <2>3. PICK U2 : InvOf(U2)' /\ U2 = used'
    BY <2>1, <2>2, NextKeeps DEF Goes
  <2> QED
    BY <2>3 DEF Inv
<1> QED
  BY <1>1, <1>2, PTL DEF Spec

(* Pages, root copy, page index and map have their types.                      *)
THEOREM TreeTypeCorrect == Spec => []TypeOK
<1>1. Inv => TypeOK
  BY DEF Inv, InvOf
<1> QED
  BY <1>1, TreeInvariant, PTL

(* In every reachable state, in the middle of a climbing split or merge too,   *)
(* the bounds and heights that a walk from the root shows make the pages in use*)
(* a search tree that holds the map.                                           *)
THEOREM WalkShowsTree == Spec => []TreeKept
<1>1. Inv => TreeKept
  BY InvTreeKept
<1> QED
  BY <1>1, TreeInvariant, PTL

(* bt_search finds the latest value of every key and no deleted key, at every  *)
(* step of every insertion and deletion.                                       *)
THEOREM SearchFindsMap == Spec => []ContentsKept
<1>1. Inv => ContentsKept
  BY InvContentsKept DEF Inv
<1> QED
  BY <1>1, TreeInvariant, PTL

(* Between calls db->root is the page that a read of its number finds.         *)
THEOREM RootIsCurrent == Spec => []RootCopy
<1>1. Inv => RootCopy
  BY InvRootCopy DEF Inv
<1> QED
  BY <1>1, TreeInvariant, PTL

(* Between calls the page index marks exactly the pages of the tree: no call   *)
(* leaks a page, frees one in use or links one twice.                          *)
THEOREM IndexMarksTree == Spec => []IndexExact
<1>1. Inv => IndexExact
  BY InvIndexExact
<1> QED
  BY <1>1, TreeInvariant, PTL

(* Keys ascend within the bounds that a search establishes on its way down.    *)
THEOREM KeysAscend == Spec => []SearchOrder
<1>1. Inv => SearchOrder
  BY InvSearchOrder DEF Inv
<1> QED
  BY <1>1, TreeInvariant, PTL

(* Children name the page that links to them as their parent.                  *)
THEOREM ParentsKnown == Spec => []ParentLinks
<1>1. Inv => ParentLinks
  BY InvParentLinks DEF Inv
<1> QED
  BY <1>1, TreeInvariant, PTL

(* No page but the root is less than half full, and none is over-full.         *)
THEOREM PagesHalfFull == Spec => []Occupancy
<1>1. Inv => Occupancy
  BY InvOccupancy DEF Inv
<1> QED
  BY <1>1, TreeInvariant, PTL

(* All leaves are on one level.                                                *)
THEOREM LeavesLevel == Spec => []Balanced
<1>1. Inv => Balanced
  BY InvBalanced DEF Inv
<1> QED
  BY <1>1, TreeInvariant, PTL

-------------------------------------------------------------------------------
(* The map *)

(* A step changes the value of one key at most.                               *)
LEMMA MapStep ==
  ASSUME [Next]_vars
  PROVE  kv' = kv \/ \E k \in Keys, v \in Values \union {Absent} : kv' = With(kv, k, v)
<1>1. ASSUME NEW k \in Keys, Delete(k)
      PROVE  kv' = With(kv, k, Absent)
  BY <1>1 DEF Delete, DeleteFromLeaf, DeleteRedistributing, DeleteMerging, Map!Remove, With
<1>2. ASSUME NEW k \in Keys, NEW v \in Values, Insert(k, v)
      PROVE  kv' = With(kv, k, v)
  BY <1>2 DEF Insert, InsertFirst, InsertExisting, InsertWithRoom, InsertSplittingRootLeaf,
              InsertSplittingLeaf, InsertSplittingDeep, Map!Put, With
<1>3. CASE Climb
  BY <1>3 DEF Climb, SplitNode, SplitRoot, RedistributeNode, MergeNode
<1>4. CASE Reopen \/ Undefined \/ UNCHANGED vars
  BY <1>4 DEF Reopen, Undefined, vars
<1> QED
  BY <1>1, <1>2, <1>3, <1>4 DEF Next

(* The tree implements the map of KVStore: each insertion and each deletion of *)
(* a key appears as one change of what searches find, and no other step of the *)
(* library, the steps of a split or merge that climbs included, changes that.  *)
THEOREM TreeImplementsMap == Spec => RefinesMap
<1> DEFINE S == Found
<1>1. Inv => S = kv
  BY InvContents DEF Inv, Found
<1>2. Inv' => (S = kv)'
  BY <1>1, PTL
<1>3. Init => Store!StoreInit
  <2> SUFFICES ASSUME Init PROVE Store!StoreInit
    OBVIOUS
  <2>1. S = kv
    BY <1>1, InitInv
  <2> QED
    BY <2>1 DEF Store!StoreInit, Init
<1>4. Inv /\ Inv' /\ [Next]_vars => [Store!StoreNext]_S
  <2> SUFFICES ASSUME Inv, Inv', [Next]_vars, S' # S PROVE Store!StoreNext
    OBVIOUS
  <2>1. S = kv /\ S' = kv'
    BY <1>1, <1>2
  <2> HIDE DEF S
  <2>2. PICK k \in Keys, v \in Values \union {Absent} : kv' = With(kv, k, v)
    BY <2>1, MapStep
  <2>3. kv \in [Keys -> Values \union {Absent}]
    BY DEF Inv, InvOf, TypeOK
  <2> DEFINE changed == {x \in Keys : S'[x] # S[x]}
  <2>4. \A x \in changed : x = k /\ S'[x] \in Values \union {Absent}
    BY <2>1, <2>2, <2>3 DEF With
  <2> QED
    BY <2>4 DEF Store!StoreNext, S
<1>5. Inv /\ Inv' /\ [Next]_vars => [call # Idle => UNCHANGED S]_vars
  <2> SUFFICES ASSUME Inv, Inv', [Next]_vars, vars' # vars, call # Idle PROVE S' = S
    OBVIOUS
  <2>1. Climb
    <3>1. ASSUME NEW k \in Keys, Delete(k) PROVE FALSE
      BY <3>1 DEF Delete, DeleteFromLeaf, DeleteRedistributing, DeleteMerging,
                  Underflows, Called
    <3>2. ASSUME NEW k \in Keys, NEW v \in Values, Insert(k, v) PROVE FALSE
      BY <3>2 DEF Insert, InsertFirst, InsertExisting, InsertWithRoom,
                  InsertSplittingRootLeaf, InsertSplittingLeaf, InsertSplittingDeep,
                  NeedsSplit, Called
    <3> QED
      BY <3>1, <3>2 DEF Next, Reopen, Undefined
  <2>2. kv' = kv
    BY <2>1 DEF Climb, SplitNode, SplitRoot, RedistributeNode, MergeNode
  <2> QED
    BY <1>1, <1>2, <2>2
<1> QED
  BY <1>3, <1>4, <1>5, TreeInvariant, PTL DEF Spec, RefinesMap, Store!StoreSpec
==============================================================================
