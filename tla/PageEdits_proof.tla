--------------------------- MODULE PageEdits_proof ----------------------------
(***************************************************************************)
(* The pages that the tree edits stay in order, and laid out like their    *)
(* nodes.  A redistribution or a merge moves the cut between two pages of  *)
(* one sequence of entries by one entry in each turn (LeafTurnsAre,        *)
(* NodeTurnsAre), and both pages fit at every cut on the way.              *)
(***************************************************************************)
EXTENDS PageLayout_proof

-------------------------------------------------------------------------------
(* Pages in order *)

(* What the assumptions say of keys and page numbers.                          *)
LEMMA EditKeys ==
  /\ KeysEnd \in Nat /\ 0 < KeysEnd /\ 0 \notin Keys /\ Keys = 1 .. KeysEnd - 1
  /\ \A k \in Keys : k \in Nat /\ 0 < k /\ k < KeysEnd
  /\ \A k \in Keys \union {0} : Child(k) \in Numbers
  /\ \A j, k \in Nat : Child(j) = Child(k) => j = k
  /\ Fresh \subseteq Numbers /\ Fresh \subseteq Nat
<1>1. Len(Bytes) \in Nat /\ Keys = 1 .. Len(Bytes) /\ NodesUp \in Nat
  BY PageEditsAssumption, NodesDownIs, LenProperties
<1>2. Numbers = 0 .. NodesUp + 7 + Len(Bytes)
  BY <1>1, PageEditsAssumption DEF Numbers, Child
<1> QED
  BY <1>1, <1>2 DEF KeysEnd, Child, Fresh

(* What a sequence holds is not more than its places.                          *)
LEMMA ToSetIsSmall ==
  ASSUME NEW S, NEW s \in Seq(S)
  PROVE  IsFiniteSet(ToSet(s)) /\ Cardinality(ToSet(s)) <= Len(s)
<1>1. Len(s) \in Nat /\ s \in [1 .. Len(s) -> S] /\ ToSet(s) = {s[i] : i \in 1 .. Len(s)}
  BY LenProperties DEF ToSet
<1>2. s \in Surjection(1 .. Len(s), ToSet(s))
  BY <1>1 DEF Surjection
<1>3. IsFiniteSet(1 .. Len(s)) /\ Cardinality(1 .. Len(s)) = Len(s)
  BY <1>1, FS_Interval
<1> QED
  BY <1>2, <1>3, FS_Surjection

(* Two numbers are free, for a page that is divided and for a new root.        *)
LEMMA FreeNumbers ==
  ASSUME TypeOK
  PROVE  /\ FreeNumber(1) \in Fresh /\ FreeNumber(2) \in Fresh
         /\ FreeNumber(1) # FreeNumber(2)
         /\ FreeNumber(1) \notin ToSet(nodes.up.links) /\ FreeNumber(1) # nodes.p.number
         /\ FreeNumber(1) \in Numbers /\ FreeNumber(2) \in Numbers
<1> DEFINE A == {nodes[x].number : x \in DOMAIN nodes}
           B == ToSet(nodes.up.links)
           free == Fresh \ (A \union B)
<1>1. DOMAIN nodes = {"p", "s", "up"} /\ nodes.up \in Node
  BY DEF TypeOK, Places
<1>2. IsFiniteSet(A) /\ Cardinality(A) \in Nat /\ Cardinality(A) <= 3
  <2>1. A = ({nodes["p"].number} \union {nodes["s"].number}) \union {nodes["up"].number}
    BY <1>1
  <2> DEFINE a == nodes["p"].number
             b == nodes["s"].number
             c == nodes["up"].number
  <2> HIDE DEF a, b, c
  <2>2. IsFiniteSet({a}) /\ Cardinality({a}) = 1
    BY FS_Singleton
  <2>3. /\ IsFiniteSet({a} \union {b}) /\ Cardinality({a} \union {b}) \in Nat
        /\ Cardinality({a} \union {b}) <= 2
    BY <2>2, FS_AddElement
  <2>4. /\ IsFiniteSet(({a} \union {b}) \union {c})
        /\ Cardinality(({a} \union {b}) \union {c}) \in Nat
        /\ Cardinality(({a} \union {b}) \union {c}) <= 3
    BY <2>3, FS_AddElement
  <2> QED
    BY <2>1, <2>4 DEF a, b, c
<1>3. IsFiniteSet(B) /\ Cardinality(B) \in Nat /\ Cardinality(B) <= NodesUp + 1
  <2>1. /\ nodes.up.links \in Seq(Numbers) /\ Len(nodes.up.links) \in Nat
        /\ Len(nodes.up.links) <= NodesUp + 1 /\ NodesUp \in Nat
    <3>1. nodes.up # Blank => Shape(nodes.up) /\ Size(nodes.up) <= NodesUp
      BY <1>1 DEF TypeOK
    <3>2. Size(nodes.up) \in Nat /\ nodes.up.links \in Seq(Numbers)
      BY <1>1, NodeFields
    <3>3. nodes.up = Blank => Len(nodes.up.links) = 0
      BY DEF Blank
    <3>4. nodes.up # Blank => Len(nodes.up.links) = 0 \/ Len(nodes.up.links) = Size(nodes.up) + 1
      BY <3>1 DEF Shape
    <3> QED
      BY <3>1, <3>2, <3>3, <3>4, NodesDownIs
  <2>2. IsFiniteSet(B) /\ Cardinality(B) <= Len(nodes.up.links)
    BY <2>1, ToSetIsSmall
  <2>3. Cardinality(B) \in Nat
    BY <2>2, FS_CardinalityType
  <2> QED
    BY <2>1, <2>2, <2>3
<1>4. /\ IsFiniteSet(Fresh) /\ Cardinality(Fresh) = NodesUp + 6 /\ Fresh \subseteq Nat
      /\ NodesUp \in Nat
  BY NodesDownIs, FS_Interval DEF Fresh
<1> HIDE DEF A, B
<1>5. IsFiniteSet(free) /\ Cardinality(free) >= 2 /\ free \subseteq Nat
  <2>1. /\ IsFiniteSet(A \union B)
        /\ Cardinality(A \union B) = Cardinality(A) + Cardinality(B) - Cardinality(A \cap B)
    BY <1>2, <1>3, FS_Union
  <2>2. Cardinality(A \cap B) \in Nat
    BY <1>2, FS_Intersection, FS_CardinalityType
  <2>3. /\ IsFiniteSet(Fresh \cap (A \union B))
        /\ Cardinality(Fresh \cap (A \union B)) <= Cardinality(A \union B)
        /\ Cardinality(Fresh \cap (A \union B)) \in Nat
    <3>1. /\ IsFiniteSet((A \union B) \cap Fresh) /\ (A \union B) \cap Fresh = Fresh \cap (A \union B)
          /\ Cardinality((A \union B) \cap Fresh) <= Cardinality(A \union B)
      BY <2>1, FS_Intersection
    <3> QED
      BY <3>1, FS_CardinalityType
  <2>4. /\ IsFiniteSet(free)
        /\ Cardinality(free) = Cardinality(Fresh) - Cardinality(Fresh \cap (A \union B))
    BY <1>4, FS_Difference
  <2>5. Cardinality(A \union B) <= NodesUp + 4 /\ Cardinality(A \union B) \in Int
    BY <1>2, <1>3, <1>4, <2>1, <2>2
  <2> HIDE DEF free
  <2>6. Cardinality(free) >= 2
    BY <1>4, <2>3, <2>4, <2>5
  <2> QED
    BY <1>4, <2>4, <2>6 DEF free
<1> HIDE DEF free
<1>6. free # {} /\ Min(free) \in free
  BY <1>5, FS_EmptySet, MinIsLeast
<1>7. free \ {Min(free)} # {} /\ Min(free \ {Min(free)}) \in free \ {Min(free)}
  <2>1. IsFiniteSet(free \ {Min(free)}) /\ Cardinality(free \ {Min(free)}) = Cardinality(free) - 1
    BY <1>5, <1>6, FS_RemoveElement
  <2>2. Cardinality(free) \in Nat
    BY <1>5, FS_CardinalityType
  <2>3. Cardinality(free \ {Min(free)}) # 0
    BY <1>5, <2>1, <2>2
  <2>4. free \ {Min(free)} # {}
    BY <2>3, FS_EmptySet
  <2> QED
    BY <1>5, <2>4, MinIsLeast
<1>8. FreeNumber(1) = Min(free) /\ FreeNumber(2) = Min(free \ {Min(free)})
  BY DEF FreeNumber, free, A, B
<1>9. nodes.p.number \in A
  BY <1>1 DEF A
<1> QED
  BY <1>6, <1>7, <1>8, <1>9, EditKeys DEF free, B

(* What the parent of the two pages is, if there is one.                       *)
LEMMA UpIs ==
  ASSUME NEW up \in Node, Shape(up), up.kind = "Root", Ordered(up, 0, KeysEnd),
         IsInjective(up.links)
  PROVE  /\ up.kind \in Interiors /\ Size(up) \in Nat /\ Len(up.links) = Size(up) + 1
         /\ \A i, j \in 1 .. Size(up) + 1 : up.links[i] = up.links[j] => i = j
         /\ \A i \in 0 .. Size(up) + 1 : UpFence(up, i) \in Nat
         /\ \A i, j \in 0 .. Size(up) + 1 : i < j => UpFence(up, i) < UpFence(up, j)
         /\ UpFence(up, 0) = 0 /\ UpFence(up, Size(up) + 1) = KeysEnd
         /\ \A i \in 1 .. Size(up) : UpFence(up, i) = up.keys[i] /\ up.keys[i] \in Keys
<1>1. up.kind \in Interiors /\ Size(up) \in Nat /\ Len(up.links) = Size(up) + 1
      /\ up.links \in Seq(Numbers) /\ \A i \in 1 .. Size(up) : up.keys[i] \in Keys
  BY NodeFields DEF Shape, Interiors
<1>2. DOMAIN up.links = 1 .. Size(up) + 1
  BY <1>1, LenProperties
<1>3. /\ \A i \in 0 .. Size(up) + 1 : UpFence(up, i) \in Nat
      /\ \A i, j \in 0 .. Size(up) + 1 : i < j => UpFence(up, i) < UpFence(up, j)
  BY <1>1, EditKeys, FencesAscend DEF UpFence
<1>4. /\ UpFence(up, 0) = 0 /\ UpFence(up, Size(up) + 1) = KeysEnd
      /\ \A i \in 1 .. Size(up) : UpFence(up, i) = up.keys[i]
  BY <1>1 DEF UpFence, Fence
<1> QED
  BY <1>1, <1>2, <1>3, <1>4 DEF IsInjective

(* A search comes to the page whose keys it is about.                          *)
LEMMA LinkForFences ==
  ASSUME NEW up \in Node, Shape(up), up.kind = "Root", Ordered(up, 0, KeysEnd),
         IsInjective(up.links), NEW k \in Keys,
         NEW u \in 1 .. Size(up) + 1, LinkFor(up, k) = up.links[u]
  PROVE  /\ UpFence(up, u - 1) <= k /\ k < UpFence(up, u)
         /\ k \notin ToSet(up.keys) => UpFence(up, u - 1) < k
<1> DEFINE q == FindPos(up, k)
<1>1. /\ Size(up) \in Nat /\ UpFence(up, 0) = 0 /\ UpFence(up, Size(up) + 1) = KeysEnd
      /\ \A i, j \in 1 .. Size(up) + 1 : up.links[i] = up.links[j] => i = j
      /\ \A i \in 1 .. Size(up) : UpFence(up, i) = up.keys[i] /\ up.keys[i] \in Keys
  BY UpIs
<1>2. k \in Nat /\ 0 < k /\ k < KeysEnd
  BY EditKeys
<1>3. /\ q \in 0 .. Size(up) /\ \A j \in 1 .. q : up.keys[j] <= k
      /\ q < Size(up) => up.keys[q + 1] > k
  BY <1>2, NodeFields, FindPosStops
<1>4. LinkFor(up, k) = up.links[q + 1]
  BY DEF LinkFor
<1> HIDE DEF q
<1>5. q + 1 = u
  <2>1. q + 1 \in 1 .. Size(up) + 1
    BY <1>1, <1>3
  <2>2. up.links[q + 1] = up.links[u]
    BY <1>4
  <2> QED
    BY <1>1, <2>1, <2>2
<1>6. UpFence(up, u - 1) <= k /\ (k \notin ToSet(up.keys) => UpFence(up, u - 1) < k)
  <2>1. CASE q = 0
    BY <1>1, <1>2, <1>5, <2>1
  <2>2. CASE q \in 1 .. Size(up)
    <3>1. u - 1 = q /\ UpFence(up, q) = up.keys[q] /\ up.keys[q] <= k /\ up.keys[q] \in Nat
      BY <1>1, <1>3, <1>5, <2>2, EditKeys
    <3>2. up.keys[q] \in ToSet(up.keys)
      <4>1. DOMAIN up.keys = 1 .. Size(up)
        BY NodeFields, LenProperties DEF Size
      <4> QED
        BY <2>2, <4>1 DEF ToSet
    <3> QED
      BY <1>2, <3>1, <3>2
  <2> QED
    BY <1>3, <2>1, <2>2
<1>7. k < UpFence(up, u)
  <2>1. CASE q = Size(up)
    BY <1>1, <1>2, <1>5, <2>1
  <2>2. CASE q < Size(up)
    <3>1. u \in 1 .. Size(up) /\ UpFence(up, u) = up.keys[u] /\ up.keys[u] > k
      BY <1>1, <1>3, <1>5, <2>2
    <3> QED
      BY <1>1, <1>2, <3>1, EditKeys
  <2>3. q = Size(up) \/ q < Size(up)
    BY <1>1, <1>3
  <2> QED
    BY <2>1, <2>2, <2>3
<1> QED
  BY <1>6, <1>7

(* The bounds of the keys that a page answers for.                             *)
Bounds(w, l, h) ==
  IF nodes.up = Blank THEN l = 0 /\ h = KeysEnd
  ELSE \E u \in 1 .. Size(nodes.up) + 1 :
         /\ nodes.up.links[u] = nodes[w].number
         /\ l = UpFence(nodes.up, u - 1) /\ h = UpFence(nodes.up, u)

(* The pages have the types and shapes that TypeOK says.                       *)
LEMMA TypesOfPages ==
  ASSUME TypeOK
  PROVE  /\ DOMAIN nodes = {"p", "s", "up"} /\ DOMAIN pages = {"p", "s", "up"}
         /\ nodes.p \in Node /\ nodes.s \in Node /\ nodes.up \in Node
         /\ nodes.p # Blank => Shape(nodes.p) /\ Size(nodes.p) <= NodesUp
         /\ nodes.s # Blank => Shape(nodes.s) /\ Size(nodes.s) <= NodesUp
         /\ nodes.up # Blank => Shape(nodes.up) /\ Size(nodes.up) <= NodesUp
         /\ nodes = Pair(nodes.p, nodes.s, nodes.up)
<1>1. DOMAIN nodes = {"p", "s", "up"} /\ DOMAIN pages = {"p", "s", "up"}
      /\ nodes \in [{"p", "s", "up"} -> Node]
  BY DEF TypeOK, Places
<1>2. \A x \in {"p", "s", "up"} :
        nodes[x] # Blank => Shape(nodes[x]) /\ Size(nodes[x]) <= NodesUp
  BY <1>1 DEF TypeOK
<1>3. nodes = Pair(nodes.p, nodes.s, nodes.up)
  BY <1>1 DEF Pair
<1> QED
  BY <1>1, <1>2, <1>3

(* A page that is there has bounds, and only keys between them come to it.     *)
LEMMA HasBounds ==
  ASSUME TypeOK, InOrder, NEW w \in Places, nodes[w] # Blank
  PROVE  \E l, h \in Nat :
           /\ Bounds(w, l, h) /\ PageInOrder(nodes[w], l, h) /\ l < h
           /\ nodes[w] \in Node /\ Size(nodes[w]) <= NodesUp
           /\ nodes.up # Blank => nodes[w].kind \in {"Leaf", "Intermediate"}
           /\ nodes.up = Blank => w = "p" /\ nodes.p.kind \in {"RootLeaf", "Root"}
           /\ \A k \in Keys :
                Reaches(k, w) =>
                  l <= k /\ k < h /\ (k \notin ToSet(nodes.up.keys) => l < k)
<1>0. /\ nodes[w] \in Node /\ Size(nodes[w]) <= NodesUp
      /\ nodes.up \in Node /\ (nodes.up # Blank => Shape(nodes.up))
      /\ w \in {"p", "s"}
  BY TypesOfPages DEF Places
<1>1. CASE nodes.up = Blank
  <2>1. /\ w = "p" /\ nodes.p.kind \in {"RootLeaf", "Root"}
        /\ PageInOrder(nodes[w], 0, KeysEnd)
    BY <1>0, <1>1 DEF InOrder, NeighboursInOrder
  <2>2. Bounds(w, 0, KeysEnd) /\ 0 \in Nat /\ KeysEnd \in Nat
    BY <1>1, EditKeys DEF Bounds
  <2>3. \A k \in Keys : 0 <= k /\ k < KeysEnd /\ 0 < k
    BY EditKeys
  <2>4. 0 < KeysEnd
    BY EditKeys
  <2> QED
    BY <1>0, <1>1, <2>1, <2>2, <2>3, <2>4
<1>2. CASE nodes.up # Blank
  <2> DEFINE up == nodes.up
  <2>1. up.kind = "Root" /\ Ordered(up, 0, KeysEnd) /\ IsInjective(up.links) /\ Shape(up)
    BY <1>0, <1>2 DEF InOrder, NeighboursInOrder
  <2>2. PICK u \in 1 .. Size(up) + 1 : BelowInOrder(nodes[w], up, u)
    <3>1. PICK v \in 1 .. Size(up) + 1 :
            /\ BelowInOrder(nodes.p, up, v)
            /\ nodes.s # Blank => BelowInOrder(nodes.s, up, v + 1)
      BY <1>2 DEF InOrder, NeighboursInOrder
    <3>2. CASE w = "p"
      BY <3>1, <3>2
    <3>3. CASE w = "s"
      <4>1. BelowInOrder(nodes.s, up, v + 1)
        BY <3>1, <3>3
      <4>2. v + 1 \in 1 .. Size(up) + 1
        BY <4>1 DEF BelowInOrder
      <4> QED
        BY <3>3, <4>1, <4>2
    <3> QED
      BY <1>0, <3>2, <3>3
  <2> DEFINE l == UpFence(up, u - 1)
             h == UpFence(up, u)
  <2>3. /\ up.links[u] = nodes[w].number /\ PageInOrder(nodes[w], l, h)
        /\ nodes[w].kind \in {"Leaf", "Intermediate"}
    BY <2>2 DEF BelowInOrder
  <2>4. l \in Nat /\ h \in Nat /\ l < h
    <3>1. Size(up) \in Nat
      BY <1>0, <2>1, UpIs
    <3>2. u - 1 \in 0 .. Size(up) + 1 /\ u \in 0 .. Size(up) + 1 /\ u - 1 < u
      BY <3>1
    <3> QED
      BY <1>0, <2>1, <3>2, UpIs
  <2>5. Bounds(w, l, h)
    BY <1>2, <2>3 DEF Bounds
  <2>6. ASSUME NEW k \in Keys, Reaches(k, w)
        PROVE  l <= k /\ k < h /\ (k \notin ToSet(nodes.up.keys) => l < k)
    <3>1. LinkFor(up, k) = up.links[u]
      BY <1>2, <2>3, <2>6 DEF Reaches
    <3> QED
      BY <1>0, <2>1, <3>1, LinkForFences
  <2> HIDE DEF l, h
  <2> QED
    BY <1>0, <1>2, <2>3, <2>4, <2>5, <2>6
<1> QED
  BY <1>1, <1>2

(* What a page and its node must be.                                           *)
Sound(n) == n \in Node /\ (n # Blank => Shape(n) /\ Size(n) <= NodesUp)

(* A step that leaves sound pages in order.                                    *)
LEMMA StepKeeps ==
  ASSUME NEW p, NEW s, NEW up, Sound(p), Sound(s), Sound(up), NeighboursInOrder(p, s, up),
         nodes' = Pair(p, s, up), DOMAIN pages' = {"p", "s", "up"}
  PROVE  TypeOK' /\ InOrder'
<1>1. /\ nodes'.p = p /\ nodes'.s = s /\ nodes'.up = up
      /\ nodes' \in [{"p", "s", "up"} -> Node] /\ DOMAIN nodes' = {"p", "s", "up"}
  BY DEF Pair, Sound
<1>2. \A x \in {"p", "s", "up"} :
        nodes'[x] # Blank => Shape(nodes'[x]) /\ Size(nodes'[x]) <= NodesUp
  BY <1>1 DEF Sound
<1>3. TypeOK'
  BY <1>1, <1>2 DEF TypeOK, Places
<1>4. InOrder'
  BY <1>1 DEF InOrder
<1> QED
  BY <1>3, <1>4

(* Before a step.                                                              *)
LEMMA SoundPages ==
  ASSUME TypeOK
  PROVE  Sound(nodes.p) /\ Sound(nodes.s) /\ Sound(nodes.up)
  BY TypesOfPages DEF Sound

(* A step that changes one of the two pages within its bounds.                 *)
LEMMA EditedInOrder ==
  ASSUME TypeOK, InOrder, NEW w \in Places, nodes[w] # Blank,
         NEW l, NEW h, Bounds(w, l, h),
         NEW m \in Node, Size(m) <= NodesUp, nodes.up # Blank => Size(m) >= NodesDown - 1,
         m.kind = nodes[w].kind, m.number = nodes[w].number, m.parent = nodes[w].parent,
         PageInOrder(m, l, h), m.kind = "Root" => Size(m) >= 1,
         nodes' = [nodes EXCEPT ![w] = m], DOMAIN pages' = DOMAIN pages
  PROVE  TypeOK' /\ InOrder'
<1> DEFINE p == IF w = "p" THEN m ELSE nodes.p
           s == IF w = "s" THEN m ELSE nodes.s
           up == nodes.up
<1>1. /\ w \in {"p", "s"} /\ DOMAIN pages' = {"p", "s", "up"}
      /\ nodes' = Pair(p, s, up)
  <2>1. w \in {"p", "s"} /\ DOMAIN pages' = {"p", "s", "up"}
        /\ DOMAIN nodes = {"p", "s", "up"} /\ nodes = Pair(nodes.p, nodes.s, nodes.up)
    BY TypesOfPages DEF Places
  <2>2. CASE w = "p"
    BY <2>1, <2>2 DEF Pair
  <2>3. CASE w = "s"
    BY <2>1, <2>3 DEF Pair
  <2> QED
    BY <2>1, <2>2, <2>3
<1>2. Sound(p) /\ Sound(s) /\ Sound(up)
  <2>1. Sound(m)
    BY DEF Sound, PageInOrder
  <2> QED
    BY <2>1, SoundPages
<1>3. m # Blank
  BY Kinds DEF PageInOrder, Shape, Blank
<1>4. NeighboursInOrder(p, s, up)
  <2>1. CASE up = Blank
    <3>1. /\ w = "p" /\ s = Blank /\ p.kind \in {"RootLeaf", "Root"} /\ PageInOrder(p, 0, KeysEnd)
          /\ p.kind = "Root" => Size(p) >= 1
      <4>1. /\ nodes.s = Blank /\ nodes.p.kind \in {"RootLeaf", "Root"}
        BY <2>1 DEF InOrder, NeighboursInOrder
      <4>2. w = "p"
        BY <1>1, <4>1
      <4>3. l = 0 /\ h = KeysEnd
        BY <2>1 DEF Bounds
      <4> QED
        BY <4>1, <4>2, <4>3
    <3> HIDE DEF p, s, up
    <3> QED
      BY <2>1, <3>1 DEF NeighboursInOrder
  <2>2. CASE up # Blank
    <3>1. /\ up.kind = "Root" /\ Ordered(up, 0, KeysEnd) /\ IsInjective(up.links)
          /\ up \in Node /\ Shape(up) /\ Size(up) >= 1
      BY <1>2, <2>2 DEF InOrder, NeighboursInOrder, Sound
    <3>2. PICK u \in 1 .. Size(up) + 1 :
            /\ BelowInOrder(nodes.p, up, u)
            /\ nodes.s # Blank => /\ BelowInOrder(nodes.s, up, u + 1)
                                  /\ nodes.s.kind = nodes.p.kind
                                  /\ nodes.s.parent = nodes.p.parent
      BY <2>2 DEF InOrder, NeighboursInOrder
    <3>3. \A i, j \in 1 .. Size(up) + 1 : up.links[i] = up.links[j] => i = j
      BY <3>1, UpIs
    <3>4. ASSUME NEW v \in 1 .. Size(up) + 1, BelowInOrder(nodes[w], up, v)
          PROVE  BelowInOrder(m, up, v)
      <4>1. PICK i \in 1 .. Size(up) + 1 :
              /\ up.links[i] = nodes[w].number
              /\ l = UpFence(up, i - 1) /\ h = UpFence(up, i)
        BY <2>2 DEF Bounds
      <4>2. i = v
        BY <3>3, <3>4, <4>1 DEF BelowInOrder
      <4> QED
        BY <2>2, <3>4, <4>1, <4>2 DEF BelowInOrder
    <3>5. BelowInOrder(p, up, u)
      BY <3>2, <3>4
    <3>6. ASSUME s # Blank
          PROVE  BelowInOrder(s, up, u + 1) /\ s.kind = p.kind /\ s.parent = p.parent
      <4>1. nodes.s # Blank
        BY <3>6
      <4>2. u + 1 \in 1 .. Size(up) + 1
        BY <3>2, <4>1 DEF BelowInOrder
      <4> QED
        BY <1>1, <3>2, <3>4, <4>1, <4>2
    <3> HIDE DEF p, s, up
    <3> QED
      BY <2>2, <3>1, <3>5, <3>6 DEF NeighboursInOrder
  <2> QED
    BY <2>1, <2>2
<1> HIDE DEF p, s, up
<1> QED
  BY <1>1, <1>2, <1>4, StepKeeps

(* A key that a page lacks.                                                    *)
LEMMA NotAmong ==
  ASSUME NEW n \in Node, NEW k, k \notin ToSet(n.keys)
  PROVE  \A i \in 1 .. Size(n) : n.keys[i] # k
<1>1. DOMAIN n.keys = 1 .. Size(n)
  BY NodeFields, LenProperties DEF Size
<1> QED
  BY <1>1 DEF ToSet

(* From here on a lemma for each step: it leaves sound pages in order.         *)
LEMMA InsertNewKeeps ==
  ASSUME TypeOK, InOrder, NEW w \in Places, NEW k \in Keys, NEW v \in Values,
         InsertNew(w, k, v)
  PROVE  TypeOK' /\ InOrder'
<1> DEFINE n == nodes[w]
           m == InsertIntoLeaf(n, k, v)
<1>1. /\ Settled /\ Reaches(k, w) /\ k \notin ToSet(n.keys) /\ IsLeaf(n) /\ Size(n) < NodesUp
      /\ n # Blank /\ nodes' = [nodes EXCEPT ![w] = m] /\ DOMAIN pages' = DOMAIN pages
  BY DEF InsertNew, NewKey, Reaches, Edit
<1>2. PICK l \in Nat, h \in Nat :
        /\ Bounds(w, l, h) /\ PageInOrder(n, l, h) /\ l < h /\ n \in Node
        /\ l <= k /\ k < h
  BY <1>1, HasBounds
<1>3. \A i \in 1 .. Size(n) : n.keys[i] # k
  BY <1>1, <1>2, NotAmong
<1>4. Updated(n, m, k, v, 1, l, h)
  BY <1>1, <1>2, <1>3, InsertIntoLeafUpdates DEF IsLeaf, PageInOrder
<1>5. Size(n) \in Nat /\ (nodes.up # Blank => Size(n) >= NodesDown)
  <2>1. Size(n) \in Nat
    BY <1>2, NodeFields
  <2> QED
    BY <1>1, <2>1, NodesDownIs DEF Settled, Underflows
<1> HIDE DEF m, n
<1>6. PageInOrder(m, l, h) /\ m.kind # "Root"
  BY <1>1, <1>4, Kinds DEF PageInOrder, Updated, IsLeaf
<1>7. Size(m) <= NodesUp /\ (nodes.up # Blank => Size(m) >= NodesDown - 1)
  BY <1>1, <1>4, <1>5, NodesDownIs DEF Updated
<1> QED
  BY <1>1, <1>2, <1>4, <1>6, <1>7, EditedInOrder DEF Updated, n

LEMMA InsertExistingKeeps ==
  ASSUME TypeOK, InOrder, NEW w \in Places, NEW k \in Keys, NEW v \in Values,
         InsertExisting(w, k, v)
  PROVE  TypeOK' /\ InOrder'
<1> DEFINE n == nodes[w]
           m == InsertSame(n, k, v)
<1>1. /\ Settled /\ k \in ToSet(n.keys) /\ IsLeaf(n)
      /\ nodes' = [nodes EXCEPT ![w] = m] /\ DOMAIN pages' = DOMAIN pages
  BY DEF InsertExisting, Edit
<1>2. n # Blank
  BY <1>1 DEF IsLeaf, Leaves, Blank
<1>3. PICK l \in Nat, h \in Nat :
        /\ Bounds(w, l, h) /\ PageInOrder(n, l, h) /\ l < h /\ n \in Node
        /\ Size(n) <= NodesUp
  BY <1>2, HasBounds
<1>4. PICK i \in 1 .. Size(n) : n.keys[i] = k
  <2>1. DOMAIN n.keys = 1 .. Size(n)
    BY <1>3, NodeFields, LenProperties DEF Size
  <2> QED
    BY <1>1, <2>1 DEF ToSet
<1>5. Updated(n, m, k, v, 0, l, h)
  BY <1>1, <1>3, <1>4, InsertSameUpdates DEF IsLeaf, PageInOrder
<1>6. Size(n) \in Nat /\ (nodes.up # Blank => Size(n) >= NodesDown)
  <2>1. Size(n) \in Nat
    BY <1>3, NodeFields
  <2> QED
    BY <1>1, <1>2, <2>1, NodesDownIs DEF Settled, Underflows
<1> HIDE DEF m, n
<1>7. PageInOrder(m, l, h) /\ m.kind # "Root"
  BY <1>1, <1>5, Kinds DEF PageInOrder, Updated, IsLeaf
<1>8. Size(m) <= NodesUp /\ (nodes.up # Blank => Size(m) >= NodesDown - 1)
  BY <1>1, <1>3, <1>5, <1>6, NodesDownIs DEF Updated
<1> QED
  BY <1>1, <1>2, <1>3, <1>5, <1>7, <1>8, EditedInOrder DEF Updated, n

(* Where find_pos puts a key that an inner page lacks.                         *)
LEMMA FindPosFence ==
  ASSUME NEW n \in Node, NEW l \in Nat, NEW h \in Nat, NEW k \in Keys, l < k, k < h,
         \A i \in 1 .. Size(n) : n.keys[i] # k
  PROVE  /\ FindPos(n, k) + 1 \in 1 .. Size(n) + 1
         /\ Fence(n, l, h, (FindPos(n, k) + 1) - 1) < k
         /\ k < Fence(n, l, h, FindPos(n, k) + 1)
<1> DEFINE q == FindPos(n, k)
<1>1. /\ Size(n) \in Nat /\ \A i \in 1 .. Size(n) : n.keys[i] \in Nat
      /\ k \in Nat /\ q \in 0 .. Size(n) /\ \A j \in 1 .. q : n.keys[j] <= k
      /\ q < Size(n) => n.keys[q + 1] > k
  BY EditKeys, NodeFields, FindPosStops
<1> HIDE DEF q
<1>2. q + 1 \in 1 .. Size(n) + 1 /\ (q + 1) - 1 = q
  BY <1>1
<1>3. Fence(n, l, h, q) < k
  <2>1. CASE q = 0
    BY <2>1 DEF Fence
  <2>2. CASE q # 0
    <3>1. q \in 1 .. Size(n) /\ q # Size(n) + 1 /\ n.keys[q] <= k /\ n.keys[q] # k
      BY <1>1, <2>2
    <3> QED
      BY <1>1, <2>2, <3>1 DEF Fence
  <2> QED
    BY <2>1, <2>2
<1>4. k < Fence(n, l, h, q + 1)
  <2>1. CASE q = Size(n)
    BY <1>1, <2>1 DEF Fence
  <2>2. CASE q # Size(n)
    <3>1. q + 1 # 0 /\ q + 1 # Size(n) + 1 /\ n.keys[q + 1] > k
      BY <1>1, <2>2
    <3> QED
      BY <1>1, <2>2, <3>1 DEF Fence
  <2> QED
    BY <2>1, <2>2
<1> QED
  BY <1>2, <1>3, <1>4 DEF q

(* A page with a key and a link more has its children in order when the page   *)
(* without them has, and the other way round.                                  *)
LEMMA WidenedInOrder ==
  ASSUME NEW P, NEW P2, NEW p, NEW k, NEW l, NEW h, Widened(P, P2, p, k, Child(k), l, h),
         PageInOrder(P, l, h)
  PROVE  PageInOrder(P2, l, h)
<1>1. /\ P \in Node /\ Size(P) \in Nat /\ p \in 1 .. Size(P) + 1 /\ Size(P2) = Size(P) + 1
      /\ Shape(P2) /\ Ordered(P2, l, h)
      /\ \A i \in 0 .. Size(P) : P.links[i + 1] = Child(Fence(P, l, h, i))
  BY NodeFields DEF Widened, PageInOrder
<1>2. ASSUME NEW i \in 0 .. Size(P2) PROVE P2.links[i + 1] = Child(Fence(P2, l, h, i))
  <2>1. i \in 0 .. Size(P) + 2 /\ i + 1 \in 1 .. Size(P) + 2 /\ (i + 1) - 1 = i
    BY <1>1
  <2>2. Fence(P2, l, h, i) = IF i < p THEN Fence(P, l, h, i)
                             ELSE IF i = p THEN k ELSE Fence(P, l, h, i - 1)
    BY <2>1 DEF Widened
  <2>3. P2.links[i + 1] = IF i + 1 <= p THEN P.links[i + 1]
                          ELSE IF i + 1 = p + 1 THEN Child(k) ELSE P.links[(i + 1) - 1]
    BY <2>1 DEF Widened
  <2>4. CASE i < p
    <3>1. i \in 0 .. Size(P) /\ i + 1 <= p
      BY <1>1, <2>4
    <3> QED
      BY <1>1, <2>2, <2>3, <2>4, <3>1
  <2>5. CASE i = p
    <3>1. ~(i + 1 <= p) /\ ~(i < p) /\ i + 1 = p + 1
      BY <1>1, <2>5
    <3> QED
      BY <2>2, <2>3, <2>5, <3>1
  <2>6. CASE i > p
    <3>1. ~(i + 1 <= p) /\ ~(i < p) /\ i # p /\ i + 1 # p + 1 /\ i - 1 \in 0 .. Size(P)
          /\ (i - 1) + 1 = (i + 1) - 1
      BY <1>1, <2>6
    <3>2. P.links[(i - 1) + 1] = Child(Fence(P, l, h, i - 1))
      BY <1>1, <3>1
    <3> QED
      BY <2>2, <2>3, <3>1, <3>2
  <2> QED
    BY <1>1, <2>4, <2>5, <2>6
<1> QED
  BY <1>1, <1>2 DEF PageInOrder

LEMMA NarrowedInOrder ==
  ASSUME NEW P, NEW P2, NEW p, NEW k, NEW link, NEW l, NEW h,
         Widened(P, P2, p, k, link, l, h), PageInOrder(P2, l, h)
  PROVE  PageInOrder(P, l, h)
<1>1. /\ P \in Node /\ Size(P) \in Nat /\ p \in 1 .. Size(P) + 1 /\ Size(P2) = Size(P) + 1
      /\ Shape(P) /\ Ordered(P, l, h)
      /\ \A i \in 0 .. Size(P2) : P2.links[i + 1] = Child(Fence(P2, l, h, i))
  BY NodeFields DEF Widened, PageInOrder
<1>2. ASSUME NEW i \in 0 .. Size(P) PROVE P.links[i + 1] = Child(Fence(P, l, h, i))
  <2> DEFINE j == IF i < p THEN i ELSE i + 1
  <2>1. /\ j \in 0 .. Size(P) + 2 /\ j + 1 \in 1 .. Size(P) + 2 /\ j \in 0 .. Size(P2)
        /\ (j + 1) - 1 = j /\ (i < p => j = i) /\ (~(i < p) => j = i + 1 /\ ~(j < p) /\ j # p)
    BY <1>1
  <2> HIDE DEF j
  <2>2. Fence(P2, l, h, j) = IF j < p THEN Fence(P, l, h, j)
                             ELSE IF j = p THEN k ELSE Fence(P, l, h, j - 1)
    BY <2>1 DEF Widened
  <2>3. P2.links[j + 1] = IF j + 1 <= p THEN P.links[j + 1]
                          ELSE IF j + 1 = p + 1 THEN link ELSE P.links[(j + 1) - 1]
    BY <2>1 DEF Widened
  <2>4. P2.links[j + 1] = Child(Fence(P2, l, h, j))
    BY <1>1, <2>1
  <2>5. CASE i < p
    <3>1. j = i /\ j + 1 <= p
      BY <1>1, <2>1, <2>5
    <3> QED
      BY <2>2, <2>3, <2>4, <2>5, <3>1
  <2>6. CASE ~(i < p)
    <3>1. ~(j < p) /\ j # p /\ ~(j + 1 <= p) /\ j + 1 # p + 1 /\ j - 1 = i /\ (j + 1) - 1 = i + 1
      BY <1>1, <2>1, <2>6
    <3> QED
      BY <2>2, <2>3, <2>4, <3>1
  <2> QED
    BY <2>5, <2>6
<1> QED
  BY <1>1, <1>2 DEF PageInOrder

(* No page has two links to one child.                                         *)
LEMMA ChildrenDiffer ==
  ASSUME NEW n \in Node, n.kind \in Interiors, NEW l \in Nat, NEW h \in Nat,
         PageInOrder(n, l, h)
  PROVE  \A i, j \in 1 .. Size(n) + 1 : n.links[i] = n.links[j] => i = j
<1>1. /\ Size(n) \in Nat /\ \A i \in 0 .. Size(n) + 1 : Fence(n, l, h, i) \in Nat
      /\ \A i, j \in 0 .. Size(n) + 1 : i < j => Fence(n, l, h, i) < Fence(n, l, h, j)
  BY NodeFields, FencesAscend DEF PageInOrder
<1>2. \A i \in 0 .. Size(n) : n.links[i + 1] = Child(Fence(n, l, h, i))
  BY DEF PageInOrder
<1> SUFFICES ASSUME NEW i \in 1 .. Size(n) + 1, NEW j \in 1 .. Size(n) + 1,
                    n.links[i] = n.links[j]
             PROVE  i = j
  OBVIOUS
<1>3. /\ i - 1 \in 0 .. Size(n) /\ j - 1 \in 0 .. Size(n)
      /\ i - 1 \in 0 .. Size(n) + 1 /\ j - 1 \in 0 .. Size(n) + 1
      /\ (i - 1) + 1 = i /\ (j - 1) + 1 = j
  BY <1>1
<1>4. Child(Fence(n, l, h, i - 1)) = Child(Fence(n, l, h, j - 1))
  <2>1. n.links[(i - 1) + 1] = Child(Fence(n, l, h, i - 1))
    BY <1>2, <1>3
  <2>2. n.links[(j - 1) + 1] = Child(Fence(n, l, h, j - 1))
    BY <1>2, <1>3
  <2> QED
    BY <1>3, <2>1, <2>2
<1>5. Fence(n, l, h, i - 1) = Fence(n, l, h, j - 1)
  BY <1>1, <1>3, <1>4, EditKeys
<1>6. ~(i - 1 < j - 1) /\ ~(j - 1 < i - 1)
  BY <1>1, <1>3, <1>5
<1> QED
  BY <1>3, <1>6

LEMMA InsertLinkKeeps ==
  ASSUME TypeOK, InOrder, NEW w \in Places, NEW k \in Keys, InsertLink(w, k)
  PROVE  TypeOK' /\ InOrder'
<1> DEFINE n == nodes[w]
           m == InsertIntoIntermediate(n, k, Child(k))
           q == FindPos(n, k) + 1
<1>1. /\ Settled /\ Reaches(k, w) /\ k \notin ToSet(n.keys) /\ ~IsLeaf(n) /\ Size(n) < NodesUp
      /\ k \notin ToSet(nodes.up.keys)
      /\ n # Blank /\ nodes' = [nodes EXCEPT ![w] = m] /\ DOMAIN pages' = DOMAIN pages
  BY DEF InsertLink, NewKey, Reaches, Edit
<1>2. PICK l \in Nat, h \in Nat :
        /\ Bounds(w, l, h) /\ PageInOrder(n, l, h) /\ l < h /\ n \in Node
        /\ l < k /\ k < h
  BY <1>1, HasBounds
<1>3. \A i \in 1 .. Size(n) : n.keys[i] # k
  BY <1>1, <1>2, NotAmong
<1>4. n.kind \in Interiors /\ Shape(n) /\ Ordered(n, l, h)
  BY <1>1, <1>2 DEF IsLeaf, PageInOrder, Shape
<1>5. Widened(n, m, q, k, Child(k), l, h)
  <2>1. q \in 1 .. Size(n) + 1 /\ Fence(n, l, h, q - 1) < k /\ k < Fence(n, l, h, q)
    BY <1>2, <1>3, FindPosFence
  <2>2. Child(k) \in Numbers
    BY EditKeys
  <2> HIDE DEF q, n
  <2> QED
    BY <1>2, <1>4, <2>1, <2>2, InsertWidens
<1>6. Size(n) \in Nat /\ (nodes.up # Blank => Size(n) >= NodesDown)
  <2>1. Size(n) \in Nat
    BY <1>2, NodeFields
  <2> QED
    BY <1>1, <2>1, NodesDownIs DEF Settled, Underflows
<1> HIDE DEF m, n, q
<1>7. PageInOrder(m, l, h)
  BY <1>2, <1>5, WidenedInOrder
<1>8. /\ Size(m) <= NodesUp /\ (nodes.up # Blank => Size(m) >= NodesDown - 1)
      /\ Size(m) >= 1
  BY <1>1, <1>5, <1>6, NodesDownIs DEF Widened
<1> QED
  BY <1>1, <1>2, <1>5, <1>7, <1>8, EditedInOrder DEF Widened, n

LEMMA DeleteOneKeeps ==
  ASSUME TypeOK, InOrder, NEW w \in Places, NEW i \in 1 .. NodesUp, DeleteOne(w, i)
  PROVE  TypeOK' /\ InOrder'
<1> DEFINE n == nodes[w]
           k == n.keys[i]
           link == n.links[i]
           m == IF IsLeaf(n) THEN DeleteKeyLeaf(n, k) ELSE DeleteKeyIntermediate(n, link)
<1>1. /\ Settled /\ MayLose(w) /\ i \in DOMAIN n.keys
      /\ nodes' = [nodes EXCEPT ![w] = m] /\ DOMAIN pages' = DOMAIN pages
  BY DEF DeleteOne, Edit
<1>2. n # Blank
  BY <1>1 DEF Blank
<1>3. PICK l \in Nat, h \in Nat :
        /\ Bounds(w, l, h) /\ PageInOrder(n, l, h) /\ l < h /\ n \in Node
        /\ Size(n) <= NodesUp
  BY <1>2, HasBounds
<1>4. i \in 1 .. Size(n) /\ Size(n) \in Nat /\ k \in Keys
  BY <1>1, <1>3, NodeFields, LenProperties DEF Size
<1>5. nodes.up # Blank => Size(n) >= NodesDown
  BY <1>1, <1>2, <1>4, NodesDownIs DEF Settled, Underflows
<1>6. /\ m \in Node /\ PageInOrder(m, l, h) /\ Size(m) = Size(n) - 1
      /\ m.kind = n.kind /\ m.number = n.number /\ m.parent = n.parent
  <2>1. CASE IsLeaf(n)
    <3> DEFINE d == DeleteKeyLeaf(n, k)
    <3>1. Updated(n, d, k, Absent, -1, l, h)
      BY <1>3, <1>4, <2>1, DeleteKeyLeafUpdates DEF IsLeaf, PageInOrder
    <3>2. m = d
      BY <2>1
    <3> HIDE DEF d, m, n
    <3>3. Size(m) = Size(n) - 1
      BY <1>4, <3>1, <3>2 DEF Updated
    <3> QED
      BY <2>1, <3>1, <3>2, <3>3, Kinds DEF Updated, PageInOrder, IsLeaf
  <2>2. CASE ~IsLeaf(n)
    <3> DEFINE d == DeleteKeyIntermediate(n, link)
    <3>1. n.kind \in Interiors /\ Shape(n) /\ Ordered(n, l, h)
      BY <1>3, <2>2 DEF IsLeaf, PageInOrder, Shape
    <3>2. \A j \in 1 .. Size(n) + 1 : n.links[j] = n.links[i] => j = i
      BY <1>3, <1>4, <3>1, ChildrenDiffer
    <3>3. Widened(d, n, i, k, n.links[i + 1], l, h)
      BY <1>3, <1>4, <3>1, <3>2, DeleteWidens
    <3>4. m = d
      BY <2>2
    <3> HIDE DEF d, m, n, k, link
    <3>5. PageInOrder(m, l, h)
      BY <1>3, <3>3, <3>4, NarrowedInOrder
    <3>6. m \in Node /\ Size(n) = Size(m) + 1 /\ Size(m) \in Nat
      BY <3>3, <3>4, NodeFields DEF Widened
    <3> QED
      BY <3>3, <3>4, <3>5, <3>6 DEF Widened
  <2> QED
    BY <2>1, <2>2
<1> HIDE DEF m, n
<1>7. Size(m) <= NodesUp /\ (nodes.up # Blank => Size(m) >= NodesDown - 1)
  BY <1>3, <1>4, <1>5, <1>6, NodesDownIs
<1>8. m.kind = "Root" => Size(m) >= 1
  <2>1. CASE nodes.up = Blank
    <3>1. n.kind = "Root" => Size(n) > 1
      BY <1>1, <2>1 DEF MayLose, n
    <3> QED
      BY <1>4, <1>6, <3>1
  <2>2. CASE nodes.up # Blank
    BY <1>4, <1>5, <1>6, <2>2, NodesDownIs
  <2> QED
    BY <2>1, <2>2
<1> QED
  BY <1>1, <1>2, <1>3, <1>6, <1>7, <1>8, EditedInOrder DEF n

(* The parent with a key and a page more, behind link u ...                    *)
LEMMA UpWithOneMore ==
  ASSUME NEW up \in Node, Shape(up), up.kind = "Root", Ordered(up, 0, KeysEnd),
         IsInjective(up.links), NEW u \in 1 .. Size(up) + 1, NEW sep \in Keys,
         UpFence(up, u - 1) < sep, sep < UpFence(up, u),
         NEW m \in Numbers, m \notin ToSet(up.links),
         NEW up2, up2 = InsertIntoIntermediate(up, sep, m)
  PROVE  /\ up2 \in Node /\ Shape(up2) /\ up2.kind = "Root" /\ Ordered(up2, 0, KeysEnd)
         /\ IsInjective(up2.links) /\ Size(up2) = Size(up) + 1
         /\ up2.number = up.number /\ up2.parent = up.parent
         /\ up2.links[u] = up.links[u] /\ up2.links[u + 1] = m
         /\ UpFence(up2, u - 1) = UpFence(up, u - 1) /\ UpFence(up2, u) = sep
         /\ UpFence(up2, u + 1) = UpFence(up, u)
<1>1. /\ up.kind \in Interiors /\ Size(up) \in Nat /\ Len(up.links) = Size(up) + 1
      /\ \A i, j \in 1 .. Size(up) + 1 : up.links[i] = up.links[j] => i = j
  BY UpIs
<1>2. Widened(up, up2, u, sep, m, 0, KeysEnd)
  BY <1>1, EditKeys, InsertWidens DEF UpFence
<1>3. /\ up2 \in Node /\ Shape(up2) /\ up2.kind = "Root" /\ Ordered(up2, 0, KeysEnd)
      /\ Size(up2) = Size(up) + 1
      /\ up2.number = up.number /\ up2.parent = up.parent
  BY <1>2 DEF Widened
<1>4. /\ up2.links[u] = up.links[u] /\ up2.links[u + 1] = m
      /\ UpFence(up2, u - 1) = UpFence(up, u - 1) /\ UpFence(up2, u) = sep
      /\ UpFence(up2, u + 1) = UpFence(up, u)
  <2>1. /\ u - 1 \in 0 .. Size(up) + 2 /\ u \in 0 .. Size(up) + 2 /\ u + 1 \in 0 .. Size(up) + 2
        /\ u \in 1 .. Size(up) + 2 /\ u + 1 \in 1 .. Size(up) + 2
        /\ u - 1 < u /\ ~(u < u) /\ ~(u + 1 < u) /\ u + 1 # u /\ (u + 1) - 1 = u
        /\ u <= u /\ ~(u + 1 <= u)
    BY <1>1
  <2> QED
    BY <1>2, <2>1 DEF Widened, UpFence
<1>5. IsInjective(up2.links)
  <2>1. DOMAIN up2.links = 1 .. Size(up) + 2
    <3>1. Len(up2.links) = Size(up2) + 1 /\ up2.links \in Seq(Numbers)
      BY <1>1, <1>3, NodeFields DEF Shape
    <3>2. Len(up2.links) = Size(up) + 2
      BY <1>1, <1>3, <3>1
    <3> QED
      BY <3>1, <3>2, LenProperties
  <2>2. \A j \in 1 .. Size(up) + 2 :
          up2.links[j] = IF j <= u THEN up.links[j]
                         ELSE IF j = u + 1 THEN m ELSE up.links[j - 1]
    BY <1>2 DEF Widened
  <2>3. \A j \in 1 .. Size(up) + 1 : up.links[j] # m
    <3>1. DOMAIN up.links = 1 .. Size(up) + 1
      BY <1>1, NodeFields, LenProperties
    <3> QED
      BY <3>1 DEF ToSet
  <2>4. ASSUME NEW i \in 1 .. Size(up) + 2, NEW j \in 1 .. Size(up) + 2,
               up2.links[i] = up2.links[j], i < j
        PROVE  FALSE
    <3>1. CASE j <= u
      <4>1. i <= u /\ i \in 1 .. Size(up) + 1 /\ j \in 1 .. Size(up) + 1
        BY <1>1, <2>4, <3>1
      <4> QED
        BY <1>1, <2>2, <2>4, <3>1, <4>1
    <3>2. CASE j = u + 1
      <4>1. i <= u /\ i \in 1 .. Size(up) + 1 /\ ~(j <= u)
        BY <1>1, <2>4, <3>2
      <4> QED
        BY <2>2, <2>3, <2>4, <3>2, <4>1
    <3>3. CASE j > u + 1
      <4>1. ~(j <= u) /\ j # u + 1 /\ j - 1 \in 1 .. Size(up) + 1 /\ up2.links[j] = up.links[j - 1]
        BY <1>1, <2>2, <2>4, <3>3
      <4>2. CASE i <= u
        <5>1. i \in 1 .. Size(up) + 1 /\ i # j - 1 /\ up2.links[i] = up.links[i]
          BY <1>1, <2>2, <3>3, <4>2
        <5> QED
          BY <1>1, <2>4, <4>1, <5>1
      <4>3. CASE i = u + 1
        <5>1. ~(i <= u)
          BY <1>1, <4>3
        <5> QED
          BY <2>2, <2>3, <2>4, <4>1, <4>3, <5>1
      <4>4. CASE i > u + 1
        <5>1. ~(i <= u) /\ i # u + 1 /\ i - 1 \in 1 .. Size(up) + 1 /\ i - 1 # j - 1
              /\ up2.links[i] = up.links[i - 1]
          BY <1>1, <2>2, <2>4, <4>4
        <5> QED
          BY <1>1, <2>4, <4>1, <5>1
      <4> QED
        BY <1>1, <4>2, <4>3, <4>4
    <3> QED
      BY <1>1, <3>1, <3>2, <3>3
  <2>5. ASSUME NEW i \in 1 .. Size(up) + 2, NEW j \in 1 .. Size(up) + 2,
               up2.links[i] = up2.links[j]
        PROVE  i = j
    <3>1. ~(i < j) /\ ~(j < i)
      BY <2>4, <2>5
    <3> QED
      BY <1>1, <3>1
  <2> QED
    BY <2>1, <2>5 DEF IsInjective
<1> QED
  BY <1>3, <1>4, <1>5

(* ... and with one less.                                                      *)
LEMMA UpWithOneLess ==
  ASSUME NEW up \in Node, Shape(up), up.kind = "Root", Ordered(up, 0, KeysEnd),
         IsInjective(up.links), NEW u \in 1 .. Size(up),
         NEW up2, up2 = DeleteKeyIntermediate(up, up.links[u])
  PROVE  /\ up2 \in Node /\ Shape(up2) /\ up2.kind = "Root" /\ Ordered(up2, 0, KeysEnd)
         /\ IsInjective(up2.links) /\ Size(up2) = Size(up) - 1
         /\ up2.number = up.number /\ up2.parent = up.parent
         /\ up2.links[u] = up.links[u] /\ up.links[u + 1] \notin ToSet(up2.links)
         /\ UpFence(up2, u - 1) = UpFence(up, u - 1)
         /\ UpFence(up2, u) = UpFence(up, u + 1)
         /\ up.links[u + 1] \in Numbers
<1>1. /\ up.kind \in Interiors /\ Size(up) \in Nat /\ Len(up.links) = Size(up) + 1
      /\ \A i, j \in 1 .. Size(up) + 1 : up.links[i] = up.links[j] => i = j
  BY UpIs
<1>2. Widened(up2, up, u, up.keys[u], up.links[u + 1], 0, KeysEnd)
  <2>1. \A j \in 1 .. Size(up) + 1 : up.links[j] = up.links[u] => j = u
    BY <1>1
  <2> QED
    BY <1>1, <2>1, EditKeys, DeleteWidens
<1>3. /\ up2 \in Node /\ Shape(up2) /\ up2.kind = "Root" /\ Ordered(up2, 0, KeysEnd)
      /\ Size(up2) \in Nat /\ Size(up) = Size(up2) + 1 /\ Size(up2) = Size(up) - 1
      /\ up2.number = up.number /\ up2.parent = up.parent
  <2>1. up2 \in Node /\ Size(up) = Size(up2) + 1
    BY <1>2 DEF Widened
  <2>2. Size(up2) \in Nat
    BY <2>1, NodeFields
  <2>3. Size(up2) = Size(up) - 1
    BY <1>1, <2>1, <2>2
  <2> QED
    BY <1>2, <2>1, <2>2, <2>3 DEF Widened
<1>4. \A j \in 1 .. Size(up2) + 2 :
        up.links[j] = IF j <= u THEN up2.links[j]
                      ELSE IF j = u + 1 THEN up.links[u + 1] ELSE up2.links[j - 1]
  BY <1>2 DEF Widened
<1>5. /\ up2.links[u] = up.links[u]
      /\ UpFence(up2, u - 1) = UpFence(up, u - 1)
      /\ UpFence(up2, u) = UpFence(up, u + 1)
  <2>1. /\ u - 1 \in 0 .. Size(up2) + 2 /\ u + 1 \in 0 .. Size(up2) + 2
        /\ u \in 1 .. Size(up2) + 2
        /\ u - 1 < u /\ ~(u + 1 < u) /\ u + 1 # u /\ (u + 1) - 1 = u /\ u <= u
    BY <1>1, <1>3
  <2> QED
    BY <1>2, <1>4, <2>1 DEF Widened, UpFence
<1>6. \A j \in 1 .. Size(up) : up2.links[j] = IF j <= u THEN up.links[j] ELSE up.links[j + 1]
  <2> SUFFICES ASSUME NEW j \in 1 .. Size(up)
               PROVE  up2.links[j] = IF j <= u THEN up.links[j] ELSE up.links[j + 1]
    OBVIOUS
  <2>1. CASE j <= u
    BY <1>3, <1>4, <2>1
  <2>2. CASE ~(j <= u)
    <3>1. j + 1 \in 1 .. Size(up2) + 2 /\ ~(j + 1 <= u) /\ j + 1 # u + 1 /\ (j + 1) - 1 = j
      BY <1>1, <1>3, <2>2
    <3> QED
      BY <1>4, <2>2, <3>1
  <2> QED
    BY <2>1, <2>2
<1>7. DOMAIN up2.links = 1 .. Size(up)
  <2>1. Len(up2.links) = Size(up2) + 1 /\ up2.links \in Seq(Numbers)
    BY <1>1, <1>2, <1>3, NodeFields DEF Shape, Widened
  <2> QED
    BY <1>3, <2>1, LenProperties
<1>8. IsInjective(up2.links)
  <2>1. ASSUME NEW i \in 1 .. Size(up), NEW j \in 1 .. Size(up), up2.links[i] = up2.links[j]
        PROVE  i = j
    <3> DEFINE a == IF i <= u THEN i ELSE i + 1
               b == IF j <= u THEN j ELSE j + 1
    <3>1. a \in 1 .. Size(up) + 1 /\ b \in 1 .. Size(up) + 1 /\ (a = b => i = j)
      BY <1>1
    <3>2. up2.links[i] = up.links[a] /\ up2.links[j] = up.links[b]
      BY <1>6
    <3> HIDE DEF a, b
    <3> QED
      BY <1>1, <2>1, <3>1, <3>2
  <2> QED
    BY <1>7, <2>1 DEF IsInjective
<1>9. up.links[u + 1] \notin ToSet(up2.links)
  <2>1. ASSUME NEW j \in 1 .. Size(up) PROVE up2.links[j] # up.links[u + 1]
    <3> DEFINE b == IF j <= u THEN j ELSE j + 1
    <3>1. b \in 1 .. Size(up) + 1 /\ u + 1 \in 1 .. Size(up) + 1 /\ b # u + 1
      BY <1>1
    <3>2. up2.links[j] = up.links[b]
      BY <1>6
    <3> HIDE DEF b
    <3> QED
      BY <1>1, <3>1, <3>2
  <2> QED
    BY <1>7, <2>1 DEF ToSet
<1>10. up.links[u + 1] \in Numbers
  BY <1>1, NodeFields, LenProperties
<1> QED
  BY <1>3, <1>5, <1>8, <1>9, <1>10

(* The parts of a leaf within their bounds ...                                 *)
LEMMA LeafPartsInOrder ==
  ASSUME NEW N, NEW A, NEW B, NEW c, NEW l, NEW sep, NEW h, LeafHalves(N, A, B, c, l, sep, h)
  PROVE  PageInOrder(A, l, sep) /\ PageInOrder(B, sep, h)
  BY Kinds DEF LeafHalves, Halves, PageInOrder

(* ... and those of an inner page, which share its children ...                *)
LEMMA InnerPartsInOrder ==
  ASSUME NEW N, NEW A, NEW B, NEW c, NEW l, NEW sep, NEW h,
         InnerHalves(N, A, B, c, l, sep, h), PageInOrder(N, l, h)
  PROVE  PageInOrder(A, l, sep) /\ PageInOrder(B, sep, h)
<1>1. /\ N.kind \in Interiors /\ Size(N) \in Nat /\ c \in 0 .. Size(N) - 1
      /\ A \in Node /\ Size(A) = c /\ B \in Node /\ Size(B) = Size(N) - c - 1
      /\ Shape(A) /\ Ordered(A, l, sep) /\ Shape(B) /\ Ordered(B, sep, h)
  BY NodeFields DEF InnerHalves, Halves
<1>2. \A i \in 0 .. Size(N) : N.links[i + 1] = Child(Fence(N, l, h, i))
  BY <1>1 DEF PageInOrder
<1>3. ASSUME NEW i \in 0 .. Size(A) PROVE A.links[i + 1] = Child(Fence(A, l, sep, i))
  <2>1. i \in 0 .. c + 1 /\ i + 1 \in 1 .. c + 1 /\ i \in 0 .. Size(N)
    BY <1>1
  <2> QED
    BY <1>2, <2>1 DEF InnerHalves
<1>4. ASSUME NEW i \in 0 .. Size(B) PROVE B.links[i + 1] = Child(Fence(B, sep, h, i))
  <2>1. /\ i \in 0 .. Size(N) - c /\ i + 1 \in 1 .. Size(N) - c /\ c + 1 + i \in 0 .. Size(N)
        /\ (c + 1 + i) + 1 = c + 1 + (i + 1)
    BY <1>1
  <2>2. N.links[(c + 1 + i) + 1] = Child(Fence(N, l, h, c + 1 + i))
    BY <1>2, <2>1
  <2>3. B.links[i + 1] = N.links[c + 1 + (i + 1)]
    BY <2>1 DEF InnerHalves
  <2> QED
    BY <2>1, <2>2, <2>3 DEF InnerHalves
<1> QED
  BY <1>1, <1>3, <1>4 DEF PageInOrder

(* ... as the whole does with its parts.                                       *)
LEMMA InnerWholeInOrder ==
  ASSUME NEW N, NEW A, NEW B, NEW c, NEW l, NEW sep, NEW h,
         InnerHalves(N, A, B, c, l, sep, h), PageInOrder(A, l, sep), PageInOrder(B, sep, h)
  PROVE  PageInOrder(N, l, h)
<1>1. /\ N.kind \in Interiors /\ Size(N) \in Nat /\ c \in 0 .. Size(N) - 1
      /\ A.kind = N.kind /\ B.kind = N.kind
      /\ A \in Node /\ Size(A) = c /\ B \in Node /\ Size(B) = Size(N) - c - 1
      /\ Shape(N) /\ Ordered(N, l, h)
  BY NodeFields DEF InnerHalves, Halves
<1>2. \A i \in 0 .. c : A.links[i + 1] = Child(Fence(A, l, sep, i))
  BY <1>1 DEF PageInOrder
<1>3. \A i \in 0 .. Size(N) - c - 1 : B.links[i + 1] = Child(Fence(B, sep, h, i))
  BY <1>1 DEF PageInOrder
<1>4. ASSUME NEW i \in 0 .. Size(N) PROVE N.links[i + 1] = Child(Fence(N, l, h, i))
  <2>1. CASE i <= c
    <3>1. i \in 0 .. c + 1 /\ i + 1 \in 1 .. c + 1 /\ i \in 0 .. c
      BY <1>1, <2>1
    <3>2. A.links[i + 1] = N.links[i + 1] /\ Fence(A, l, sep, i) = Fence(N, l, h, i)
      BY <3>1 DEF InnerHalves
    <3> QED
      BY <1>2, <3>1, <3>2
  <2>2. CASE i > c
    <3> DEFINE j == i - c - 1
    <3>1. /\ j \in 0 .. Size(N) - c - 1 /\ j \in 0 .. Size(N) - c /\ j + 1 \in 1 .. Size(N) - c
          /\ c + 1 + j = i /\ c + 1 + (j + 1) = i + 1
      BY <1>1, <2>2
    <3> HIDE DEF j
    <3>2. B.links[j + 1] = N.links[c + 1 + (j + 1)]
          /\ Fence(B, sep, h, j) = Fence(N, l, h, c + 1 + j)
      BY <3>1 DEF InnerHalves
    <3> QED
      BY <1>3, <3>1, <3>2
  <2> QED
    BY <1>1, <2>1, <2>2
<1> QED
  BY <1>1, <1>4 DEF PageInOrder

(* A new root over two pages.                                                  *)
LEMMA CreateRootInOrder ==
  ASSUME NEW m \in Numbers, NEW sep \in Keys, NEW a \in Numbers, NEW b \in Numbers, a # b,
         NEW up, up = CreateRoot(m, sep, a, b)
  PROVE  /\ up \in Node /\ Shape(up) /\ up.kind = "Root" /\ Size(up) = 1 /\ up # Blank
         /\ Ordered(up, 0, KeysEnd) /\ IsInjective(up.links)
         /\ up.links[1] = a /\ up.links[2] = b
         /\ UpFence(up, 0) = 0 /\ UpFence(up, 1) = sep /\ UpFence(up, 2) = KeysEnd
<1>1. up = [kind |-> "Root", number |-> m, parent |-> 0,
            keys |-> <<sep>>, vals |-> <<>>, links |-> <<a, b>>]
  BY DEF CreateRoot, Blank
<1>2. 0 \in Numbers /\ <<sep>> \in Seq(Keys) /\ <<>> \in Seq(Values) /\ <<a, b>> \in Seq(Numbers)
  BY DEF Numbers
<1>3. up \in Node /\ up.kind = "Root" /\ Size(up) = 1
  BY <1>1, <1>2 DEF Node, Interiors, Size
<1>4. Shape(up) /\ up # Blank /\ up.keys[1] = sep /\ up.links[1] = a /\ up.links[2] = b
  BY <1>1, <1>3, Kinds DEF Shape, Blank
<1>5. DOMAIN up.links = {1, 2}
  BY <1>1
<1>6. IsInjective(up.links)
  BY <1>4, <1>5 DEF IsInjective
<1>7. Ordered(up, 0, KeysEnd)
  BY <1>3, <1>4, EditKeys DEF Ordered
<1>8. UpFence(up, 0) = 0 /\ UpFence(up, 1) = sep /\ UpFence(up, 2) = KeysEnd
  BY <1>3, <1>4 DEF UpFence, Fence
<1> QED
  BY <1>3, <1>4, <1>6, <1>7, <1>8

(* A page that was alone and is divided in two, under its parent ...           *)
LEMMA DividedUnderParent ==
  ASSUME TypeOK, InOrder, nodes.up # Blank, Size(nodes.up) < NodesUp,
         NEW l, NEW h, Bounds("p", l, h), NEW sep \in Keys, l < sep, sep < h,
         NEW p \in Node, NEW s \in Node, PageInOrder(p, l, sep), PageInOrder(s, sep, h),
         p.kind \in {"Leaf", "Intermediate"}, s.kind = p.kind, s.parent = p.parent,
         p.number = nodes.p.number, s.number = FreeNumber(1),
         Size(p) \in NodesDown .. NodesUp, Size(s) \in NodesDown .. NodesUp,
         nodes' = Pair(p, s, InsertIntoIntermediate(nodes.up, sep, s.number)),
         DOMAIN pages' = DOMAIN nodes
  PROVE  TypeOK' /\ InOrder'
<1> DEFINE up == nodes.up
           up2 == InsertIntoIntermediate(up, sep, s.number)
<1>1. /\ up \in Node /\ Shape(up) /\ up.kind = "Root" /\ Ordered(up, 0, KeysEnd)
      /\ IsInjective(up.links) /\ DOMAIN nodes = {"p", "s", "up"} /\ Size(up) \in Nat
  BY TypesOfPages, NodeFields DEF InOrder, NeighboursInOrder
<1>2. PICK u \in 1 .. Size(up) + 1 :
        up.links[u] = p.number /\ l = UpFence(up, u - 1) /\ h = UpFence(up, u)
  BY DEF Bounds
<1>3. s.number \in Numbers /\ s.number \notin ToSet(up.links)
  BY FreeNumbers
<1> HIDE DEF up2
<1>4. /\ up2 \in Node /\ Shape(up2) /\ up2.kind = "Root" /\ Ordered(up2, 0, KeysEnd)
      /\ IsInjective(up2.links) /\ Size(up2) = Size(up) + 1
      /\ up2.links[u] = p.number /\ up2.links[u + 1] = s.number
      /\ UpFence(up2, u - 1) = l /\ UpFence(up2, u) = sep /\ UpFence(up2, u + 1) = h
  BY <1>1, <1>2, <1>3, UpWithOneMore DEF up2
<1>5. u \in 1 .. Size(up2) + 1 /\ u + 1 \in 1 .. Size(up2) + 1 /\ (u + 1) - 1 = u
  BY <1>1, <1>4
<1>6. Size(p) >= NodesDown - 1 /\ Size(s) >= NodesDown - 1 /\ Size(p) <= NodesUp /\ Size(s) <= NodesUp
      /\ Size(up2) <= NodesUp /\ Size(up2) >= 1
  BY <1>1, <1>4, NodesDownIs
<1>7. BelowInOrder(p, up2, u) /\ BelowInOrder(s, up2, u + 1)
  BY <1>4, <1>5, <1>6 DEF BelowInOrder
<1>8. up2 # Blank
  BY <1>4 DEF Blank
<1>9. NeighboursInOrder(p, s, up2)
  BY <1>4, <1>5, <1>6, <1>7, <1>8 DEF NeighboursInOrder
<1>10. Sound(p) /\ Sound(s) /\ Sound(up2)
  BY <1>4, <1>6 DEF Sound, PageInOrder
<1>11. nodes' = Pair(p, s, up2)
  BY DEF up2
<1> QED
  BY <1>1, <1>9, <1>10, <1>11, StepKeeps

(* ... or under a new root.                                                    *)
LEMMA DividedUnderRoot ==
  ASSUME TypeOK, NEW sep \in Keys,
         NEW p \in Node, NEW s \in Node, PageInOrder(p, 0, sep), PageInOrder(s, sep, KeysEnd),
         p.kind \in {"Leaf", "Intermediate"}, s.kind = p.kind, s.parent = p.parent,
         p.number = nodes.p.number, s.number = FreeNumber(1),
         Size(p) \in NodesDown .. NodesUp, Size(s) \in NodesDown .. NodesUp,
         nodes' = Pair(p, s, CreateRoot(FreeNumber(2), sep, p.number, s.number)),
         DOMAIN pages' = DOMAIN nodes
  PROVE  TypeOK' /\ InOrder'
<1> DEFINE up2 == CreateRoot(FreeNumber(2), sep, p.number, s.number)
<1>1. p.number \in Numbers /\ s.number \in Numbers /\ p.number # s.number /\ FreeNumber(2) \in Numbers
      /\ DOMAIN nodes = {"p", "s", "up"}
  BY FreeNumbers, TypesOfPages, NodeFields
<1> HIDE DEF up2
<1>2. /\ up2 \in Node /\ Shape(up2) /\ up2.kind = "Root" /\ Size(up2) = 1 /\ up2 # Blank
      /\ Ordered(up2, 0, KeysEnd) /\ IsInjective(up2.links)
      /\ up2.links[1] = p.number /\ up2.links[2] = s.number
      /\ UpFence(up2, 0) = 0 /\ UpFence(up2, 1) = sep /\ UpFence(up2, 2) = KeysEnd
  BY <1>1, CreateRootInOrder DEF up2
<1>3. Size(p) >= NodesDown - 1 /\ Size(s) >= NodesDown - 1 /\ Size(p) <= NodesUp /\ Size(s) <= NodesUp
      /\ Size(up2) <= NodesUp
  BY <1>2, NodesDownIs
<1>4. BelowInOrder(p, up2, 1) /\ BelowInOrder(s, up2, 1 + 1)
  BY <1>2, <1>3 DEF BelowInOrder
<1>5. NeighboursInOrder(p, s, up2)
  BY <1>2, <1>4 DEF NeighboursInOrder
<1>6. Sound(p) /\ Sound(s) /\ Sound(up2)
  BY <1>2, <1>3 DEF Sound, PageInOrder
<1>7. nodes' = Pair(p, s, up2)
  BY DEF up2
<1> QED
  BY <1>1, <1>5, <1>6, <1>7, StepKeeps

(* The numbers of the two pages of a divided one.                              *)
LEMMA DividedNumbers ==
  ASSUME NEW n \in Node, NEW k, NEW v, NEW link, NEW m
  PROVE  /\ DivideLeaf(n, k, v, m).p.number = n.number
         /\ DivideLeaf(n, k, v, m).s.number = m
         /\ DivideIntermediate(n, k, link, m).p.number = n.number
         /\ DivideIntermediate(n, k, link, m).s.number = m
<1> DEFINE Has(x) == /\ "number" \in DOMAIN x /\ x.number = n.number
                     /\ DOMAIN x = DOMAIN n
<1>1. Has(n)
  BY DEF Node
<1>2. ASSUME NEW x, Has(x), NEW a, NEW b
      PROVE  Has([x EXCEPT !.keys = a, !.vals = b]) /\ Has([x EXCEPT !.keys = a, !.links = b])
             /\ Has([x EXCEPT !.kind = a])
  BY <1>2
<1>3. ASSUME NEW x, Has(x) PROVE [x EXCEPT !.number = m].number = m
  BY <1>3
<1> HIDE DEF Has
<1>4. \A x : Has(x) => /\ \A i, j : Has(LeafPart(x, i, j)) /\ Has(NodePart(x, i, j))
                       /\ Has(InsertIntoLeaf(x, k, v)) /\ Has(InsertIntoIntermediate(x, k, link))
  BY <1>2 DEF LeafPart, NodePart, InsertIntoLeaf, InsertIntoIntermediate
<1>5. Has([n EXCEPT !.kind = "Leaf"]) /\ Has([n EXCEPT !.kind = "Intermediate"])
  BY <1>1, <1>2
<1> DEFINE x == InsertIntoLeaf([n EXCEPT !.kind = "Leaf"], k, v)
           y == InsertIntoIntermediate([n EXCEPT !.kind = "Intermediate"], k, link)
           c == (Size(n) + 1) \div 2
<1>6. Has(x) /\ Has(y)
  BY <1>4, <1>5
<1>7. DivideLeaf(n, k, v, m) = [p |-> LeafPart(x, 1, c),
                                s |-> [LeafPart(x, c + 1, Size(x)) EXCEPT !.number = m]]
  BY DEF DivideLeaf
<1>8. DivideIntermediate(n, k, link, m) =
        [p |-> NodePart(y, 1, c), key |-> y.keys[c + 1],
         s |-> [NodePart(y, c + 2, Size(y)) EXCEPT !.number = m]]
  BY DEF DivideIntermediate
<1> HIDE DEF x, y, c
<1> DEFINE P == LeafPart(x, 1, c)
           Q == NodePart(y, 1, c)
           key == y.keys[c + 1]
           S == [LeafPart(x, c + 1, Size(x)) EXCEPT !.number = m]
           R == [NodePart(y, c + 2, Size(y)) EXCEPT !.number = m]
<1>9. /\ DivideLeaf(n, k, v, m) = [p |-> P, s |-> S]
       /\ DivideIntermediate(n, k, link, m) = [p |-> Q, key |-> key, s |-> R]
  BY <1>7, <1>8
<1>10. /\ Has(LeafPart(x, 1, c)) /\ Has(LeafPart(x, c + 1, Size(x)))
      /\ Has(NodePart(y, 1, c)) /\ Has(NodePart(y, c + 2, Size(y)))
  BY <1>4, <1>6
<1>11. /\ P.number = n.number /\ Q.number = n.number
       /\ S.number = m /\ R.number = m
  BY <1>3, <1>10 DEF Has
<1> HIDE DEF P, Q, S, R, key
<1>12. /\ DivideLeaf(n, k, v, m).p = P /\ DivideLeaf(n, k, v, m).s = S
       /\ DivideIntermediate(n, k, link, m).p = Q /\ DivideIntermediate(n, k, link, m).s = R
  BY <1>9
<1> QED
  BY <1>11, <1>12

(* A root as it is under a new one.                                            *)
LEMMA LoweredInOrder ==
  ASSUME NEW n \in Node, NEW kind, NEW r \in Numbers, NEW l, NEW h,
         n.kind \in {"RootLeaf", "Root"},
         kind = IF n.kind = "RootLeaf" THEN "Leaf" ELSE "Intermediate",
         PageInOrder(n, l, h), NEW n0, n0 = Lowered(n, kind, r)
  PROVE  /\ n0 \in Node /\ PageInOrder(n0, l, h) /\ n0.kind = kind /\ n0.parent = r
         /\ n0.number = n.number /\ n0.keys = n.keys /\ Size(n0) = Size(n)
         /\ n0.links = n.links
<1>1. /\ n0 \in Node /\ n0.kind = kind /\ n0.parent = r /\ n0.number = n.number
      /\ n0.keys = n.keys /\ n0.vals = n.vals /\ n0.links = n.links
  BY Kinds DEF Lowered, Node
<1>2. Size(n0) = Size(n) /\ \A i : Fence(n0, l, h, i) = Fence(n, l, h, i)
  BY <1>1 DEF Size, Fence
<1> QED
  BY <1>1, <1>2, Kinds DEF PageInOrder, Shape, Ordered

LEMMA DivideLeafPageKeeps ==
  ASSUME TypeOK, InOrder, NEW k \in Keys, NEW v \in Values, DivideLeafPage(k, v)
  PROVE  TypeOK' /\ InOrder'
<1> DEFINE n == nodes.p
           m == FreeNumber(1)
           r == FreeNumber(2)
           d == DivideLeaf(n, k, v, m)
<1>1. /\ Reaches(k, "p") /\ k \notin ToSet(n.keys) /\ IsLeaf(n) /\ Size(n) = NodesUp
      /\ n # Blank /\ "p" \in Places
  BY DEF DivideLeafPage, NewKey, Reaches, Places
<1>2. PICK l \in Nat, h \in Nat :
        /\ Bounds("p", l, h) /\ PageInOrder(n, l, h) /\ l < h /\ n \in Node
        /\ l <= k /\ k < h
        /\ nodes.up # Blank => n.kind \in {"Leaf", "Intermediate"}
        /\ nodes.up = Blank => n.kind \in {"RootLeaf", "Root"}
  BY <1>1, HasBounds
<1>3. \A i \in 1 .. Size(n) : n.keys[i] # k
  BY <1>1, <1>2, NotAmong
<1>4. m \in Numbers /\ r \in Numbers /\ DOMAIN nodes = {"p", "s", "up"}
  BY FreeNumbers, TypesOfPages
<1>5. ASSUME NEW n0 \in Node, n0.kind = "Leaf", PageInOrder(n0, l, h), n0.keys = n.keys,
             NEW d0, d0 = DivideLeaf(n0, k, v, m)
      PROVE  /\ d0.p \in Node /\ d0.s \in Node /\ Head(d0.s.keys) \in Keys
             /\ l < Head(d0.s.keys) /\ Head(d0.s.keys) < h
             /\ PageInOrder(d0.p, l, Head(d0.s.keys)) /\ PageInOrder(d0.s, Head(d0.s.keys), h)
             /\ d0.p.kind = "Leaf" /\ d0.s.kind = "Leaf"
             /\ d0.p.parent = n0.parent /\ d0.s.parent = n0.parent
             /\ d0.p.number = n0.number /\ d0.s.number = m
             /\ Size(d0.p) \in NodesDown .. NodesUp /\ Size(d0.s) \in NodesDown .. NodesUp
  <2> DEFINE N == InsertIntoLeaf(n0, k, v)
  <2>1. Shape(n0) /\ Ordered(n0, l, h) /\ Size(n0) = NodesUp
        /\ \A i \in 1 .. Size(n0) : n0.keys[i] # k
    BY <1>1, <1>3, <1>5 DEF PageInOrder, Size
  <2>2. /\ Updated(n0, N, k, v, 1, l, h)
        /\ LeafHalves(N, d0.p, d0.s, NodesDown, l, Head(d0.s.keys), h)
        /\ d0.s.number = m
    BY <1>2, <1>4, <1>5, <2>1, DivideLeafHalves
  <2> HIDE DEF N
  <2>3. /\ N.kind = "Leaf" /\ N.parent = n0.parent /\ N.number = n0.number
        /\ Size(N) = NodesUp + 1
    BY <1>5, <2>1, <2>2 DEF Updated
  <2>4. Size(d0.p) = NodesDown /\ Size(d0.s) = NodesUp + 1 - NodesDown
    <3>1. Size(d0.p) = NodesDown /\ Size(d0.s) = Size(N) - NodesDown
      BY <2>2 DEF LeafHalves, Halves
    <3> QED
      BY <2>3, <3>1, NodesDownIs
  <2>5. Size(d0.p) \in NodesDown .. NodesUp /\ Size(d0.s) \in NodesDown .. NodesUp
    BY <2>4, NodesDownIs
  <2> QED
    BY <2>2, <2>3, <2>5, LeafPartsInOrder DEF LeafHalves, Halves
<1>6. CASE nodes.up # Blank
  <2>1. n.kind = "Leaf"
    BY <1>1, <1>2, <1>6, Kinds DEF IsLeaf
  <2>2. /\ Size(nodes.up) < NodesUp
        /\ nodes' = Pair(d.p, d.s, InsertIntoIntermediate(nodes.up, Head(d.s.keys), d.s.number))
        /\ DOMAIN pages' = {"p", "s", "up"}
    BY <1>6 DEF DivideLeafPage, UnderParent, UnderNewRoot, Edit, Pair
  <2> HIDE DEF d, n, m, r
  <2>3. /\ d.p \in Node /\ d.s \in Node /\ Head(d.s.keys) \in Keys
        /\ l < Head(d.s.keys) /\ Head(d.s.keys) < h
        /\ PageInOrder(d.p, l, Head(d.s.keys)) /\ PageInOrder(d.s, Head(d.s.keys), h)
        /\ d.p.kind = "Leaf" /\ d.s.kind = "Leaf"
        /\ d.p.parent = n.parent /\ d.s.parent = n.parent
        /\ d.p.number = n.number /\ d.s.number = m
        /\ Size(d.p) \in NodesDown .. NodesUp /\ Size(d.s) \in NodesDown .. NodesUp
    BY <1>2, <1>5, <2>1 DEF d
  <2> QED
    BY <1>2, <1>4, <1>6, <2>2, <2>3, DividedUnderParent DEF n, m
<1>7. CASE nodes.up = Blank
  <2> DEFINE n0 == Lowered(n, "Leaf", r)
             d0 == DivideLeaf(n0, k, v, m)
  <2>1. n.kind = "RootLeaf" /\ l = 0 /\ h = KeysEnd
    BY <1>1, <1>2, <1>7, Kinds DEF IsLeaf, Bounds
  <2>2. /\ nodes' = Pair(Given(d.p, r), Given(d.s, r),
                         CreateRoot(r, Head(d.s.keys), d.p.number, d.s.number))
        /\ DOMAIN pages' = {"p", "s", "up"}
    BY <1>7 DEF DivideLeafPage, UnderParent, UnderNewRoot, Edit, Pair, Given
  <2> HIDE DEF d, n, m, r
  <2>3. /\ n0 \in Node /\ PageInOrder(n0, l, h) /\ n0.kind = "Leaf" /\ n0.parent = r
        /\ n0.number = n.number /\ n0.keys = n.keys
    BY <1>2, <1>4, <2>1, LoweredInOrder
  <2>4. d0.p = Given(d.p, r) /\ d0.s = Given(d.s, r)
    <3> HIDE DEF n0, d0
    <3> QED
      BY <1>2, DivideLeafParent DEF n0, d0, d
  <2>5. d.p.number = n.number /\ d.s.number = m
    BY <1>2, DividedNumbers DEF d
  <2> HIDE DEF n0
  <2>6. /\ d0.p \in Node /\ d0.s \in Node /\ Head(d0.s.keys) \in Keys
        /\ l < Head(d0.s.keys) /\ Head(d0.s.keys) < h
        /\ PageInOrder(d0.p, l, Head(d0.s.keys)) /\ PageInOrder(d0.s, Head(d0.s.keys), h)
        /\ d0.p.kind = "Leaf" /\ d0.s.kind = "Leaf"
        /\ d0.p.parent = n0.parent /\ d0.s.parent = n0.parent
        /\ d0.p.number = n0.number /\ d0.s.number = m
        /\ Size(d0.p) \in NodesDown .. NodesUp /\ Size(d0.s) \in NodesDown .. NodesUp
    BY <1>5, <2>3
  <2>7. d0.s.keys = d.s.keys
    BY <2>4 DEF Given
  <2> HIDE DEF d0
  <2>8. nodes' = Pair(d0.p, d0.s, CreateRoot(r, Head(d0.s.keys), d0.p.number, d0.s.number))
    BY <2>2, <2>3, <2>4, <2>5, <2>6, <2>7
  <2> QED
    BY <1>4, <2>1, <2>2, <2>3, <2>6, <2>8, DividedUnderRoot DEF n, m, r
<1> QED
  BY <1>6, <1>7

LEMMA DivideNodePageKeeps ==
  ASSUME TypeOK, InOrder, NEW k \in Keys, DivideNodePage(k)
  PROVE  TypeOK' /\ InOrder'
<1> DEFINE n == nodes.p
           m == FreeNumber(1)
           r == FreeNumber(2)
           d == DivideIntermediate(n, k, Child(k), m)
<1>1. /\ Reaches(k, "p") /\ k \notin ToSet(n.keys) /\ ~IsLeaf(n) /\ Size(n) = NodesUp
      /\ k \notin ToSet(nodes.up.keys) /\ n # Blank /\ "p" \in Places
  BY DEF DivideNodePage, NewKey, Reaches, Places
<1>2. PICK l \in Nat, h \in Nat :
        /\ Bounds("p", l, h) /\ PageInOrder(n, l, h) /\ l < h /\ n \in Node
        /\ l < k /\ k < h
        /\ nodes.up # Blank => n.kind \in {"Leaf", "Intermediate"}
        /\ nodes.up = Blank => n.kind \in {"RootLeaf", "Root"}
  BY <1>1, HasBounds
<1>3. \A i \in 1 .. Size(n) : n.keys[i] # k
  BY <1>1, <1>2, NotAmong
<1>4. m \in Numbers /\ r \in Numbers /\ DOMAIN nodes = {"p", "s", "up"} /\ Child(k) \in Numbers
  BY FreeNumbers, TypesOfPages, EditKeys
<1>5. ASSUME NEW n0 \in Node, n0.kind = "Intermediate", PageInOrder(n0, l, h), n0.keys = n.keys,
             NEW d0, d0 = DivideIntermediate(n0, k, Child(k), m)
      PROVE  /\ d0.p \in Node /\ d0.s \in Node /\ d0.key \in Keys
             /\ l < d0.key /\ d0.key < h
             /\ PageInOrder(d0.p, l, d0.key) /\ PageInOrder(d0.s, d0.key, h)
             /\ d0.p.kind = "Intermediate" /\ d0.s.kind = "Intermediate"
             /\ d0.p.parent = n0.parent /\ d0.s.parent = n0.parent
             /\ d0.p.number = n0.number /\ d0.s.number = m
             /\ Size(d0.p) \in NodesDown .. NodesUp /\ Size(d0.s) \in NodesDown .. NodesUp
  <2> DEFINE N == InsertIntoIntermediate(n0, k, Child(k))
             q == FindPos(n0, k) + 1
  <2>1. /\ Shape(n0) /\ Ordered(n0, l, h) /\ Size(n0) = NodesUp /\ n0.kind \in Interiors
        /\ \A i \in 1 .. Size(n0) : n0.keys[i] # k
    BY <1>1, <1>3, <1>5, Kinds DEF PageInOrder, Size
  <2>2. q \in 1 .. Size(n0) + 1 /\ Fence(n0, l, h, q - 1) < k /\ k < Fence(n0, l, h, q)
    BY <1>2, <2>1, FindPosFence
  <2> HIDE DEF q
  <2>3. Widened(n0, N, q, k, Child(k), l, h)
    BY <1>4, <2>1, <2>2, InsertWidens
  <2> DEFINE A == d0.p
             B == d0.s
             sep == d0.key
  <2>4. /\ N \in Node /\ Shape(N) /\ N.kind = "Intermediate" /\ N.parent = n0.parent
        /\ N.number = n0.number /\ Size(N) = NodesUp + 1 /\ Ordered(N, l, h)
    BY <1>5, <2>1, <2>3 DEF Widened
  <2>5. InnerHalves(N, A, B, NodesDown, l, sep, h) /\ B.number = m
    BY <1>4, <1>5, <2>1, <2>4, DivideIntermediateHalves
  <2>6. PageInOrder(N, l, h)
    BY <1>5, <2>3, WidenedInOrder
  <2> HIDE DEF N, A, B, sep
  <2>7. PageInOrder(A, l, sep) /\ PageInOrder(B, sep, h)
    BY <2>5, <2>6, InnerPartsInOrder
  <2>8. Size(A) = NodesDown /\ Size(B) = Size(N) - NodesDown - 1
    BY <2>5 DEF InnerHalves, Halves
  <2>9. Size(A) \in NodesDown .. NodesUp /\ Size(B) \in NodesDown .. NodesUp
    BY <2>4, <2>8, NodesDownIs
  <2>10. /\ A \in Node /\ B \in Node /\ sep \in Keys /\ l < sep /\ sep < h
         /\ A.kind = "Intermediate" /\ B.kind = "Intermediate"
         /\ A.parent = n0.parent /\ B.parent = n0.parent /\ A.number = n0.number
    BY <2>4, <2>5 DEF InnerHalves, Halves
  <2> QED
    BY <2>5, <2>7, <2>9, <2>10 DEF A, B, sep
<1>6. CASE nodes.up # Blank
  <2>1. n.kind = "Intermediate"
    BY <1>1, <1>2, <1>6, Kinds DEF IsLeaf
  <2>2. /\ Size(nodes.up) < NodesUp
        /\ nodes' = Pair(d.p, d.s, InsertIntoIntermediate(nodes.up, d.key, d.s.number))
        /\ DOMAIN pages' = {"p", "s", "up"}
    BY <1>6 DEF DivideNodePage, UnderParent, UnderNewRoot, Edit, Pair
  <2> HIDE DEF d, n, m, r
  <2>3. /\ d.p \in Node /\ d.s \in Node /\ d.key \in Keys
        /\ l < d.key /\ d.key < h
        /\ PageInOrder(d.p, l, d.key) /\ PageInOrder(d.s, d.key, h)
        /\ d.p.kind = "Intermediate" /\ d.s.kind = "Intermediate"
        /\ d.p.parent = n.parent /\ d.s.parent = n.parent
        /\ d.p.number = n.number /\ d.s.number = m
        /\ Size(d.p) \in NodesDown .. NodesUp /\ Size(d.s) \in NodesDown .. NodesUp
    BY <1>2, <1>5, <2>1 DEF d
  <2> QED
    BY <1>2, <1>4, <1>6, <2>2, <2>3, DividedUnderParent DEF n, m
<1>7. CASE nodes.up = Blank
  <2> DEFINE n0 == Lowered(n, "Intermediate", r)
             d0 == DivideIntermediate(n0, k, Child(k), m)
  <2>1. n.kind = "Root" /\ l = 0 /\ h = KeysEnd
    BY <1>1, <1>2, <1>7, Kinds DEF IsLeaf, Bounds
  <2>2. /\ nodes' = Pair(Given(d.p, r), Given(d.s, r),
                         CreateRoot(r, d.key, d.p.number, d.s.number))
        /\ DOMAIN pages' = {"p", "s", "up"}
    BY <1>7 DEF DivideNodePage, UnderParent, UnderNewRoot, Edit, Pair, Given
  <2> HIDE DEF d, n, m, r
  <2>3. /\ n0 \in Node /\ PageInOrder(n0, l, h) /\ n0.kind = "Intermediate" /\ n0.parent = r
        /\ n0.number = n.number /\ n0.keys = n.keys
    BY <1>2, <1>4, <2>1, LoweredInOrder
  <2>4. d0.p = Given(d.p, r) /\ d0.s = Given(d.s, r) /\ d0.key = d.key
    <3> HIDE DEF n0, d0
    <3> QED
      BY <1>2, DivideIntermediateParent DEF n0, d0, d
  <2>5. d.p.number = n.number /\ d.s.number = m
    BY <1>2, DividedNumbers DEF d
  <2> HIDE DEF n0
  <2>6. /\ d0.p \in Node /\ d0.s \in Node /\ d0.key \in Keys
        /\ l < d0.key /\ d0.key < h
        /\ PageInOrder(d0.p, l, d0.key) /\ PageInOrder(d0.s, d0.key, h)
        /\ d0.p.kind = "Intermediate" /\ d0.s.kind = "Intermediate"
        /\ d0.p.parent = n0.parent /\ d0.s.parent = n0.parent
        /\ d0.p.number = n0.number /\ d0.s.number = m
        /\ Size(d0.p) \in NodesDown .. NodesUp /\ Size(d0.s) \in NodesDown .. NodesUp
    BY <1>5, <2>3
  <2> HIDE DEF d0
  <2>7. nodes' = Pair(d0.p, d0.s, CreateRoot(r, d0.key, d0.p.number, d0.s.number))
    BY <2>2, <2>3, <2>4, <2>5, <2>6
  <2> QED
    BY <1>4, <2>1, <2>2, <2>3, <2>6, <2>7, DividedUnderRoot DEF n, m, r
<1> QED
  BY <1>6, <1>7

(* Two neighbours under their parent, one of which has lost too many keys.     *)
Neighbours(u, l, sep, h) ==
  LET p == nodes.p  s == nodes.s  up == nodes.up IN
  /\ p \in Node /\ s \in Node /\ up \in Node /\ Shape(up) /\ up.kind = "Root"
  /\ Ordered(up, 0, KeysEnd) /\ IsInjective(up.links) /\ Size(up) <= NodesUp
  /\ u \in 1 .. Size(up) /\ u + 1 \in 1 .. Size(up) + 1
  /\ up.links[u] = p.number /\ up.links[u + 1] = s.number
  /\ l = UpFence(up, u - 1) /\ sep = UpFence(up, u) /\ h = UpFence(up, u + 1)
  /\ l \in Nat /\ sep \in Keys /\ h \in Nat /\ l < sep /\ sep < h
  /\ p.kind \in {"Leaf", "Intermediate"} /\ s.kind = p.kind /\ s.parent = p.parent
  /\ PageInOrder(p, l, sep) /\ PageInOrder(s, sep, h)
  /\ Size(p) \in Nat /\ NodesDown - 1 <= Size(p) /\ Size(p) <= NodesUp
  /\ Size(s) \in Nat /\ NodesDown - 1 <= Size(s) /\ Size(s) <= NodesUp
  /\ KeyBehind(up, p.number) = sep

LEMMA HasNeighbours ==
  ASSUME TypeOK, InOrder, nodes.up # Blank, nodes.s # Blank
  PROVE  \E u, l, sep, h : Neighbours(u, l, sep, h)
<1> DEFINE p == nodes.p
           s == nodes.s
           up == nodes.up
<1>1. /\ p \in Node /\ s \in Node /\ up \in Node /\ Shape(up) /\ up.kind = "Root"
      /\ Ordered(up, 0, KeysEnd) /\ IsInjective(up.links) /\ Size(up) <= NodesUp
      /\ Size(up) \in Nat /\ Size(p) \in Nat /\ Size(s) \in Nat /\ Size(s) <= NodesUp
      /\ up.links \in Seq(Numbers) /\ Len(up.links) = Size(up) + 1
  BY TypesOfPages, NodeFields, Kinds DEF InOrder, NeighboursInOrder, Shape
<1>2. PICK u \in 1 .. Size(up) + 1 :
        /\ BelowInOrder(p, up, u) /\ BelowInOrder(s, up, u + 1)
        /\ s.kind = p.kind /\ s.parent = p.parent
  BY DEF InOrder, NeighboursInOrder
<1>3. p # Blank
  BY <1>2 DEF BelowInOrder, Blank
<1>4. Size(p) <= NodesUp
  BY <1>3, TypesOfPages
<1>5. u + 1 \in 1 .. Size(up) + 1 /\ u \in 1 .. Size(up) /\ (u + 1) - 1 = u
  BY <1>1, <1>2 DEF BelowInOrder
<1> DEFINE l == UpFence(up, u - 1)
           sep == UpFence(up, u)
           h == UpFence(up, u + 1)
<1> HIDE DEF p, s, up
<1>6. l \in Nat /\ sep \in Keys /\ h \in Nat /\ l < sep /\ sep < h /\ sep = up.keys[u]
  <2>1. /\ u - 1 \in 0 .. Size(up) + 1 /\ u \in 0 .. Size(up) + 1 /\ u + 1 \in 0 .. Size(up) + 1
        /\ u - 1 < u /\ u < u + 1
    BY <1>1, <1>5
  <2> QED
    BY <1>1, <1>5, <2>1, UpIs
<1>7. KeyBehind(up, p.number) = sep
  <2>1. /\ up.links[u] = p.number /\ u \in 1 .. Len(up.links)
        /\ \A j \in 1 .. Len(up.links) : up.links[j] = up.links[u] => j = u
    BY <1>1, <1>2, UpIs DEF BelowInOrder
  <2>2. IndexIn(up.links, p.number) = u
    BY <1>1, <2>1, IndexInIs
  <2> QED
    BY <1>6, <2>2, KeyBehindAt
<1>8. /\ NodesDown - 1 <= Size(p) /\ NodesDown - 1 <= Size(s)
      /\ p.kind \in {"Leaf", "Intermediate"}
      /\ up.links[u] = p.number /\ up.links[u + 1] = s.number
      /\ PageInOrder(p, l, sep) /\ PageInOrder(s, sep, h)
  BY <1>2, <1>5, NodesDownIs DEF BelowInOrder
<1>9. Neighbours(u, l, sep, h)
  BY <1>1, <1>2, <1>4, <1>5, <1>6, <1>7, <1>8 DEF Neighbours, p, s, up
<1> QED
  BY <1>9

(* The parent with another key between the two.                                *)
LEMMA NewSeparatorInOrder ==
  ASSUME NEW u, NEW l, NEW sep, NEW h, Neighbours(u, l, sep, h),
         NEW sep2 \in Keys, l < sep2, sep2 < h,
         NEW up2, up2 = NewSeparator(nodes.up, nodes.p.number, nodes.s.number, sep2)
  PROVE  /\ up2 \in Node /\ Shape(up2) /\ up2.kind = "Root" /\ Ordered(up2, 0, KeysEnd)
         /\ IsInjective(up2.links) /\ Size(up2) = Size(nodes.up)
         /\ u \in 1 .. Size(up2) + 1 /\ u + 1 \in 1 .. Size(up2) + 1 /\ (u + 1) - 1 = u
         /\ up2.links[u] = nodes.p.number /\ up2.links[u + 1] = nodes.s.number
         /\ UpFence(up2, u - 1) = l /\ UpFence(up2, u) = sep2 /\ UpFence(up2, u + 1) = h
<1> DEFINE up == nodes.up
           a == nodes.p.number
           b == nodes.s.number
           t == DeleteKeyIntermediate(up, up.links[u])
<1>1. /\ up \in Node /\ Shape(up) /\ up.kind = "Root" /\ Ordered(up, 0, KeysEnd)
      /\ IsInjective(up.links) /\ u \in 1 .. Size(up) /\ Size(up) \in Nat
      /\ up.links[u] = a /\ up.links[u + 1] = b
      /\ l = UpFence(up, u - 1) /\ h = UpFence(up, u + 1)
  BY NodeFields DEF Neighbours
<1> HIDE DEF up, a, b, t
<1>2. /\ t \in Node /\ Shape(t) /\ t.kind = "Root" /\ Ordered(t, 0, KeysEnd)
      /\ IsInjective(t.links) /\ Size(t) = Size(up) - 1
      /\ t.links[u] = a /\ b \notin ToSet(t.links) /\ b \in Numbers
      /\ UpFence(t, u - 1) = l /\ UpFence(t, u) = h
  BY <1>1, UpWithOneLess DEF t
<1>3. u \in 1 .. Size(t) + 1 /\ Size(t) + 1 = Size(up)
  BY <1>1, <1>2
<1>4. up2 = InsertIntoIntermediate(t, sep2, b)
  BY <1>1 DEF NewSeparator, t, up, a, b
<1>5. /\ up2 \in Node /\ Shape(up2) /\ up2.kind = "Root" /\ Ordered(up2, 0, KeysEnd)
      /\ IsInjective(up2.links) /\ Size(up2) = Size(t) + 1
      /\ up2.links[u] = a /\ up2.links[u + 1] = b
      /\ UpFence(up2, u - 1) = l /\ UpFence(up2, u) = sep2 /\ UpFence(up2, u + 1) = h
  BY <1>2, <1>3, <1>4, UpWithOneMore
<1>6. /\ Size(up2) = Size(up) /\ u \in 1 .. Size(up2) + 1 /\ u + 1 \in 1 .. Size(up2) + 1
      /\ (u + 1) - 1 = u
  BY <1>1, <1>3, <1>5
<1> QED
  BY <1>5, <1>6 DEF up, a, b

LEMMA RedistributeKeeps ==
  ASSUME TypeOK, InOrder, NEW w \in Places, Redistribute(w)
  PROVE  TypeOK' /\ InOrder'
<1> DEFINE o == Other(w)
           L1 == nodes.p
           R1 == nodes.s
           up == nodes.up
           q == IF IsLeaf(nodes[w]) THEN RedistributeKeysLeaf(nodes[w], nodes[o], up)
                ELSE RedistributeKeysIntermediate(nodes[w], nodes[o], up)
<1>1. /\ Underflows(w) /\ nodes[o] # Blank /\ Size(nodes[o]) > NodesDown
      /\ nodes' = Pair(q[1], q[2], q[3]) /\ DOMAIN pages' = {w, o, "up"}
  BY DEF Redistribute, Edit
<1>2. w \in {"p", "s"} /\ (w = "p" => o = "s") /\ (w = "s" => o = "p")
  BY DEF Places, Other
<1>3. Siblings(nodes[w], nodes[o], L1, R1)
  BY <1>2 DEF Siblings
<1>4. R1 # Blank /\ up # Blank /\ Size(nodes[w]) < NodesDown /\ {w, o, "up"} = {"p", "s", "up"}
  BY <1>1, <1>2 DEF Underflows
<1>5. PICK u, l, sep, h : Neighbours(u, l, sep, h)
  BY <1>4, HasNeighbours
<1>6. /\ L1 \in Node /\ R1 \in Node /\ Shape(L1) /\ Shape(R1)
      /\ R1.kind = L1.kind /\ R1.parent = L1.parent
      /\ l \in Nat /\ sep \in Keys /\ h \in Nat
      /\ Ordered(L1, l, sep) /\ Ordered(R1, sep, h)
      /\ L1.kind \in {"Leaf", "Intermediate"} /\ KeyBehind(up, L1.number) = sep
      /\ Size(up) <= NodesUp
      /\ Size(L1) \in Nat /\ NodesDown - 1 <= Size(L1) /\ Size(L1) <= NodesUp
      /\ Size(R1) \in Nat /\ NodesDown - 1 <= Size(R1) /\ Size(R1) <= NodesUp
  BY <1>5 DEF Neighbours, PageInOrder
<1>7. /\ nodes[w] \in Node /\ nodes[o] \in Node
      /\ Size(nodes[w]) = NodesDown - 1 /\ Size(nodes[o]) <= NodesUp
      /\ nodes[w].kind = L1.kind
  BY <1>2, <1>4, <1>6, NodesDownIs
<1>8. \E c, sep2, N :
        /\ PageInOrder(q[1], l, sep2) /\ PageInOrder(q[2], sep2, h)
        /\ Halves(N, q[1], q[2], c, l, sep2, h)
        /\ N.kind = L1.kind /\ N.parent = L1.parent /\ N.number = L1.number
        /\ q[3] = NewSeparator(up, L1.number, R1.number, sep2)
        /\ q[2].number = R1.number
        /\ Size(q[1]) \in NodesDown .. NodesUp /\ Size(q[2]) \in NodesDown .. NodesUp
  <2>1. CASE IsLeaf(nodes[w])
    <3>1. L1.kind \in Leaves
      BY <1>7, <2>1 DEF IsLeaf
    <3>2. q = RedistributeKeysLeaf(nodes[w], nodes[o], up)
      BY <2>1
    <3> DEFINE N == MergeLeaves(L1, R1)
    <3> HIDE DEF q, L1, R1, up, o, N
    <3>3. /\ LeafHalves(N, L1, R1, Size(L1), l, sep, h)
          /\ \E c, sep2 :
               /\ LeafHalves(N, q[1], q[2], c, l, sep2, h)
               /\ q[3] = NewSeparator(up, L1.number, R1.number, sep2)
          /\ q[2].number = R1.number
          /\ Size(q[1]) \in NodesDown .. NodesUp /\ Size(q[2]) \in NodesDown .. NodesUp
      BY <1>1, <1>3, <1>6, <1>7, <3>1, <3>2, RedistributeKeysLeafHalves DEF N
    <3>4. N.kind = L1.kind /\ N.parent = L1.parent /\ N.number = L1.number
      BY <3>3 DEF LeafHalves, Halves
    <3>5. PICK c, sep2 : /\ LeafHalves(N, q[1], q[2], c, l, sep2, h)
                         /\ q[3] = NewSeparator(up, L1.number, R1.number, sep2)
      BY <3>3
    <3>6. PageInOrder(q[1], l, sep2) /\ PageInOrder(q[2], sep2, h)
      BY <3>5, LeafPartsInOrder
    <3>7. Halves(N, q[1], q[2], c, l, sep2, h)
      BY <3>5 DEF LeafHalves
    <3> QED
      BY <3>3, <3>4, <3>5, <3>6, <3>7
  <2>2. CASE ~IsLeaf(nodes[w])
    <3>1. L1.kind \in Interiors
      BY <1>6, <1>7, <2>2, Kinds DEF IsLeaf
    <3>2. q = RedistributeKeysIntermediate(nodes[w], nodes[o], up)
      BY <2>2
    <3>3. PageInOrder(L1, l, sep) /\ PageInOrder(R1, sep, h)
      BY <1>5 DEF Neighbours
    <3> DEFINE N == MergeNodes(L1, sep, R1)
    <3> HIDE DEF q, L1, R1, up, o, N
    <3>4. /\ InnerHalves(N, L1, R1, Size(L1), l, sep, h)
          /\ \E c, sep2 :
               /\ InnerHalves(N, q[1], q[2], c, l, sep2, h)
               /\ q[3] = NewSeparator(up, L1.number, R1.number, sep2)
          /\ q[2].number = R1.number
          /\ Size(q[1]) \in NodesDown .. NodesUp /\ Size(q[2]) \in NodesDown .. NodesUp
      BY <1>1, <1>3, <1>6, <1>7, <3>1, <3>2, RedistributeKeysIntermediateHalves DEF N
    <3>5. N.kind = L1.kind /\ N.parent = L1.parent /\ N.number = L1.number
      BY <3>4 DEF InnerHalves, Halves
    <3>6. PageInOrder(N, l, h)
      BY <3>3, <3>4, InnerWholeInOrder
    <3>7. PICK c, sep2 : /\ InnerHalves(N, q[1], q[2], c, l, sep2, h)
                         /\ q[3] = NewSeparator(up, L1.number, R1.number, sep2)
      BY <3>4
    <3>8. PageInOrder(q[1], l, sep2) /\ PageInOrder(q[2], sep2, h)
      BY <3>6, <3>7, InnerPartsInOrder
    <3>9. Halves(N, q[1], q[2], c, l, sep2, h)
      BY <3>7 DEF InnerHalves
    <3> QED
      BY <3>4, <3>5, <3>7, <3>8, <3>9
  <2> QED
    BY <2>1, <2>2
<1>9. PICK c, sep2, N :
        /\ PageInOrder(q[1], l, sep2) /\ PageInOrder(q[2], sep2, h)
        /\ Halves(N, q[1], q[2], c, l, sep2, h)
        /\ N.kind = L1.kind /\ N.parent = L1.parent /\ N.number = L1.number
        /\ q[3] = NewSeparator(up, L1.number, R1.number, sep2)
        /\ q[2].number = R1.number
        /\ Size(q[1]) \in NodesDown .. NodesUp /\ Size(q[2]) \in NodesDown .. NodesUp
  BY <1>8
<1> DEFINE p2 == q[1]
           s2 == q[2]
           up2 == q[3]
<1> HIDE DEF q
<1>10. /\ p2 \in Node /\ s2 \in Node /\ sep2 \in Keys /\ l < sep2 /\ sep2 < h
       /\ p2.kind = L1.kind /\ s2.kind = L1.kind /\ p2.parent = L1.parent
       /\ s2.parent = L1.parent /\ p2.number = L1.number /\ s2.number = R1.number
  BY <1>9 DEF Halves
<1>11. /\ up2 \in Node /\ Shape(up2) /\ up2.kind = "Root" /\ Ordered(up2, 0, KeysEnd)
       /\ IsInjective(up2.links) /\ Size(up2) = Size(up)
       /\ u \in 1 .. Size(up2) + 1 /\ u + 1 \in 1 .. Size(up2) + 1 /\ (u + 1) - 1 = u
       /\ up2.links[u] = L1.number /\ up2.links[u + 1] = R1.number
       /\ UpFence(up2, u - 1) = l /\ UpFence(up2, u) = sep2 /\ UpFence(up2, u + 1) = h
  BY <1>5, <1>9, <1>10, NewSeparatorInOrder
<1>12. /\ Size(p2) >= NodesDown - 1 /\ Size(s2) >= NodesDown - 1
       /\ Size(p2) <= NodesUp /\ Size(s2) <= NodesUp /\ Size(up2) <= NodesUp
       /\ Size(up2) >= 1
  <2>1. Size(up) \in Nat /\ u \in 1 .. Size(up)
    BY <1>5, NodeFields DEF Neighbours
  <2> QED
    BY <1>6, <1>9, <1>11, <2>1, NodesDownIs
<1>13. PageInOrder(p2, l, sep2) /\ PageInOrder(s2, sep2, h) /\ nodes' = Pair(p2, s2, up2)
       /\ DOMAIN pages' = {"p", "s", "up"}
  BY <1>1, <1>4, <1>9
<1> HIDE DEF p2, s2, up2, L1, R1, up
<1>14. BelowInOrder(p2, up2, u) /\ BelowInOrder(s2, up2, u + 1)
  BY <1>6, <1>10, <1>11, <1>12, <1>13 DEF BelowInOrder
<1>15. up2 # Blank
  BY <1>11 DEF Blank
<1>16. NeighboursInOrder(p2, s2, up2)
  BY <1>10, <1>11, <1>12, <1>14, <1>15 DEF NeighboursInOrder
<1>17. Sound(p2) /\ Sound(s2) /\ Sound(up2)
  BY <1>10, <1>11, <1>12, <1>13 DEF Sound, PageInOrder
<1> QED
  BY <1>13, <1>16, <1>17, StepKeeps

(* A page that becomes the root.                                               *)
LEMMA RaisedInOrder ==
  ASSUME NEW n \in Node, NEW kind, n.kind \in {"Leaf", "Intermediate"},
         kind = IF n.kind = "Leaf" THEN "RootLeaf" ELSE "Root",
         NEW l, NEW h, PageInOrder(n, l, h), NEW n2, n2 = [n EXCEPT !.kind = kind]
  PROVE  n2 \in Node /\ PageInOrder(n2, l, h) /\ n2.kind = kind /\ Size(n2) = Size(n)
<1>1. /\ n2 \in Node /\ n2.kind = kind /\ n2.number = n.number /\ n2.keys = n.keys
      /\ n2.vals = n.vals /\ n2.links = n.links
  BY Kinds DEF Node
<1>2. Size(n2) = Size(n) /\ \A i : Fence(n2, l, h, i) = Fence(n, l, h, i)
  BY <1>1 DEF Size, Fence
<1> QED
  BY <1>1, <1>2, Kinds DEF PageInOrder, Shape, Ordered

LEMMA BlankIsSound == Sound(Blank)
  BY BlankReads DEF Sound, Shaped

LEMMA MergePagesKeeps ==
  ASSUME TypeOK, InOrder, NEW w \in Places, MergePages(w)
  PROVE  TypeOK' /\ InOrder'
<1> DEFINE o == Other(w)
           L1 == nodes.p
           R1 == nodes.s
           up == nodes.up
           nm == IF IsLeaf(nodes[w]) THEN MergeLeaves(L1, R1)
                 ELSE MergeNodes(L1, KeyBehind(up, L1.number), R1)
           kind == IF IsLeaf(nodes[w]) THEN "RootLeaf" ELSE "Root"
           top == [nm EXCEPT !.kind = kind]
           up2 == DeleteKeyIntermediate(up, L1.number)
<1>1. /\ Underflows(w) /\ nodes[o] # Blank /\ Size(nodes[o]) = NodesDown
      /\ nodes' = IF Size(up) = 1 THEN Pair(top, Blank, Blank) ELSE Pair(nm, Blank, up2)
      /\ DOMAIN pages' = {"p", "s", "up"}
  BY DEF MergePages, Edit, Pair
<1>2. w \in {"p", "s"} /\ (w = "p" => o = "s") /\ (w = "s" => o = "p")
  BY DEF Places, Other
<1>3. R1 # Blank /\ up # Blank /\ Size(nodes[w]) < NodesDown
  BY <1>1, <1>2 DEF Underflows
<1>4. PICK u, l, sep, h : Neighbours(u, l, sep, h)
  BY <1>3, HasNeighbours
<1>5. /\ L1 \in Node /\ R1 \in Node /\ Shape(L1) /\ Shape(R1)
      /\ R1.kind = L1.kind /\ R1.parent = L1.parent
      /\ l \in Nat /\ sep \in Keys /\ h \in Nat
      /\ Ordered(L1, l, sep) /\ Ordered(R1, sep, h)
      /\ PageInOrder(L1, l, sep) /\ PageInOrder(R1, sep, h)
      /\ L1.kind \in {"Leaf", "Intermediate"} /\ KeyBehind(up, L1.number) = sep
      /\ Size(L1) \in Nat /\ NodesDown - 1 <= Size(L1) /\ Size(L1) <= NodesUp
      /\ Size(R1) \in Nat /\ NodesDown - 1 <= Size(R1) /\ Size(R1) <= NodesUp
  BY <1>4 DEF Neighbours, PageInOrder
<1>6. nodes[w].kind = L1.kind /\ Size(L1) + Size(R1) = NodesDown + (NodesDown - 1)
  BY <1>1, <1>2, <1>3, <1>5, NodesDownIs
<1>7. /\ nm \in Node /\ PageInOrder(nm, l, h) /\ nm.kind = L1.kind /\ nm.number = L1.number
      /\ Size(nm) <= NodesUp /\ Size(nm) >= NodesDown - 1 /\ Size(nm) >= 1
  <2>1. CASE IsLeaf(nodes[w])
    <3>1. L1.kind \in Leaves
      BY <1>6, <2>1 DEF IsLeaf
    <3>2. nm = MergeLeaves(L1, R1)
      BY <2>1
    <3> HIDE DEF nm, L1, R1, up, o
    <3>3. LeafHalves(nm, L1, R1, Size(L1), l, sep, h)
      BY <1>5, <3>1, <3>2, MergeLeavesHalves
    <3>4. /\ nm \in Node /\ nm.kind = L1.kind /\ nm.number = L1.number
          /\ Shape(nm) /\ Ordered(nm, l, h) /\ Size(R1) = Size(nm) - Size(L1)
      BY <3>3 DEF LeafHalves, Halves
    <3>5. Size(nm) = Size(L1) + Size(R1)
      BY <1>5, <3>4, NodeFields
    <3> QED
      BY <1>5, <1>6, <3>1, <3>4, <3>5, NodesDownIs, Kinds DEF PageInOrder
  <2>2. CASE ~IsLeaf(nodes[w])
    <3>1. L1.kind \in Interiors
      BY <1>5, <1>6, <2>2, Kinds DEF IsLeaf
    <3>2. nm = MergeNodes(L1, sep, R1)
      BY <1>5, <2>2
    <3> HIDE DEF nm, L1, R1, up, o
    <3>3. InnerHalves(nm, L1, R1, Size(L1), l, sep, h)
      BY <1>5, <3>1, <3>2, MergeNodesHalves
    <3>4. /\ nm \in Node /\ nm.kind = L1.kind /\ nm.number = L1.number
          /\ Size(R1) = Size(nm) - Size(L1) - 1
      BY <3>3 DEF InnerHalves, Halves
    <3>5. Size(nm) = Size(L1) + Size(R1) + 1
      BY <1>5, <3>4, NodeFields
    <3>6. PageInOrder(nm, l, h)
      BY <1>5, <3>3, InnerWholeInOrder
    <3> QED
      BY <1>5, <1>6, <3>4, <3>5, <3>6, NodesDownIs
  <2> QED
    BY <2>1, <2>2
<1>8. /\ up \in Node /\ Shape(up) /\ up.kind = "Root" /\ Ordered(up, 0, KeysEnd)
      /\ IsInjective(up.links) /\ Size(up) <= NodesUp /\ u \in 1 .. Size(up) /\ Size(up) \in Nat
      /\ up.links[u] = L1.number /\ l = UpFence(up, u - 1) /\ h = UpFence(up, u + 1)
  BY <1>4, NodeFields DEF Neighbours
<1>9. kind = IF L1.kind = "Leaf" THEN "RootLeaf" ELSE "Root"
  BY <1>5, <1>6, Kinds DEF IsLeaf
<1> HIDE DEF nm, kind
<1>10. CASE Size(up) = 1
  <2>1. u = 1 /\ l = 0 /\ h = KeysEnd
    BY <1>8, <1>10, UpIs
  <2>2. /\ top \in Node /\ PageInOrder(top, 0, KeysEnd) /\ top.kind \in {"RootLeaf", "Root"}
        /\ Size(top) <= NodesUp /\ Size(top) >= 1
    BY <1>5, <1>7, <1>9, <2>1, RaisedInOrder
  <2>3. nodes' = Pair(top, Blank, Blank)
    BY <1>1, <1>10
  <2> HIDE DEF top
  <2>4. NeighboursInOrder(top, Blank, Blank) /\ Sound(top)
    BY <2>2 DEF NeighboursInOrder, Sound, PageInOrder
  <2> QED
    BY <1>1, <2>3, <2>4, BlankIsSound, StepKeeps
<1>11. CASE Size(up) # 1
  <2> HIDE DEF up2
  <2>1. nodes' = Pair(nm, Blank, up2)
    BY <1>1, <1>11
  <2>2. /\ up2 \in Node /\ Shape(up2) /\ up2.kind = "Root" /\ Ordered(up2, 0, KeysEnd)
        /\ IsInjective(up2.links) /\ Size(up2) = Size(up) - 1
        /\ up2.links[u] = L1.number
        /\ UpFence(up2, u - 1) = l /\ UpFence(up2, u) = h
    <3>1. up2 = DeleteKeyIntermediate(up, up.links[u])
      BY <1>8 DEF up2
    <3> QED
      BY <1>8, <3>1, UpWithOneLess
  <2>3. u \in 1 .. Size(up2) + 1 /\ Size(up2) <= NodesUp /\ Size(up2) >= 1
    BY <1>8, <1>11, <2>2, NodesDownIs
  <2>4. BelowInOrder(nm, up2, u)
    BY <1>5, <1>7, <2>2, <2>3 DEF BelowInOrder
  <2>5. up2 # Blank
    BY <2>2 DEF Blank
  <2>6. NeighboursInOrder(nm, Blank, up2)
    BY <2>2, <2>3, <2>4, <2>5 DEF NeighboursInOrder
  <2>7. Sound(nm) /\ Sound(up2)
    BY <1>7, <2>2, <2>3 DEF Sound, PageInOrder
  <2> QED
    BY <1>1, <2>1, <2>6, <2>7, BlankIsSound, StepKeeps
<1> QED
  BY <1>10, <1>11

LEMMA LookAwayKeeps ==
  ASSUME TypeOK, InOrder, NEW w \in Places, LookAway(w)
  PROVE  TypeOK' /\ InOrder'
<1>1. /\ nodes.s # Blank /\ nodes' = Pair(nodes[w], Blank, nodes.up)
      /\ DOMAIN pages' = {"p", "s", "up"} /\ w \in {"p", "s"}
  BY DEF LookAway, Alone, Edit, Pair, Places
<1>2. /\ nodes.up # Blank /\ nodes.up.kind = "Root" /\ Ordered(nodes.up, 0, KeysEnd)
      /\ IsInjective(nodes.up.links) /\ Size(nodes.up) >= 1
  BY <1>1 DEF InOrder, NeighboursInOrder
<1>3. PICK u \in 1 .. Size(nodes.up) + 1 :
        BelowInOrder(nodes.p, nodes.up, u) /\ BelowInOrder(nodes.s, nodes.up, u + 1)
  BY <1>1, <1>2 DEF InOrder, NeighboursInOrder
<1>4. \E v \in 1 .. Size(nodes.up) + 1 : BelowInOrder(nodes[w], nodes.up, v)
  <2>1. u + 1 \in 1 .. Size(nodes.up) + 1
    BY <1>3 DEF BelowInOrder
  <2> QED
    BY <1>1, <1>3, <2>1
<1>5. NeighboursInOrder(nodes[w], Blank, nodes.up)
  BY <1>2, <1>4 DEF NeighboursInOrder
<1>6. Sound(nodes[w]) /\ Sound(nodes.up)
  BY <1>1, SoundPages
<1> QED
  BY <1>1, <1>5, <1>6, BlankIsSound, StepKeeps

(* A first page is in order.                                                   *)
LEMMA InitInOrder ==
  ASSUME Init
  PROVE  TypeOK /\ InOrder
<1>1. ASSUME NEW n \in Node, n.kind \in {"RootLeaf", "Root"}, Size(n) = 1,
             PageInOrder(n, 0, KeysEnd), nodes = Pair(n, Blank, Blank),
             DOMAIN pages = {"p", "s", "up"}
      PROVE  TypeOK /\ InOrder
  <2>1. /\ nodes.p = n /\ nodes.s = Blank /\ nodes.up = Blank
        /\ DOMAIN nodes = {"p", "s", "up"} /\ \A x \in {"p", "s", "up"} : nodes[x] \in {n, Blank}
    BY <1>1 DEF Pair
  <2>2. Blank \in Node
    BY BlankIsSound DEF Sound
  <2>3. nodes \in [{"p", "s", "up"} -> Node]
    BY <1>1, <2>2 DEF Pair
  <2>4. Shape(n) /\ Size(n) <= NodesUp
    BY <1>1, NodesDownIs DEF PageInOrder
  <2>5. TypeOK
    BY <1>1, <2>1, <2>3, <2>4 DEF TypeOK, Places
  <2>6. InOrder
    BY <1>1, <2>1 DEF InOrder, NeighboursInOrder
  <2> QED
    BY <2>5, <2>6
<1>2. PICK k \in Keys :
        \/ \E v \in Values :
             /\ DOMAIN pages = {"p", "s", "up"}
             /\ nodes = Pair([Blank EXCEPT !.kind = "RootLeaf", !.number = 1,
                                           !.keys = <<k>>, !.vals = <<v>>], Blank, Blank)
        \/ /\ DOMAIN pages = {"p", "s", "up"}
           /\ nodes = Pair(CreateRoot(1, k, Child(0), Child(k)), Blank, Blank)
  BY DEF Init, Pair
<1>3. 1 \in Numbers /\ k \in Nat /\ 0 < k /\ k < KeysEnd /\ 0 < KeysEnd /\ KeysEnd \in Nat
      /\ Child(0) \in Numbers /\ Child(k) \in Numbers /\ Child(0) # Child(k)
  <2>1. 1 \in Fresh
    BY NodesDownIs DEF Fresh
  <2> QED
    BY <2>1, EditKeys
<1>4. ASSUME NEW v \in Values, DOMAIN pages = {"p", "s", "up"},
             NEW n, n = [Blank EXCEPT !.kind = "RootLeaf", !.number = 1,
                                      !.keys = <<k>>, !.vals = <<v>>],
             nodes = Pair(n, Blank, Blank)
      PROVE  TypeOK /\ InOrder
  <2>1. n = [kind |-> "RootLeaf", number |-> 1, parent |-> 0,
             keys |-> <<k>>, vals |-> <<v>>, links |-> <<>>]
    BY <1>4 DEF Blank
  <2>2. 0 \in Numbers /\ <<k>> \in Seq(Keys) /\ <<v>> \in Seq(Values) /\ <<>> \in Seq(Numbers)
    BY DEF Numbers
  <2>3. n \in Node /\ n.kind = "RootLeaf" /\ Size(n) = 1
    BY <1>3, <2>1, <2>2 DEF Node, Leaves, Size
  <2>4. Shape(n) /\ n.keys[1] = k
    BY <2>1, <2>3, Kinds DEF Shape
  <2>5. PageInOrder(n, 0, KeysEnd)
    BY <1>3, <2>3, <2>4, Kinds DEF PageInOrder, Ordered
  <2> QED
    BY <1>1, <1>4, <2>3, <2>5
<1>5. ASSUME DOMAIN pages = {"p", "s", "up"},
             NEW n, n = CreateRoot(1, k, Child(0), Child(k)), nodes = Pair(n, Blank, Blank)
      PROVE  TypeOK /\ InOrder
  <2>1. /\ n \in Node /\ Shape(n) /\ n.kind = "Root" /\ Size(n) = 1
        /\ Ordered(n, 0, KeysEnd) /\ n.links[1] = Child(0) /\ n.links[2] = Child(k)
        /\ UpFence(n, 0) = 0 /\ UpFence(n, 1) = k
    BY <1>3, <1>5, CreateRootInOrder
  <2>2. ASSUME NEW i \in 0 .. 1
        PROVE  n.links[i + 1] = Child(Fence(n, 0, KeysEnd, i))
    <3>1. CASE i = 0
      BY <2>1, <3>1 DEF UpFence
    <3>2. CASE i = 1
      BY <2>1, <3>2 DEF UpFence
    <3> QED
      BY <3>1, <3>2
  <2>3. PageInOrder(n, 0, KeysEnd)
    BY <2>1, <2>2 DEF PageInOrder
  <2> QED
    BY <1>1, <1>5, <2>1, <2>3
<1> QED
  BY <1>2, <1>4, <1>5

(* Every step leaves sound pages in order.                                     *)
LEMMA NextInOrder ==
  ASSUME TypeOK, InOrder, [Next]_editVars
  PROVE  TypeOK' /\ InOrder'
<1>1. ASSUME NEW k \in Keys, NEW v \in Values, InsertOne(k, v)
      PROVE  TypeOK' /\ InOrder'
  <2>1. ASSUME NEW w \in Places,
               InsertNew(w, k, v) \/ InsertLink(w, k) \/ InsertExisting(w, k, v)
        PROVE  TypeOK' /\ InOrder'
    BY <2>1, InsertNewKeeps, InsertLinkKeeps, InsertExistingKeeps
  <2> QED
    BY <1>1, <2>1, DivideLeafPageKeeps, DivideNodePageKeeps DEF InsertOne
<1>2. ASSUME NEW w \in Places, \E i \in 1 .. NodesUp : DeleteOne(w, i)
      PROVE  TypeOK' /\ InOrder'
  BY <1>2, DeleteOneKeeps
<1>3. ASSUME NEW w \in Places, Redistribute(w) \/ MergePages(w) \/ LookAway(w)
      PROVE  TypeOK' /\ InOrder'
  BY <1>3, RedistributeKeeps, MergePagesKeeps, LookAwayKeeps
<1>4. CASE UNCHANGED editVars
  <2>1. pages' = pages /\ nodes' = nodes
    BY <1>4 DEF editVars
  <2> QED
    BY <2>1 DEF TypeOK, InOrder
<1> QED
  BY <1>1, <1>2, <1>3, <1>4 DEF Next

(* Each step of the tree leaves three pages of the shapes that their kinds     *)
(* have, none with more keys than a page may have.                             *)
THEOREM PageTypes == Spec => []TypeOK
<1>1. Init => TypeOK /\ InOrder
  BY InitInOrder
<1>2. TypeOK /\ InOrder /\ [Next]_editVars => (TypeOK /\ InOrder)'
  BY NextInOrder
<1> QED
  BY <1>1, <1>2, PTL DEF Spec

(* Each step of the tree keeps the keys ascending across two neighbouring      *)
(* pages and their parent, the sibling the right one, and the children of a    *)
(* page behind the keys they came with: insert_into_leaf, the two divisions,   *)
(* the two deletions, redistribute_keys_* and merge_*.                         *)
THEOREM PagesInOrder == Spec => []InOrder
<1>1. Init => TypeOK /\ InOrder
  BY InitInOrder
<1>2. TypeOK /\ InOrder /\ [Next]_editVars => (TypeOK /\ InOrder)'
  BY NextInOrder
<1> QED
  BY <1>1, <1>2, PTL DEF Spec

-------------------------------------------------------------------------------
(* The parent of two pages that share their keys *)

(* The keys at both ends of a page.                                            *)
LEMMA EndsRead ==
  ASSUME NEW n, Shaped(n), Fits(n), n # Blank, Size(n) >= 1
  PROVE  /\ L!KeyAt(PageOf(n), 0).bytes = Bytes[n.keys[1]]
         /\ L!KeyAt(PageOf(n), Size(n) - 1).bytes = Bytes[n.keys[Size(n)]]
         /\ n.keys[1] \in Keys /\ n.keys[Size(n)] \in Keys
         /\ L!VertNum(PageOf(n)) = Size(n) /\ Size(n) \in Nat
<1>1. L!VertNum(PageOf(n)) = Size(n) /\ Size(n) \in Nat
  BY HeaderReads, StringsOf
<1>2. Size(n) \in 1 .. Size(n) /\ 1 \in 1 .. Size(n)
  BY <1>1
<1>3. n.keys[1] \in Keys /\ n.keys[Size(n)] \in Keys
  BY <1>2, StringsOf
<1>4. L!KeyAt(PageOf(n), Size(n) - 1).bytes = Bytes[n.keys[Size(n)]]
  BY <1>2, KeyReads
<1>5. L!KeyAt(PageOf(n), 0).bytes = Bytes[n.keys[1]]
  <2>1. \A i \in 1 .. Size(n) : L!KeyAt(PageOf(n), i - 1).bytes = Bytes[n.keys[i]]
    BY KeyReads
  <2>2. L!KeyAt(PageOf(n), 1 - 1).bytes = Bytes[n.keys[1]] /\ 1 - 1 = 0
    BY <1>2, <2>1
  <2> QED
    BY <2>2
<1> QED
  BY <1>1, <1>3, <1>4, <1>5

(* n < 0 on the bytes, and on the nodes.                                       *)
LEMMA SiblingReads ==
  ASSUME NEW p, Shaped(p), Fits(p), p # Blank, Size(p) >= 1,
         NEW s, Shaped(s), Fits(s), s # Blank, Size(s) >= 1
  PROVE  L!SiblingIsRight(PageOf(p), PageOf(s)) <=> SiblingIsRight(p, s)
<1>1. /\ L!KeyAt(PageOf(p), Size(p) - 1).bytes = Bytes[p.keys[Size(p)]]
      /\ p.keys[Size(p)] \in Keys /\ L!VertNum(PageOf(p)) = Size(p)
  BY EndsRead
<1>2. L!KeyAt(PageOf(s), 0).bytes = Bytes[s.keys[1]] /\ s.keys[1] \in Keys
  BY EndsRead
<1>3. L!SiblingIsRight(PageOf(p), PageOf(s))
        <=> L!Before(Bytes[p.keys[Size(p)]], Bytes[s.keys[1]])
  BY <1>1, <1>2 DEF L!SiblingIsRight
<1>4. Last(p.keys) = p.keys[Size(p)] /\ Head(s.keys) = s.keys[1]
  BY DEF Last, Size, Shaped, Node
<1> QED
  BY <1>1, <1>2, <1>3, <1>4, KeysAreNumbers DEF SiblingIsRight

(* The loop that looks for a link.                                             *)
LEMMA LinkIndexReads ==
  ASSUME NEW n, InnerPage(n), NEW q \in 1 .. Size(n),
         \A i \in 1 .. Size(n) : n.links[i] = n.links[q] => i = q
  PROVE  L!KeyAt(PageOf(n), L!LinkIndex(PageOf(n), n.links[q])).bytes = Bytes[n.keys[q]]
<1> DEFINE N == Size(n)
           pg == PageOf(n)
           I == {q}
           J == {j \in 0 .. N - 1 : L!LinkBefore(pg, j) = n.links[q]}
<1>1. N \in Nat /\ L!VertNum(pg) = N
  BY InnerReads
<1>2. L!LinkIndex(pg, n.links[q]) = Min(J \union {N})
  BY <1>1, MinIsMin DEF L!LinkIndex, L!FirstOf, L!Indexes
<1>3. J = {j \in 0 .. N - 1 : j + 1 \in I}
  <2>1. ASSUME NEW j \in 0 .. N - 1
        PROVE  L!LinkBefore(pg, j) = n.links[q] <=> j + 1 \in I
    <3> DEFINE i == j + 1
    <3>1. i \in 1 .. N /\ i - 1 = j
      BY <1>1
    <3> HIDE DEF i, pg
    <3>2. L!LinkBefore(pg, i - 1) = n.links[i]
      BY <3>1, InnerReads DEF pg
    <3>3. i \in I <=> n.links[i] = n.links[q]
      BY <3>1
    <3> QED
      BY <3>1, <3>2, <3>3 DEF i
  <2> QED
    BY <2>1
<1>4. Min(I) = q
  <2>1. I \in SUBSET Nat /\ I # {}
    BY <1>1
  <2> QED
    BY <2>1, MinIsLeast
<1>5. Min(J \union {N}) = Min(I) - 1
  <2>1. I \in SUBSET (1 .. N) /\ I # {}
    OBVIOUS
  <2> HIDE DEF I, J, N
  <2>2. Min({j \in 0 .. N - 1 : j + 1 \in I} \union {N}) = Min(I) - 1
    BY <1>1, <2>1, FirstIs
  <2> QED
    BY <1>3, <2>2
<1>6. L!LinkIndex(pg, n.links[q]) = q - 1
  BY <1>2, <1>4, <1>5
<1> QED
  BY <1>6, InnerReads

(* An inner page has a link, so it is a page.                                  *)
LEMMA IsInnerPage ==
  ASSUME NEW n \in Node, ~IsLeaf(n), Len(n.links) = Size(n) + 1, Fits(n)
  PROVE  InnerPage(n)
<1>1. n # Blank
  BY BlankReads DEF Blank
<1>2. Len(n.links) \in 0 .. Size(n) + 1
  BY NodeFields
<1> QED
  BY <1>1, <1>2 DEF InnerPage, Shaped

(* A page fits without a key and the link behind it.                           *)
LEMMA LacksPairFits ==
  ASSUME NEW n, InnerPage(n), NEW m \in Node, SameHead(n, m), Len(m.links) = Size(m) + 1,
         NEW q \in 1 .. Size(n), LacksPair(m, n, q)
  PROVE  InnerPage(m)
<1> DEFINE g == [i \in 1 .. Size(m) |-> IF i < q THEN i ELSE i + 1]
<1>1. Size(n) \in Nat /\ Size(m) = Size(n) - 1 /\ ~IsLeaf(n) /\ Shaped(n) /\ Fits(n)
  BY InnerReads DEF LacksPair
<1>2. ~IsLeaf(m) /\ Shaped(m)
  <2>1. ~IsLeaf(m)
    BY <1>1 DEF SameHead, IsLeaf
  <2>2. Len(m.links) \in 0 .. Size(m) + 1
    BY NodeFields
  <2> QED
    BY <2>1, <2>2 DEF Shaped
<1>3. \A i \in 1 .. Size(m) : g[i] = (IF i < q THEN i ELSE i + 1) /\ g[i] \in 1 .. Size(n)
  BY <1>1
<1>4. g \in [1 .. Size(m) -> 1 .. Size(n)]
  BY <1>3
<1>5. \A i, j \in 1 .. Size(m) : g[i] = g[j] => i = j
  BY <1>1
<1> HIDE DEF g
<1>6. g \in Injection(1 .. Size(m), 1 .. Size(n))
  BY <1>4, <1>5 DEF Injection, IsInjective
<1>7. \A i \in 1 .. Size(m) : m.keys[i] = n.keys[g[i]]
  BY <1>1, <1>3 DEF LacksPair
<1>8. Among(m, n, g)
  BY <1>1, <1>6, <1>7 DEF Among
<1>9. Fits(m)
  BY <1>1, <1>2, <1>8, PartFits
<1> QED
  BY <1>2, <1>9, IsInnerPage

(* A parent with another key between two pages, when there is a key left and   *)
(* when there is none: create_intermediate keeps the link in front.            *)
LEMMA SeparateWrites ==
  ASSUME NEW up, InnerPage(up), NEW u \in 1 .. Size(up),
         \A i \in 1 .. Size(up) + 1 : up.links[i] = up.links[u] => i = u,
         NEW r \in Numbers, NEW k \in Keys,
         NEW new, new = NewSeparator(up, up.links[u], r, k), Fits(new)
  PROVE  L!Separate(PageOf(up), up.links[u], r, Bytes[k]) = PageOf(new)
<1> DEFINE t == DeleteKeyIntermediate(up, up.links[u])
<1>1. up \in Node /\ Size(up) \in Nat /\ Len(up.links) = Size(up) + 1 /\ ~IsLeaf(up)
  BY InnerReads DEF Shaped
<1>2. SameHead(up, t) /\ LacksPair(t, up, u) /\ t \in Node /\ Len(t.links) = Size(t) + 1
  BY <1>1, DeleteKeyIntermediateHas
<1>3. new = InsertIntoIntermediate(t, k, r)
  BY DEF NewSeparator
<1> HIDE DEF t
<1>4. InnerPage(t)
  BY <1>2, LacksPairFits
<1>5. L!DeleteKeyIntermediate(PageOf(up), up.links[u]) = PageOf(t)
  <2>1. \A i \in 1 .. Size(up) : up.links[i] = up.links[u] => i = u
    BY <1>1
  <2> QED
    BY <1>2, <1>4, <2>1, DeleteKeyIntermediateWrites
<1>6. /\ SameHead(t, new) /\ InnerEntries(new, t, 0, Size(t) + 1, FindPos(t, k), k, r)
      /\ new \in Node /\ Len(new.links) = Size(new) + 1
  BY <1>2, <1>3, InsertIntoIntermediateHas
<1>7. InnerPage(new)
  <2>1. ~IsLeaf(new)
    BY <1>1, <1>2, <1>6 DEF SameHead, IsLeaf
  <2> QED
    BY <1>6, <2>1, IsInnerPage
<1>8. L!VertNum(PageOf(t)) = Size(t) /\ Size(t) \in Nat
  BY <1>4, InnerReads
<1>9. CASE Size(t) # 0
  <2>1. L!InsertIntoIntermediate(PageOf(t), Bytes[k], r) = PageOf(new)
    BY <1>4, <1>6, <1>7, <1>8, <1>9, InsertIntoIntermediateWrites
  <2> QED
    BY <1>5, <1>8, <1>9, <2>1 DEF L!Separate
<1>10. CASE Size(t) = 0
  <2>1. u = 1 /\ t.links[1] = up.links[u]
    BY <1>1, <1>2, <1>10 DEF LacksPair
  <2>2. FindPos(t, k) = 0
    <3>1. t.keys \in Seq(Nat) /\ k \in Nat
      BY <1>2, NodeFields, NumbersAreNat
    <3> QED
      BY <1>10, <3>1, FindPosStops
  <2>3. Size(new) = 1 /\ new.links[1] = t.links[1] /\ new.keys[1] = k /\ new.links[2] = r
    <3>1. InnerEntries(new, t, 0, 1, 0, k, r)
      BY <1>6, <1>10, <2>2
    <3> QED
      BY <3>1 DEF InnerEntries
  <2>4. L!CreateIntermediate(PageOf(t), Bytes[new.keys[1]], new.links[1], new.links[2])
          = PageOf(new)
    BY <1>4, <1>6, <1>7, <2>3, CreateIntermediateWrites
  <2> QED
    BY <1>5, <1>8, <1>10, <2>1, <2>3, <2>4 DEF L!Separate
<1> QED
  BY <1>9, <1>10

-------------------------------------------------------------------------------
(* Entries that go from one leaf to its neighbour *)

SameNode(n, m) ==
  /\ SameHead(n, m) /\ Size(m) = Size(n)
  /\ \A i \in 1 .. Size(n) : m.keys[i] = n.keys[i]
  /\ Len(m.vals) = Len(n.vals) /\ \A i \in 1 .. Len(n.vals) : m.vals[i] = n.vals[i]
  /\ Len(m.links) = Len(n.links) /\ \A i \in 1 .. Len(n.links) : m.links[i] = n.links[i]

(* Nodes with the same entries are the same.                                   *)
LEMMA SameNodeIs ==
  ASSUME NEW n \in Node, NEW m \in Node, SameNode(n, m)
  PROVE  m = n
<1>1. m.keys = n.keys
  <2>1. Len(m.keys) = Len(n.keys) /\ \A i \in 1 .. Len(m.keys) : m.keys[i] = n.keys[i]
    BY DEF SameNode, Size
  <2>2. m.keys \in Seq(Keys) /\ n.keys \in Seq(Keys)
    BY NodeFields
  <2> QED
    BY <2>1, <2>2, SeqEqual
<1>2. m.vals = n.vals
  <2>1. m.vals \in Seq(Values) /\ n.vals \in Seq(Values)
    BY NodeFields
  <2>2. Len(m.vals) = Len(n.vals) /\ \A i \in 1 .. Len(m.vals) : m.vals[i] = n.vals[i]
    BY DEF SameNode
  <2> QED
    BY <2>1, <2>2, SeqEqual
<1>3. m.links = n.links
  <2>1. m.links \in Seq(Numbers) /\ n.links \in Seq(Numbers)
    BY NodeFields
  <2>2. Len(m.links) = Len(n.links) /\ \A i \in 1 .. Len(m.links) : m.links[i] = n.links[i]
    BY DEF SameNode
  <2> QED
    BY <2>1, <2>2, SeqEqual
<1> QED
  BY <1>1, <1>2, <1>3 DEF SameNode, SameHead, Node

(* The entries of some leaf, without gap and in order.                         *)
WholeLeaf(all) ==
  /\ all \in Node /\ IsLeaf(all) /\ Len(all.vals) = Size(all)
  /\ \A i, j \in 1 .. Size(all) : i < j => all.keys[i] < all.keys[j]

(* m holds c of them, from behind the first a.                                 *)
HoldsLeaf(m, all, a, c) ==
  /\ Shaped(m) /\ Fits(m) /\ IsLeaf(m) /\ m # Blank /\ Size(m) = c
  /\ a \in Nat /\ c \in Nat /\ a + c <= Size(all)
  /\ \A i \in 1 .. c : m.keys[i] = all.keys[a + i] /\ m.vals[i] = all.vals[a + i]

(* What the code reads in it.                                                  *)
LEMMA HoldsLeafReads ==
  ASSUME NEW all, WholeLeaf(all), NEW m, NEW a, NEW c, HoldsLeaf(m, all, a, c)
  PROVE  /\ L!VertNum(PageOf(m)) = c
         /\ \A i \in 1 .. c : /\ L!KeyAt(PageOf(m), i - 1).bytes = Bytes[all.keys[a + i]]
                              /\ L!DataAt(PageOf(m), i - 1).bytes = all.vals[a + i]
<1>1. L!VertNum(PageOf(m)) = c
  BY HeaderReads DEF HoldsLeaf
<1>2. ASSUME NEW i \in 1 .. c
      PROVE  /\ L!KeyAt(PageOf(m), i - 1).bytes = Bytes[all.keys[a + i]]
             /\ L!DataAt(PageOf(m), i - 1).bytes = all.vals[a + i]
  <2>1. i \in 1 .. Size(m) /\ m.keys[i] = all.keys[a + i] /\ m.vals[i] = all.vals[a + i]
    BY DEF HoldsLeaf
  <2>2. L!KeyAt(PageOf(m), i - 1).bytes = Bytes[m.keys[i]]
    BY <2>1, KeyReads DEF HoldsLeaf
  <2>3. L!DataAt(PageOf(m), i - 1) = L!Entry(m.vals[i])
    BY <2>1, ValueReads DEF HoldsLeaf
  <2>4. L!Entry(m.vals[i]).bytes = m.vals[i]
    BY DEF L!Entry
  <2> QED
    BY <2>1, <2>2, <2>3, <2>4
<1> QED
  BY <1>1, <1>2

(* An entry goes to the end of a page ...                                      *)
LEMMA LastComes ==
  ASSUME NEW all, WholeLeaf(all), NEW a, NEW c,
         NEW n, HoldsLeaf(n, all, a, c), NEW m, HoldsLeaf(m, all, a, c + 1), SameHead(n, m)
  PROVE  L!InsertIntoLeaf(PageOf(n), Bytes[all.keys[a + (c + 1)]], all.vals[a + (c + 1)])
           = PageOf(m)
<1> DEFINE k == all.keys[a + (c + 1)]
           v == all.vals[a + (c + 1)]
<1>1. /\ a \in Nat /\ c \in Nat /\ Size(all) \in Nat /\ a + (c + 1) \in 1 .. Size(all)
      /\ all \in Node /\ all.vals \in Seq(Values) /\ Len(all.vals) = Size(all)
  BY NodeFields DEF HoldsLeaf, WholeLeaf
<1>2. k \in Keys /\ v \in Values /\ k \in Nat
  BY <1>1, NodeFields, NumbersAreNat
<1>3. /\ Shaped(n) /\ Fits(n) /\ IsLeaf(n) /\ Size(n) = c /\ n \in Node
      /\ Shaped(m) /\ Fits(m) /\ IsLeaf(m) /\ Size(m) = c + 1
  BY DEF HoldsLeaf, Shaped
<1>4. ASSUME NEW i \in 1 .. c
      PROVE  n.keys[i] = all.keys[a + i] /\ n.vals[i] = all.vals[a + i] /\ n.keys[i] < k
  <2>1. n.keys[i] = all.keys[a + i] /\ n.vals[i] = all.vals[a + i]
    BY DEF HoldsLeaf
  <2>2. a + i \in 1 .. Size(all) /\ a + i < a + (c + 1)
    BY <1>1
  <2>3. all.keys[a + i] < k
    BY <1>1, <2>2 DEF WholeLeaf
  <2> QED
    BY <2>1, <2>3
<1>5. \A i \in 1 .. c + 1 : m.keys[i] = all.keys[a + i] /\ m.vals[i] = all.vals[a + i]
  BY DEF HoldsLeaf
<1> HIDE DEF k, v
<1>6. FindPos(n, k) = c
  <2>1. n.keys \in Seq(Nat)
    BY <1>3, NodeFields
  <2>2. /\ FindPos(n, k) \in 0 .. c
        /\ FindPos(n, k) < c => n.keys[FindPos(n, k) + 1] > k
    BY <1>2, <1>3, <2>1, FindPosStops
  <2>3. \A i \in 1 .. c : n.keys[i] \in Nat
    BY <1>3, NodeFields
  <2> DEFINE f == FindPos(n, k)
  <2> HIDE DEF f
  <2>4. ASSUME f < c PROVE FALSE
    <3>1. f + 1 \in 1 .. c /\ n.keys[f + 1] > k
      BY <1>1, <2>2, <2>4 DEF f
    <3> QED
      BY <1>2, <1>4, <2>3, <3>1
  <2> QED
    BY <1>1, <2>2, <2>4 DEF f
<1>7. Entries(m, n, 0, c + 1, c, k, v)
  <2>1. Size(m) = (c + 1) - 0
    BY <1>1, <1>3
  <2>2. ASSUME NEW i \in 0 .. (c + 1) - 1
        PROVE  LET j == i - 0 + 1
                   o == IF i < c THEN i + 1 ELSE i
               IN  IF i = c THEN m.keys[j] = k /\ m.vals[j] = v
                   ELSE o \in 1 .. Size(n) /\ m.keys[j] = n.keys[o] /\ m.vals[j] = n.vals[o]
    <3>1. i \in Int /\ i - 0 + 1 = i + 1 /\ i + 1 \in 1 .. c + 1
          /\ (i # c => i < c /\ i + 1 \in 1 .. c)
      BY <1>1
    <3>2. m.keys[i + 1] = all.keys[a + (i + 1)] /\ m.vals[i + 1] = all.vals[a + (i + 1)]
      BY <1>5, <3>1
    <3>3. i # c => n.keys[i + 1] = all.keys[a + (i + 1)] /\ n.vals[i + 1] = all.vals[a + (i + 1)]
      BY <1>4, <3>1
    <3> QED
      BY <1>3, <3>1, <3>2, <3>3 DEF k, v
  <2> QED
    BY <2>1, <2>2 DEF Entries
<1>8. L!InsertIntoLeaf(PageOf(n), Bytes[k], v) = PageOf(m)
  BY <1>2, <1>3, <1>6, <1>7, InsertIntoLeafWrites
<1> QED
  BY <1>8 DEF k, v

(* ... or to its front.                                                        *)
LEMMA FirstComes ==
  ASSUME NEW all, WholeLeaf(all), NEW a, NEW c,
         NEW n, HoldsLeaf(n, all, a + 1, c), NEW m, HoldsLeaf(m, all, a, c + 1),
         SameHead(n, m), c \in Nat
  PROVE  L!InsertIntoLeaf(PageOf(n), Bytes[all.keys[a + 1]], all.vals[a + 1]) = PageOf(m)
<1> DEFINE k == all.keys[a + 1]
           v == all.vals[a + 1]
<1>1. /\ a \in Nat /\ c \in Nat /\ Size(all) \in Nat /\ a + 1 \in 1 .. Size(all)
      /\ (a + 1) + c <= Size(all)
      /\ all \in Node /\ all.vals \in Seq(Values) /\ Len(all.vals) = Size(all)
  BY NodeFields DEF HoldsLeaf, WholeLeaf
<1>2. k \in Keys /\ v \in Values /\ k \in Nat
  BY <1>1, NodeFields, NumbersAreNat
<1>3. /\ Shaped(n) /\ Fits(n) /\ IsLeaf(n) /\ Size(n) = c /\ n \in Node
      /\ Shaped(m) /\ Fits(m) /\ IsLeaf(m) /\ Size(m) = c + 1
  BY DEF HoldsLeaf, Shaped
<1>4. \A i \in 1 .. c : n.keys[i] = all.keys[(a + 1) + i] /\ n.vals[i] = all.vals[(a + 1) + i]
                        /\ k < n.keys[i]
  BY <1>1 DEF HoldsLeaf, WholeLeaf
<1>5. \A i \in 1 .. c + 1 : m.keys[i] = all.keys[a + i] /\ m.vals[i] = all.vals[a + i]
  BY DEF HoldsLeaf
<1> HIDE DEF k, v
<1>6. FindPos(n, k) = 0
  <2>1. n.keys \in Seq(Nat)
    BY <1>3, NodeFields
  <2>2. /\ FindPos(n, k) \in 0 .. c
        /\ \A j \in 1 .. FindPos(n, k) : n.keys[j] <= k
    BY <1>2, <1>3, <2>1, FindPosStops
  <2>3. \A i \in 1 .. c : n.keys[i] \in Nat
    BY <1>3, NodeFields
  <2> DEFINE f == FindPos(n, k)
  <2> HIDE DEF f
  <2>4. ASSUME f > 0 PROVE FALSE
    <3>1. 1 \in 1 .. c /\ n.keys[1] <= k
      BY <1>1, <2>2, <2>4 DEF f
    <3> QED
      BY <1>2, <1>4, <2>3, <3>1
  <2> QED
    BY <1>1, <2>2, <2>4 DEF f
<1>7. Entries(m, n, 0, c + 1, 0, k, v)
  <2>1. Size(m) = (c + 1) - 0
    BY <1>1, <1>3
  <2>2. ASSUME NEW i \in 0 .. (c + 1) - 1
        PROVE  LET j == i - 0 + 1
                   o == IF i < 0 THEN i + 1 ELSE i
               IN  IF i = 0 THEN m.keys[j] = k /\ m.vals[j] = v
                   ELSE o \in 1 .. Size(n) /\ m.keys[j] = n.keys[o] /\ m.vals[j] = n.vals[o]
    <3>1. i \in Int /\ i - 0 + 1 = i + 1 /\ i + 1 \in 1 .. c + 1 /\ ~(i < 0)
          /\ (i # 0 => i \in 1 .. c) /\ (a + 1) + i = a + (i + 1) /\ (i = 0 => i + 1 = 1)
      BY <1>1
    <3>2. m.keys[i + 1] = all.keys[a + (i + 1)] /\ m.vals[i + 1] = all.vals[a + (i + 1)]
      BY <1>5, <3>1
    <3>3. i # 0 => n.keys[i] = all.keys[a + (i + 1)] /\ n.vals[i] = all.vals[a + (i + 1)]
      BY <1>4, <3>1
    <3> QED
      BY <1>3, <3>1, <3>2, <3>3 DEF k, v
  <2> QED
    BY <2>1, <2>2 DEF Entries
<1>8. L!InsertIntoLeaf(PageOf(n), Bytes[k], v) = PageOf(m)
  BY <1>2, <1>3, <1>6, <1>7, InsertIntoLeafWrites
<1> QED
  BY <1>8 DEF k, v

(* An entry goes from the end of a page ...                                    *)
LEMMA LastGoes ==
  ASSUME NEW all, WholeLeaf(all), NEW a, NEW c,
         NEW n, HoldsLeaf(n, all, a, c + 1), NEW m, HoldsLeaf(m, all, a, c), SameHead(n, m)
  PROVE  L!DeleteKeyLeaf(PageOf(n), Bytes[all.keys[a + (c + 1)]]) = PageOf(m)
<1> DEFINE q == c + 1
<1>1. /\ a \in Nat /\ c \in Nat /\ Size(all) \in Nat /\ a + q <= Size(all) /\ all \in Node
      /\ q \in 1 .. q
  BY NodeFields DEF HoldsLeaf, WholeLeaf
<1>2. /\ Shaped(n) /\ Fits(n) /\ IsLeaf(n) /\ Size(n) = q
      /\ Shaped(m) /\ Fits(m) /\ IsLeaf(m) /\ Size(m) = c
  BY DEF HoldsLeaf
<1>3. \A i \in 1 .. q : n.keys[i] = all.keys[a + i] /\ n.vals[i] = all.vals[a + i]
  BY DEF HoldsLeaf
<1>4. \A i \in 1 .. c : m.keys[i] = all.keys[a + i] /\ m.vals[i] = all.vals[a + i]
  BY DEF HoldsLeaf
<1>5. ASSUME NEW i \in 1 .. q, n.keys[i] = n.keys[q] PROVE i = q
  <2>1. a + i \in 1 .. Size(all) /\ a + q \in 1 .. Size(all) /\ (i < q => a + i < a + q)
    BY <1>1
  <2>2. all.keys[a + i] \in Nat /\ all.keys[a + q] \in Nat
    BY <1>1, <2>1, NodeFields
  <2>3. i < q => all.keys[a + i] < all.keys[a + q]
    BY <2>1 DEF WholeLeaf
  <2> QED
    BY <1>1, <1>3, <1>5, <2>2, <2>3
<1>6. Lacks(m, n, q)
  <2>1. \A i \in 1 .. Size(n) - 1 :
          LET o == IF i < q THEN i ELSE i + 1
          IN  m.keys[i] = n.keys[o] /\ m.vals[i] = n.vals[o]
    BY <1>1, <1>2, <1>3, <1>4
  <2> QED
    BY <1>1, <1>2, <2>1 DEF Lacks
<1>7. L!DeleteKeyLeaf(PageOf(n), Bytes[n.keys[q]]) = PageOf(m)
  <2> HIDE DEF q
  <2>1. \A i \in 1 .. Size(n) : n.keys[i] = n.keys[q] => i = q
    BY <1>2, <1>5
  <2> QED
    BY <1>1, <1>2, <1>6, <2>1, DeleteKeyLeafWrites
<1> QED
  BY <1>1, <1>3, <1>7

(* ... or from its front.                                                      *)
LEMMA FirstGoes ==
  ASSUME NEW all, WholeLeaf(all), NEW a, NEW c,
         NEW n, HoldsLeaf(n, all, a, c + 1), NEW m, HoldsLeaf(m, all, a + 1, c),
         SameHead(n, m), a \in Nat
  PROVE  L!DeleteKeyLeaf(PageOf(n), Bytes[all.keys[a + 1]]) = PageOf(m)
<1>1. /\ c \in Nat /\ Size(all) \in Nat /\ a + (c + 1) <= Size(all) /\ all \in Node
      /\ 1 \in 1 .. c + 1
  BY NodeFields DEF HoldsLeaf, WholeLeaf
<1>2. /\ Shaped(n) /\ Fits(n) /\ IsLeaf(n) /\ Size(n) = c + 1
      /\ Shaped(m) /\ Fits(m) /\ IsLeaf(m) /\ Size(m) = c
  BY DEF HoldsLeaf
<1>3. \A i \in 1 .. c + 1 : n.keys[i] = all.keys[a + i] /\ n.vals[i] = all.vals[a + i]
  BY DEF HoldsLeaf
<1>4. \A i \in 1 .. c : m.keys[i] = all.keys[(a + 1) + i] /\ m.vals[i] = all.vals[(a + 1) + i]
  BY DEF HoldsLeaf
<1>5. ASSUME NEW i \in 1 .. c + 1, n.keys[i] = n.keys[1] PROVE i = 1
  <2>1. a + i \in 1 .. Size(all) /\ a + 1 \in 1 .. Size(all) /\ (1 < i => a + 1 < a + i)
    BY <1>1
  <2>2. all.keys[a + i] \in Nat /\ all.keys[a + 1] \in Nat
    BY <1>1, <2>1, NodeFields
  <2>3. 1 < i => all.keys[a + 1] < all.keys[a + i]
    BY <2>1 DEF WholeLeaf
  <2> QED
    BY <1>1, <1>3, <1>5, <2>2, <2>3
<1>6. Lacks(m, n, 1)
  <2>1. ASSUME NEW i \in 1 .. Size(n) - 1
        PROVE  LET o == IF i < 1 THEN i ELSE i + 1
               IN  m.keys[i] = n.keys[o] /\ m.vals[i] = n.vals[o]
    <3>1. i \in 1 .. c /\ ~(i < 1) /\ i + 1 \in 1 .. c + 1 /\ (a + 1) + i = a + (i + 1)
      BY <1>1, <1>2
    <3> QED
      BY <1>3, <1>4, <3>1
  <2> QED
    BY <1>1, <1>2, <2>1 DEF Lacks
<1>7. L!DeleteKeyLeaf(PageOf(n), Bytes[n.keys[1]]) = PageOf(m)
  <2>1. (\A i \in 1 .. Size(n) : n.keys[i] = n.keys[1] => i = 1) /\ 1 \in 1 .. Size(n)
    BY <1>1, <1>2, <1>5
  <2> QED
    BY <1>2, <1>6, <2>1, DeleteKeyLeafWrites
<1> QED
  BY <1>1, <1>3, <1>7

(* Two leaves that share some entries: the first c, and the others.            *)
LeftLeaf(all, c) == LeafPart(all, 1, c)
RightLeaf(all, r, c) == Renamed(LeafPart(all, c + 1, Size(all)), r.number, r.parent)

(* What they are but for the room.                                             *)
HasLeaf(m, all, a, c) ==
  /\ m \in Node /\ IsLeaf(m) /\ Size(m) = c /\ Len(m.vals) = c
  /\ a \in Nat /\ c \in Nat /\ a + c <= Size(all)
  /\ \A i \in 1 .. c : m.keys[i] = all.keys[a + i] /\ m.vals[i] = all.vals[a + i]

(* Entries with room are a leaf, and so are those of a part of a leaf.         *)
LEMMA HasIsHolds ==
  ASSUME NEW all, NEW m, NEW a, NEW c, HasLeaf(m, all, a, c), Fits(m)
  PROVE  HoldsLeaf(m, all, a, c)
BY LeavesAreThere DEF HasLeaf, HoldsLeaf, Shaped

LEMMA HasLeafFits ==
  ASSUME NEW all, NEW n, NEW b, NEW d, HasLeaf(n, all, b, d), Fits(n),
         NEW m, NEW a, NEW c, HasLeaf(m, all, a, c), b <= a, a + c <= b + d
  PROVE  Fits(m)
<1> DEFINE e == a - b
<1>1. a \in Nat /\ b \in Nat /\ c \in Nat /\ d \in Nat
  BY DEF HasLeaf
<1>2. e \in Nat /\ e + c <= d /\ \A i \in 1 .. c : e + i \in 1 .. d /\ b + (e + i) = a + i
  BY <1>1
<1> HIDE DEF e
<1>3. Shaped(n) /\ Shaped(m) /\ IsLeaf(n) /\ IsLeaf(m) /\ Size(m) = c /\ Size(n) = d
  BY DEF HasLeaf, Shaped
<1>4. \A i \in 1 .. d : n.keys[i] = all.keys[b + i] /\ n.vals[i] = all.vals[b + i]
  BY DEF HasLeaf
<1>5. \A i \in 1 .. c : m.keys[i] = all.keys[a + i] /\ m.vals[i] = all.vals[a + i]
  BY DEF HasLeaf
<1>6. \A i \in 1 .. c : m.keys[i] = n.keys[e + i] /\ m.vals[i] = n.vals[e + i]
  BY <1>2, <1>4, <1>5
<1> QED
  BY <1>2, <1>3, <1>6, SliceFits

(* What the two leaves are at any cut.                                         *)
LEMMA CutLeaf ==
  ASSUME NEW all, WholeLeaf(all), NEW r \in Node, NEW c \in 0 .. Size(all)
  PROVE  /\ HasLeaf(LeftLeaf(all, c), all, 0, c) /\ SameHead(all, LeftLeaf(all, c))
         /\ HasLeaf(RightLeaf(all, r, c), all, c, Size(all) - c)
         /\ RightLeaf(all, r, c).kind = all.kind
         /\ RightLeaf(all, r, c).number = r.number /\ RightLeaf(all, r, c).parent = r.parent
         /\ LeftLeaf(all, c).links = all.links /\ RightLeaf(all, r, c).links = all.links
<1> DEFINE N == Size(all)
           A == LeafPart(all, 1, c)
           R == LeafPart(all, c + 1, N)
           B == Renamed(R, r.number, r.parent)
<1>1. all \in Node /\ IsLeaf(all) /\ Len(all.vals) = N /\ N \in Nat /\ c \in Nat /\ c <= N
  BY NodeFields DEF WholeLeaf
<1>2. LeafSlice(A, all, 1, c) /\ SameHead(all, A)
  <2>1. 1 \in 1 .. N + 1 /\ c \in 1 - 1 .. N
    BY <1>1
  <2> QED
    BY <1>1, <2>1, LeafPartIs
<1>3. LeafSlice(R, all, c + 1, N) /\ SameHead(all, R)
  <2>1. c + 1 \in 1 .. N + 1 /\ N \in (c + 1) - 1 .. N
    BY <1>1
  <2> QED
    BY <1>1, <2>1, LeafPartIs
<1> HIDE DEF A, R, N
<1>4. A \in Node /\ Size(A) = c /\ Len(A.vals) = c /\ A.links = all.links /\ IsLeaf(A)
  BY <1>1, <1>2 DEF LeafSlice, SameHead, IsLeaf
<1>5. R \in Node /\ Size(R) = N - c /\ Len(R.vals) = N - c /\ R.links = all.links /\ IsLeaf(R)
  BY <1>1, <1>3 DEF LeafSlice, SameHead, IsLeaf
<1>6. \A i \in 1 .. c : A.keys[i] = all.keys[0 + i] /\ A.vals[i] = all.vals[0 + i]
  <2>1. \A i \in 1 .. c - 1 + 1 : A.keys[i] = all.keys[1 + i - 1] /\ A.vals[i] = all.vals[1 + i - 1]
    BY <1>2 DEF LeafSlice
  <2>2. c - 1 + 1 = c /\ \A i \in 1 .. c : 1 + i - 1 = i /\ 0 + i = i
    BY <1>1
  <2> QED
    BY <2>1, <2>2
<1>7. \A i \in 1 .. N - c : R.keys[i] = all.keys[c + i] /\ R.vals[i] = all.vals[c + i]
  <2>1. \A i \in 1 .. N - (c + 1) + 1 : /\ R.keys[i] = all.keys[c + 1 + i - 1]
                                        /\ R.vals[i] = all.vals[c + 1 + i - 1]
    BY <1>3 DEF LeafSlice
  <2>2. N - (c + 1) + 1 = N - c /\ \A i \in 1 .. N - c : c + 1 + i - 1 = c + i
    BY <1>1
  <2> QED
    BY <2>1, <2>2
<1>8. /\ B \in Node /\ B.kind = R.kind /\ B.number = r.number /\ B.parent = r.parent
      /\ B.keys = R.keys /\ B.vals = R.vals /\ B.links = R.links /\ Size(B) = Size(R)
  BY <1>5, NodeFields, RenamedIs
<1> HIDE DEF B
<1>9. HasLeaf(A, all, 0, c)
  BY <1>1, <1>4, <1>6 DEF HasLeaf, N
<1>10. HasLeaf(B, all, c, N - c)
  <2>1. N - c \in Nat /\ c + (N - c) <= N
    BY <1>1
  <2> QED
    BY <1>1, <1>5, <1>7, <1>8, <2>1 DEF HasLeaf, IsLeaf, N
<1>11. B.kind = all.kind
  BY <1>3, <1>8 DEF SameHead
<1> QED
  BY <1>2, <1>4, <1>5, <1>8, <1>9, <1>10, <1>11 DEF LeftLeaf, RightLeaf, A, B, R, N

(* Two leaves, one right of the other.                                         *)
LeavesMeet(l, r, all) ==
  /\ l \in Node /\ r \in Node /\ all = MergeLeaves(l, r)
  /\ IsLeaf(l) /\ r.kind = l.kind /\ r.parent = l.parent
  /\ Shape(l) /\ Shape(r) /\ WholeLeaf(all)

(* At the cut where they were before, they are those pages.                    *)
LEMMA MergedLeaf ==
  ASSUME NEW l, NEW r, NEW all, LeavesMeet(l, r, all)
  PROVE  /\ Size(all) = Size(l) + Size(r) /\ Size(l) \in Nat /\ Size(r) \in Nat
         /\ SameHead(l, all)
         /\ LeftLeaf(all, Size(l)) = l /\ RightLeaf(all, r, Size(l)) = r
         /\ LeftLeaf(all, Size(all)) = all
<1>1. /\ l \in Node /\ r \in Node /\ all = MergeLeaves(l, r) /\ IsLeaf(l) /\ IsLeaf(r)
      /\ r.kind = l.kind /\ WholeLeaf(all) /\ all \in Node
  BY DEF LeavesMeet, WholeLeaf, IsLeaf
<1>2. /\ Len(l.vals) = Size(l) /\ l.links = <<>> /\ Len(r.vals) = Size(r) /\ r.links = <<>>
      /\ Size(l) \in Nat /\ Size(r) \in Nat
  BY <1>1, NodeFields DEF LeavesMeet, Shape, IsLeaf
<1> DEFINE a == l.keys \o r.keys
           b == l.vals \o r.vals
           c == Size(l)
           N == Size(all)
<1>3. all = [l EXCEPT !.keys = a, !.vals = b]
  BY <1>1 DEF MergeLeaves
<1>4. Joined(a, l.keys, r.keys) /\ Joined(b, l.vals, r.vals)
  BY <1>1, NodeFields, ConcatIs
<1> HIDE DEF a, b
<1>5. all.keys = a /\ all.vals = b /\ all.links = <<>> /\ SameHead(l, all)
  BY <1>1, <1>2, <1>3 DEF Node, SameHead
<1>6. N = c + Size(r)
  BY <1>4, <1>5 DEF Joined, Size
<1>7. \A i \in 1 .. c : all.keys[i] = l.keys[i] /\ all.vals[i] = l.vals[i]
  <2>1. \A i \in 1 .. c : i \in 1 .. c + Size(r) /\ i <= c
    BY <1>2
  <2> QED
    BY <1>2, <1>4, <1>5, <2>1 DEF Joined, Size
<1>8. \A i \in 1 .. Size(r) : all.keys[c + i] = r.keys[i] /\ all.vals[c + i] = r.vals[i]
  <2>1. \A i \in 1 .. Size(r) : c + i \in 1 .. c + Size(r) /\ ~(c + i <= c) /\ (c + i) - c = i
    BY <1>2
  <2>2. \A j \in 1 .. c + Size(r) :
          ~(j <= c) => all.keys[j] = r.keys[j - c] /\ all.vals[j] = r.vals[j - c]
    BY <1>2, <1>4, <1>5 DEF Joined, Size
  <2> QED
    BY <2>1, <2>2
<1>9. c \in 0 .. N /\ N \in 0 .. N
  BY <1>2, <1>6
<1> HIDE DEF c, N
<1> DEFINE A == LeftLeaf(all, c)
           B == RightLeaf(all, r, c)
           W == LeftLeaf(all, N)
<1>10. /\ HasLeaf(A, all, 0, c) /\ SameHead(all, A) /\ A.links = all.links
       /\ HasLeaf(B, all, c, N - c) /\ B.kind = all.kind /\ B.number = r.number
       /\ B.parent = r.parent /\ B.links = all.links
       /\ HasLeaf(W, all, 0, N) /\ SameHead(all, W) /\ W.links = all.links
  BY <1>1, <1>9, CutLeaf DEF N
<1> HIDE DEF A, B, W
<1>11. A = l
  <2>1. \A i \in 1 .. c : A.keys[i] = all.keys[i] /\ A.vals[i] = all.vals[i]
    <3>1. \A i \in 1 .. c : A.keys[i] = all.keys[0 + i] /\ A.vals[i] = all.vals[0 + i]
      BY <1>10 DEF HasLeaf
    <3>2. \A i \in 1 .. c : 0 + i = i
      OBVIOUS
    <3> QED
      BY <3>1, <3>2
  <2>2. SameNode(l, A)
    BY <1>2, <1>5, <1>7, <1>10, <2>1 DEF SameNode, HasLeaf, SameHead, c
  <2> QED
    BY <1>1, <1>10, <2>2, SameNodeIs DEF HasLeaf
<1>12. B = r
  <2>1. N - c = Size(r)
    BY <1>2, <1>6 DEF c
  <2>2. \A i \in 1 .. Size(r) : B.keys[i] = all.keys[c + i] /\ B.vals[i] = all.vals[c + i]
    BY <1>10, <2>1 DEF HasLeaf
  <2>3. SameNode(r, B)
    BY <1>1, <1>2, <1>5, <1>8, <1>10, <2>1, <2>2 DEF SameNode, HasLeaf, SameHead
  <2> QED
    BY <1>1, <1>10, <2>3, SameNodeIs DEF HasLeaf
<1>13. W = all
  <2>1. \A i \in 1 .. N : W.keys[i] = all.keys[i] /\ W.vals[i] = all.vals[i]
    <3>1. \A i \in 1 .. N : W.keys[i] = all.keys[0 + i] /\ W.vals[i] = all.vals[0 + i]
      BY <1>10 DEF HasLeaf
    <3>2. \A i \in 1 .. N : 0 + i = i
      OBVIOUS
    <3> QED
      BY <3>1, <3>2
  <2>2. SameNode(all, W)
    BY <1>1, <1>10, <2>1 DEF SameNode, HasLeaf, WholeLeaf, N
  <2> QED
    BY <1>1, <1>10, <2>2, SameNodeIs DEF HasLeaf
<1> QED
  BY <1>2, <1>5, <1>6, <1>11, <1>12, <1>13 DEF A, B, W, c, N

(* The cuts between the one that there was and the one that there will be.     *)
Between(i, a, b) == (a <= i /\ i <= b) \/ (b <= i /\ i <= a)

(* Both leaves fit at a cut.                                                   *)
LeavesHold(all, r, c) ==
  /\ HoldsLeaf(LeftLeaf(all, c), all, 0, c)
  /\ HoldsLeaf(RightLeaf(all, r, c), all, c, Size(all) - c)
  /\ SameHead(all, LeftLeaf(all, c)) /\ RightLeaf(all, r, c).kind = all.kind
  /\ RightLeaf(all, r, c).number = r.number /\ RightLeaf(all, r, c).parent = r.parent

(* Between two cuts at which both leaves fit, they fit at each.                *)
LEMMA CutsHold ==
  ASSUME NEW all, WholeLeaf(all), NEW r \in Node,
         NEW a \in 0 .. Size(all), Fits(LeftLeaf(all, a)), Fits(RightLeaf(all, r, a)),
         NEW b \in 0 .. Size(all), Fits(LeftLeaf(all, b)), Fits(RightLeaf(all, r, b)),
         NEW c \in 0 .. Size(all), Between(c, a, b)
  PROVE  LeavesHold(all, r, c)
<1>1. Size(all) \in Nat /\ a \in Nat /\ b \in Nat /\ c \in Nat
  BY NodeFields DEF WholeLeaf
<1> DEFINE N == Size(all)
<1>2. \A i \in 0 .. N : /\ HasLeaf(LeftLeaf(all, i), all, 0, i)
                        /\ HasLeaf(RightLeaf(all, r, i), all, i, N - i)
  BY CutLeaf
<1> HIDE DEF N
<1>3. Fits(LeftLeaf(all, c))
  <2>1. PICK d \in {a, b} : c <= d
    BY <1>1 DEF Between
  <2>2. d \in 0 .. N /\ Fits(LeftLeaf(all, d)) /\ c \in 0 .. N /\ d \in Nat
    BY <1>1 DEF N
  <2>3. HasLeaf(LeftLeaf(all, d), all, 0, d) /\ HasLeaf(LeftLeaf(all, c), all, 0, c)
    BY <1>2, <2>2
  <2>4. 0 <= 0 /\ 0 + c <= 0 + d
    BY <1>1, <2>1, <2>2
  <2> QED
    BY <2>2, <2>3, <2>4, HasLeafFits
<1>4. Fits(RightLeaf(all, r, c))
  <2>1. PICK d \in {a, b} : d <= c
    BY <1>1 DEF Between
  <2>2. d \in 0 .. N /\ Fits(RightLeaf(all, r, d)) /\ c \in 0 .. N /\ d \in Nat
    BY <1>1 DEF N
  <2>3. HasLeaf(RightLeaf(all, r, d), all, d, N - d) /\ HasLeaf(RightLeaf(all, r, c), all, c, N - c)
    BY <1>2, <2>2
  <2>4. c + (N - c) <= d + (N - d)
    BY <1>1, <2>2 DEF N
  <2> QED
    BY <2>1, <2>2, <2>3, <2>4, HasLeafFits
<1>5. /\ HoldsLeaf(LeftLeaf(all, c), all, 0, c)
      /\ HoldsLeaf(RightLeaf(all, r, c), all, c, N - c)
  <2>1. /\ HasLeaf(LeftLeaf(all, c), all, 0, c)
        /\ HasLeaf(RightLeaf(all, r, c), all, c, N - c)
    BY <1>2 DEF N
  <2> QED
    BY <1>3, <1>4, <2>1, HasIsHolds
<1> QED
  BY <1>5, CutLeaf DEF LeavesHold, N

(* A turn of redistribute_keys_leaf.                                           *)
LeafTurn(x, right) ==
  LET j == IF right THEN 0 ELSE L!VertNum(x[2]) - 1
      k == L!KeyAt(x[2], j).bytes
  IN  <<L!InsertIntoLeaf(x[1], k, L!DataAt(x[2], j).bytes), L!DeleteKeyLeaf(x[2], k)>>

(* It moves the cut by one entry, to the right or to the left.                 *)
LEMMA LeafTurnIs ==
  ASSUME NEW all, WholeLeaf(all), NEW r \in Node, r.kind = all.kind, r.parent = all.parent,
         NEW c \in 0 .. Size(all) - 1, LeavesHold(all, r, c), LeavesHold(all, r, c + 1)
  PROVE  /\ LeafTurn(<<PageOf(LeftLeaf(all, c)), PageOf(RightLeaf(all, r, c))>>, TRUE)
              = <<PageOf(LeftLeaf(all, c + 1)), PageOf(RightLeaf(all, r, c + 1))>>
         /\ LeafTurn(<<PageOf(RightLeaf(all, r, c + 1)), PageOf(LeftLeaf(all, c + 1))>>, FALSE)
              = <<PageOf(RightLeaf(all, r, c)), PageOf(LeftLeaf(all, c))>>
<1> DEFINE A == LeftLeaf(all, c)
           A2 == LeftLeaf(all, c + 1)
           B == RightLeaf(all, r, c)
           B2 == RightLeaf(all, r, c + 1)
           k == Bytes[all.keys[c + 1]]
           v == all.vals[c + 1]
           e == Size(all) - (c + 1)
<1>1. Size(all) \in Nat /\ c \in Nat /\ e \in Nat /\ Size(all) - c = e + 1
  BY NodeFields DEF WholeLeaf
<1>2. /\ HoldsLeaf(A, all, 0, c) /\ HoldsLeaf(A2, all, 0, c + 1)
      /\ HoldsLeaf(B, all, c, e + 1) /\ HoldsLeaf(B2, all, c + 1, e)
      /\ SameHead(A, A2) /\ SameHead(A2, A) /\ SameHead(B, B2) /\ SameHead(B2, B)
  BY <1>1 DEF LeavesHold, SameHead
<1> HIDE DEF A, A2, B, B2, e
<1>3. /\ L!KeyAt(PageOf(B), 0).bytes = k /\ L!DataAt(PageOf(B), 0).bytes = v
  <2>1. \A i \in 1 .. e + 1 : /\ L!KeyAt(PageOf(B), i - 1).bytes = Bytes[all.keys[c + i]]
                              /\ L!DataAt(PageOf(B), i - 1).bytes = all.vals[c + i]
    BY <1>2, HoldsLeafReads
  <2>2. 1 \in 1 .. e + 1 /\ 1 - 1 = 0
    BY <1>1
  <2>3. /\ L!KeyAt(PageOf(B), 1 - 1).bytes = Bytes[all.keys[c + 1]]
        /\ L!DataAt(PageOf(B), 1 - 1).bytes = all.vals[c + 1]
    BY <2>1, <2>2
  <2> QED
    BY <2>2, <2>3
<1>4. /\ L!VertNum(PageOf(A2)) - 1 = c
      /\ L!KeyAt(PageOf(A2), c).bytes = k /\ L!DataAt(PageOf(A2), c).bytes = v
  <2>1. /\ L!VertNum(PageOf(A2)) = c + 1
        /\ \A i \in 1 .. c + 1 : /\ L!KeyAt(PageOf(A2), i - 1).bytes = Bytes[all.keys[0 + i]]
                                 /\ L!DataAt(PageOf(A2), i - 1).bytes = all.vals[0 + i]
    BY <1>2, HoldsLeafReads
  <2> DEFINE i == c + 1
  <2>2. i \in 1 .. c + 1 /\ i - 1 = c /\ 0 + i = i
    BY <1>1
  <2> HIDE DEF i
  <2>3. /\ L!KeyAt(PageOf(A2), i - 1).bytes = Bytes[all.keys[0 + i]]
        /\ L!DataAt(PageOf(A2), i - 1).bytes = all.vals[0 + i]
    BY <2>1, <2>2
  <2>4. L!KeyAt(PageOf(A2), c).bytes = Bytes[all.keys[i]] /\ L!DataAt(PageOf(A2), c).bytes = all.vals[i]
    BY <2>2, <2>3
  <2> QED
    BY <1>1, <2>1, <2>4 DEF i
<1>5. L!InsertIntoLeaf(PageOf(A), k, v) = PageOf(A2) /\ L!DeleteKeyLeaf(PageOf(A2), k) = PageOf(A)
  <2>1. L!InsertIntoLeaf(PageOf(A), Bytes[all.keys[0 + (c + 1)]], all.vals[0 + (c + 1)]) = PageOf(A2)
    BY <1>2, LastComes
  <2>2. L!DeleteKeyLeaf(PageOf(A2), Bytes[all.keys[0 + (c + 1)]]) = PageOf(A)
    BY <1>2, LastGoes
  <2>3. 0 + (c + 1) = c + 1
    BY <1>1
  <2> QED
    BY <2>1, <2>2, <2>3
<1>6. L!InsertIntoLeaf(PageOf(B2), k, v) = PageOf(B) /\ L!DeleteKeyLeaf(PageOf(B), k) = PageOf(B2)
  <2>1. L!InsertIntoLeaf(PageOf(B2), k, v) = PageOf(B)
    BY <1>1, <1>2, FirstComes
  <2>2. L!DeleteKeyLeaf(PageOf(B), Bytes[all.keys[c + 1]]) = PageOf(B2)
    <3>1. HoldsLeaf(B, all, c, e + 1) /\ HoldsLeaf(B2, all, c + 1, e) /\ SameHead(B, B2) /\ c \in Nat
      BY <1>1, <1>2
    <3> HIDE DEF k, v
    <3> QED
      BY <3>1, FirstGoes
  <2> QED
    BY <2>1, <2>2
<1> HIDE DEF k, v
<1>7. LeafTurn(<<PageOf(A), PageOf(B)>>, TRUE) = <<PageOf(A2), PageOf(B2)>>
  BY <1>3, <1>5, <1>6 DEF LeafTurn
<1>8. LeafTurn(<<PageOf(B2), PageOf(A2)>>, FALSE) = <<PageOf(B), PageOf(A)>>
  BY <1>4, <1>5, <1>6 DEF LeafTurn
<1> QED
  BY <1>7, <1>8 DEF A, A2, B, B2

(* All turns, and where they lead.                                             *)
LeafTurns(start, t, right) ==
  LET f[i \in 0 .. t] == IF i = 0 THEN start ELSE LeafTurn(f[i - 1], right)
  IN  f[t]

(* The page that gets keys, and the one that they come from.                   *)
LeafPair(all, r, c, right) ==
  IF right THEN <<PageOf(LeftLeaf(all, c)), PageOf(RightLeaf(all, r, c))>>
  ELSE <<PageOf(RightLeaf(all, r, c)), PageOf(LeftLeaf(all, c))>>

LEMMA LeafTurnsAre ==
  ASSUME NEW all, WholeLeaf(all), NEW r \in Node, r.kind = all.kind, r.parent = all.parent,
         NEW right \in BOOLEAN, NEW t \in Nat, NEW a \in 0 .. Size(all), NEW b \in 0 .. Size(all),
         b = IF right THEN a + t ELSE a - t,
         \A c \in 0 .. Size(all) : Between(c, a, b) => LeavesHold(all, r, c)
  PROVE  LeafTurns(LeafPair(all, r, a, right), t, right) = LeafPair(all, r, b, right)
<1> DEFINE start == LeafPair(all, r, a, right)
           C(i) == IF right THEN a + i ELSE a - i
           T == [i \in 0 .. t |-> LeafPair(all, r, C(i), right)]
           f == CHOOSE f : f = [i \in 0 .. t |-> IF i = 0 THEN start ELSE LeafTurn(f[i - 1], right)]
           N == Size(all)
<1>1. N \in Nat /\ a \in Nat /\ b \in Nat /\ C(0) = a /\ C(t) = b
  BY NodeFields DEF WholeLeaf
<1>2. ASSUME NEW i \in 0 .. t - 1
      PROVE  LeafTurn(LeafPair(all, r, C(i), right), right) = LeafPair(all, r, C(i + 1), right)
  <2>1. /\ C(i) \in 0 .. N /\ C(i + 1) \in 0 .. N
        /\ Between(C(i), a, b) /\ Between(C(i + 1), a, b)
        /\ right => C(i + 1) = C(i) + 1 /\ C(i) \in 0 .. N - 1
        /\ ~right => C(i) = C(i + 1) + 1 /\ C(i + 1) \in 0 .. N - 1
    BY <1>1 DEF Between
  <2>2. LeavesHold(all, r, C(i)) /\ LeavesHold(all, r, C(i + 1))
    BY <2>1 DEF N
  <2> DEFINE c == C(i)
             d == C(i + 1)
  <2> HIDE DEF C, c, d, N
  <2>3. CASE right
    <3>1. d = c + 1 /\ c \in 0 .. Size(all) - 1
      BY <2>1, <2>3 DEF c, d, N
    <3>2. LeavesHold(all, r, c) /\ LeavesHold(all, r, c + 1)
      BY <2>2, <3>1 DEF c, d
    <3>3. LeafTurn(<<PageOf(LeftLeaf(all, c)), PageOf(RightLeaf(all, r, c))>>, TRUE)
              = <<PageOf(LeftLeaf(all, c + 1)), PageOf(RightLeaf(all, r, c + 1))>>
      BY <3>1, <3>2, LeafTurnIs
    <3>4. LeafTurn(LeafPair(all, r, c, right), right) = LeafPair(all, r, d, right)
      BY <2>3, <3>1, <3>3 DEF LeafPair
    <3> QED
      BY <3>4 DEF c, d
  <2>4. CASE ~right
    <3>1. c = d + 1 /\ d \in 0 .. Size(all) - 1
      BY <2>1, <2>4 DEF c, d, N
    <3>2. LeavesHold(all, r, d) /\ LeavesHold(all, r, d + 1)
      BY <2>2, <3>1 DEF c, d
    <3>3. LeafTurn(<<PageOf(RightLeaf(all, r, d + 1)), PageOf(LeftLeaf(all, d + 1))>>, FALSE)
              = <<PageOf(RightLeaf(all, r, d)), PageOf(LeftLeaf(all, d))>>
      BY <3>1, <3>2, LeafTurnIs
    <3>4. LeafTurn(LeafPair(all, r, c, right), right) = LeafPair(all, r, d, right)
      BY <2>4, <3>1, <3>3 DEF LeafPair
    <3> QED
      BY <3>4 DEF c, d
  <2> QED
    BY <2>3, <2>4
<1>3. T = [i \in 0 .. t |-> IF i = 0 THEN start ELSE LeafTurn(T[i - 1], right)]
  <2>1. ASSUME NEW i \in 0 .. t, i # 0 PROVE T[i] = LeafTurn(T[i - 1], right)
    <3>1. i - 1 \in 0 .. t - 1 /\ i - 1 \in 0 .. t /\ (i - 1) + 1 = i
      BY <2>1
    <3> HIDE DEF C
    <3>2. T[i] = LeafPair(all, r, C((i - 1) + 1), right) /\ T[i - 1] = LeafPair(all, r, C(i - 1), right)
      BY <3>1
    <3> QED
      BY <1>2, <3>1, <3>2
  <2>2. T[0] = start
    BY <1>1
  <2> HIDE DEF start, C
  <2> QED
    BY <2>1, <2>2
<1>4. T[t] = LeafPair(all, r, b, right)
  BY <1>1
<1> HIDE DEF start, T, C
<1>5. f = [i \in 0 .. t |-> IF i = 0 THEN start ELSE LeafTurn(f[i - 1], right)]
  BY <1>3
<1> HIDE DEF f
<1>6. f[t] = T[t]
  <2>1. f[0] = T[0]
    BY <1>3, <1>5
  <2>2. ASSUME NEW i \in 0 + 1 .. t, f[i - 1] = T[i - 1] PROVE f[i] = T[i]
    BY <1>3, <1>5, <2>2
  <2> QED
    BY <2>1, <2>2, ForIs
<1>7. LeafTurns(start, t, right) = f[t]
  BY DEF LeafTurns, f
<1> QED
  BY <1>4, <1>6, <1>7 DEF start

(* redistribute_keys_leaf with its loop.                                       *)
LEMMA RedistributeLeafUnfolds ==
  ASSUME NEW p, NEW s, NEW up, NEW right, right = L!SiblingIsRight(p, s),
         NEW x1, NEW x2, LeafTurns(<<p, s>>, L!Turns(p, s), right) = <<x1, x2>>
  PROVE  L!RedistributeKeysLeaf(p, s, up) =
           <<x1, x2, IF right THEN L!Separate(up, p.number, s.number, L!KeyAt(x2, 0).bytes)
                     ELSE L!Separate(up, s.number, p.number, L!KeyAt(x1, 0).bytes)>>
<1> DEFINE x == LeafTurns(<<p, s>>, L!Turns(p, s), right)
<1>1. L!RedistributeKeysLeaf(p, s, up) =
        x \o <<IF right THEN L!Separate(up, p.number, s.number, L!KeyAt(x[2], 0).bytes)
               ELSE L!Separate(up, s.number, p.number, L!KeyAt(x[1], 0).bytes)>>
  <2> DEFINE rr == L!SiblingIsRight(p, s)
             y == LeafTurns(<<p, s>>, L!Turns(p, s), rr)
  <2>1. L!RedistributeKeysLeaf(p, s, up) =
          y \o <<IF rr THEN L!Separate(up, p.number, s.number, L!KeyAt(y[2], 0).bytes)
                 ELSE L!Separate(up, s.number, p.number, L!KeyAt(y[1], 0).bytes)>>
    BY DEF L!RedistributeKeysLeaf, L!For, LeafTurns, LeafTurn
  <2>2. rr = right
    OBVIOUS
  <2> HIDE DEF rr
  <2> QED
    BY <2>1, <2>2
<1>2. x = <<x1, x2>>
  OBVIOUS
<1> HIDE DEF x
<1>3. ASSUME NEW z PROVE <<x1, x2>> \o <<z>> = <<x1, x2, z>>
  <2> DEFINE S == {x1, x2, z}
             a == <<x1, x2>> \o <<z>>
  <2>1. <<x1, x2>> \in Seq(S) /\ <<z>> \in Seq(S) /\ <<x1, x2, z>> \in Seq(S)
    OBVIOUS
  <2>2. a \in Seq(S) /\ Len(a) = 3 /\ a[1] = x1 /\ a[2] = x2 /\ a[3] = z
    <3>1. a \in Seq(S) /\ Joined(a, <<x1, x2>>, <<z>>)
      BY <2>1, ConcatIs
    <3>2. Len(<<x1, x2>>) = 2 /\ Len(<<z>>) = 1
      OBVIOUS
    <3>3. \A j \in 1 .. 2 + 1 : a[j] = IF j <= 2 THEN <<x1, x2>>[j] ELSE <<z>>[j - 2]
      BY <3>1, <3>2 DEF Joined
    <3>4. Len(a) = 2 + 1
      BY <3>1, <3>2 DEF Joined
    <3> HIDE DEF a
    <3> QED
      BY <3>1, <3>3, <3>4
  <2> HIDE DEF a, S
  <2>3. \A j \in 1 .. 3 : a[j] = <<x1, x2, z>>[j]
    BY <2>2
  <2>4. a = <<x1, x2, z>>
    BY <2>1, <2>2, <2>3, SeqEqual
  <2> QED
    BY <2>4 DEF a
<1> QED
  BY <1>1, <1>2, <1>3

(* The test of the code is one of two things.                                  *)
LEMMA SiblingIsTest ==
  ASSUME NEW p, NEW s
  PROVE  L!SiblingIsRight(p, s) \in BOOLEAN
<1>1. \A a, b : L!Before(a, b) \in BOOLEAN
  <2>1. ASSUME NEW a, NEW b PROVE L!Before(a, b) \in BOOLEAN
    <3>1. CASE L!Memcmp(a, b) = 0
      BY <3>1 DEF L!Before
    <3>2. CASE L!Memcmp(a, b) # 0
      BY <3>2 DEF L!Before
    <3> QED
      BY <3>1, <3>2
  <2> QED
    BY <2>1
<1> QED
  BY <1>1 DEF L!SiblingIsRight

(* Half of the keys of two pages.                                              *)
Middle(a, b) == (a + b) \div 2

(* How many keys the left of two pages has in the end, from which turn on.     *)
LEMMA TurnsReach ==
  ASSUME NEW l, NEW r, NEW p, NEW s, Siblings(p, s, l, r),
         NEW right \in BOOLEAN, right <=> p = l /\ s = r, right <=> SiblingIsRight(p, s),
         Size(p) \in Nat, Size(s) \in Nat, Size(p) <= Size(s),
         NEW t, t = Middle(Size(s), Size(p)) - Size(p)
  PROVE  t \in Nat /\ LeftShare(p, s) = IF right THEN Size(l) + t ELSE Size(l) - t
<1> DEFINE a == Size(p)
           b == Size(s)
           half == Middle(a, b)
<1>1. a \in Nat /\ b \in Nat /\ a <= b
  OBVIOUS
<1>2. t = half - a /\ half \in Nat /\ a <= half
  <2>1. Middle(b, a) = Middle(a, b)
    <3>1. b + a = a + b
      BY <1>1
    <3> QED
      BY <3>1 DEF Middle
  <2>2. Middle(a, b) \in Nat /\ a <= Middle(a, b)
    <3> HIDE DEF a, b
    <3> QED
      BY <1>1 DEF Middle
  <2> QED
    BY <2>1, <2>2
<1>3. LeftShare(p, s) = IF right THEN half ELSE a + b - half
  BY DEF LeftShare, Middle
<1> HIDE DEF half
<1>4. CASE right
  <2>1. Size(l) = a
    BY <1>4
  <2> HIDE DEF a, b
  <2> QED
    BY <1>1, <1>2, <1>3, <1>4, <2>1
<1>5. CASE ~right
  <2>1. Size(l) = b
    BY <1>5 DEF Siblings
  <2> HIDE DEF a, b
  <2> QED
    BY <1>1, <1>2, <1>3, <1>5, <2>1
<1> QED
  BY <1>4, <1>5

(* The parent's part in a redistribution or a merge: the pages l and r are at  *)
(* its links u and u + 1.                                                      *)
ParentOf(up, u, l, r) ==
  /\ InnerPage(up) /\ u \in 1 .. Size(up)
  /\ \A i \in 1 .. Size(up) + 1 : up.links[i] = up.links[u] => i = u
  /\ up.links[u] = l.number /\ r.number \in Numbers

(* redistribute_keys_leaf on the bytes: the page that lacks a key comes first. *)
LEMMA RedistributeLeafWrites ==
  ASSUME NEW l, NEW r, NEW all, LeavesMeet(l, r, all), Fits(l), Fits(r),
         NEW lo, NEW sep \in Nat, NEW h, Ordered(l, lo, sep), Ordered(r, sep, h),
         NEW p, NEW s, Siblings(p, s, l, r),
         Size(p) = NodesDown - 1, Size(s) > NodesDown, Size(s) <= NodesUp,
         NEW up, NEW u, ParentOf(up, u, l, r),
         NEW q, q = RedistributeKeysLeaf(p, s, up), Fits(q[1]), Fits(q[2]), Fits(q[3])
  PROVE  L!RedistributeKeysLeaf(PageOf(p), PageOf(s), PageOf(up)) =
           IF p = l /\ s = r THEN <<PageOf(q[1]), PageOf(q[2]), PageOf(q[3])>>
           ELSE <<PageOf(q[2]), PageOf(q[1]), PageOf(q[3])>>
<1> DEFINE cut == LeftShare(p, s)
           right == (p = l /\ s = r)
           N == Size(all)
           sep2 == all.keys[cut + 1]
           t == Middle(Size(s), Size(p)) - Size(p)
<1>1. /\ l \in Node /\ r \in Node /\ IsLeaf(l) /\ IsLeaf(r) /\ all = MergeLeaves(l, r)
      /\ r.kind = l.kind /\ r.parent = l.parent /\ WholeLeaf(all) /\ all \in Node
      /\ p \in Node /\ s \in Node
  BY DEF LeavesMeet, WholeLeaf, IsLeaf, Siblings
<1>2. /\ N = Size(l) + Size(r) /\ Size(l) \in Nat /\ Size(r) \in Nat /\ N \in Nat
      /\ SameHead(l, all)
      /\ LeftLeaf(all, Size(l)) = l /\ RightLeaf(all, r, Size(l)) = r
  BY MergedLeaf
<1>3. /\ cut \in NodesDown .. NodesUp /\ N - cut \in NodesDown .. NodesUp
      /\ Size(l) >= 1 /\ Size(r) >= 1
  BY <1>1, <1>2, LeftShareIs
<1>4. Inorder(p, s) = <<l, r>> /\ SiblingIsRight(p, s) = right
  BY <1>1, <1>3, InorderIs
<1>5. cut \in 0 .. N /\ cut + 1 \in 1 .. N /\ N - cut \in Nat /\ 1 \in 1 .. N - cut /\ sep2 \in Keys
  <2>1. cut \in 0 .. N /\ cut + 1 \in 1 .. N /\ N - cut \in Nat /\ 1 \in 1 .. N - cut
    BY <1>2, <1>3, NodesDownIs
  <2> QED
    BY <1>1, <2>1, NodeFields
<1>6. /\ q[1] = LeftLeaf(all, cut) /\ q[2] = RightLeaf(all, r, cut)
      /\ q[3] = NewSeparator(up, l.number, r.number, sep2)
  <2>1. Inorder(p, s)[1] = l /\ Inorder(p, s)[2] = r
    BY <1>4
  <2>2. q = <<LeafPart(all, 1, cut),
              [LeafPart(all, cut + 1, N) EXCEPT !.number = r.number, !.parent = r.parent],
              NewSeparator(up, l.number, r.number, sep2)>>
    BY <1>1, <2>1 DEF RedistributeKeysLeaf
  <2> QED
    BY <2>2 DEF LeftLeaf, RightLeaf, Renamed
<1>7. /\ Shaped(l) /\ Shaped(r) /\ l # Blank /\ r # Blank
      /\ Shaped(p) /\ Shaped(s) /\ p # Blank /\ s # Blank /\ Fits(p) /\ Fits(s)
      /\ Size(p) >= 1 /\ Size(s) >= 1
  BY <1>1, <1>3, LeavesAreThere DEF LeavesMeet, Shape, Shaped, Siblings, IsLeaf
<1>8. L!SiblingIsRight(PageOf(p), PageOf(s)) = right
  <2>1. L!SiblingIsRight(PageOf(p), PageOf(s)) <=> SiblingIsRight(p, s)
    BY <1>7, SiblingReads
  <2> QED
    BY <1>4, <2>1, SiblingIsTest
<1>9. L!Turns(PageOf(p), PageOf(s)) = t
  BY <1>7, HeaderReads DEF L!Turns, Middle
<1>10. /\ Size(p) \in Nat /\ Size(s) \in Nat /\ Size(p) <= Size(s) /\ Size(l) \in 0 .. N
  BY <1>1, <1>2, NodesDownIs, NodeFields
<1> HIDE DEF t, cut, sep2
<1>11. t \in Nat /\ cut = IF right THEN Size(l) + t ELSE Size(l) - t
  <2> DEFINE d == right
  <2>1. d \in BOOLEAN /\ d = (p = l /\ s = r) /\ d = SiblingIsRight(p, s)
    BY <1>4
  <2> HIDE DEF d
  <2>2. t \in Nat /\ LeftShare(p, s) = IF d THEN Size(l) + t ELSE Size(l) - t
    <3>1. t = Middle(Size(s), Size(p)) - Size(p)
      BY DEF t
    <3>2. d \in BOOLEAN /\ (d <=> p = l /\ s = r) /\ (d <=> SiblingIsRight(p, s))
      BY <2>1
    <3>3. Siblings(p, s, l, r)
      OBVIOUS
    <3> QED
      BY <1>10, <3>1, <3>2, <3>3, TurnsReach
  <2> QED
    BY <2>2 DEF d, cut
<1>12. \A c \in 0 .. N : Between(c, Size(l), cut) => LeavesHold(all, r, c)
  BY <1>1, <1>2, <1>5, <1>6, <1>10, CutsHold
<1>13. r.kind = all.kind /\ r.parent = all.parent
  BY <1>1, <1>2 DEF SameHead
<1>14. L!KeyAt(PageOf(RightLeaf(all, r, cut)), 0).bytes = Bytes[sep2]
  <2>1. HoldsLeaf(RightLeaf(all, r, cut), all, cut, N - cut)
    <3>1. Between(cut, Size(l), cut)
      BY <1>2, <1>5 DEF Between
    <3> QED
      BY <1>5, <1>12, <3>1 DEF LeavesHold
  <2>2. \A i \in 1 .. N - cut :
          L!KeyAt(PageOf(RightLeaf(all, r, cut)), i - 1).bytes = Bytes[all.keys[cut + i]]
    BY <1>1, <2>1, HoldsLeafReads
  <2>3. /\ L!KeyAt(PageOf(RightLeaf(all, r, cut)), 1 - 1).bytes = Bytes[all.keys[cut + 1]]
        /\ 1 - 1 = 0
    BY <1>5, <2>2
  <2> QED
    BY <2>3 DEF sep2
<1>15. L!Separate(PageOf(up), l.number, r.number, Bytes[sep2]) = PageOf(q[3])
  <2>1. /\ InnerPage(up) /\ u \in 1 .. Size(up)
        /\ \A i \in 1 .. Size(up) + 1 : up.links[i] = up.links[u] => i = u
        /\ up.links[u] = l.number /\ r.number \in Numbers
    BY DEF ParentOf
  <2>2. q[3] = NewSeparator(up, up.links[u], r.number, sep2)
    BY <1>6, <2>1
  <2>3. L!Separate(PageOf(up), up.links[u], r.number, Bytes[sep2]) = PageOf(q[3])
    BY <1>5, <2>1, <2>2, SeparateWrites
  <2> QED
    BY <2>1, <2>3
<1>16. PageOf(l).number = l.number /\ PageOf(r).number = r.number
  BY <1>7 DEF PageOf
<1> HIDE DEF N
<1> DEFINE d == right
<1>17. d \in BOOLEAN /\ (d <=> p = l /\ s = r) /\ (~d => p = r /\ s = l)
  BY DEF Siblings
<1> HIDE DEF d
<1>18. LeafTurns(LeafPair(all, r, Size(l), d), t, d) = LeafPair(all, r, cut, d)
  <2>1. cut = IF d THEN Size(l) + t ELSE Size(l) - t
    BY <1>11 DEF d
  <2> QED
    BY <1>1, <1>5, <1>10, <1>11, <1>12, <1>13, <1>17, <2>1, LeafTurnsAre DEF N
<1>19. LeafPair(all, r, Size(l), d) = <<PageOf(p), PageOf(s)>>
  BY <1>2, <1>17 DEF LeafPair
<1> DEFINE x1 == LeafPair(all, r, cut, d)[1]
           x2 == LeafPair(all, r, cut, d)[2]
<1>20. /\ LeafPair(all, r, cut, d) = <<x1, x2>>
       /\ d => x1 = PageOf(q[1]) /\ x2 = PageOf(q[2])
       /\ ~d => x1 = PageOf(q[2]) /\ x2 = PageOf(q[1])
  BY <1>6, <1>17 DEF LeafPair
<1> HIDE DEF x1, x2
<1>21. d = L!SiblingIsRight(PageOf(p), PageOf(s))
  BY <1>8 DEF d
<1>22. LeafTurns(<<PageOf(p), PageOf(s)>>, L!Turns(PageOf(p), PageOf(s)), d) = <<x1, x2>>
  BY <1>9, <1>18, <1>19, <1>20
<1>23. L!RedistributeKeysLeaf(PageOf(p), PageOf(s), PageOf(up)) =
        <<x1, x2, IF d THEN L!Separate(PageOf(up), PageOf(p).number, PageOf(s).number,
                                       L!KeyAt(x2, 0).bytes)
                  ELSE L!Separate(PageOf(up), PageOf(s).number, PageOf(p).number,
                                  L!KeyAt(x1, 0).bytes)>>
  BY <1>21, <1>22, RedistributeLeafUnfolds
<1>24. CASE d
  BY <1>6, <1>14, <1>15, <1>16, <1>17, <1>20, <1>23, <1>24
<1>25. CASE ~d
  BY <1>6, <1>14, <1>15, <1>16, <1>17, <1>20, <1>23, <1>25
<1> QED
  BY <1>24, <1>25

(* merge_leaf on the bytes.                                                    *)
LEMMA MergeLeafWrites ==
  ASSUME NEW l, NEW r, NEW all, LeavesMeet(l, r, all), Fits(l), Fits(r), Fits(all)
  PROVE  L!MergeLeaf(PageOf(l), PageOf(r)) = PageOf(all)
<1> DEFINE N == Size(all)
           a == Size(l)
           t == Size(r)
           p == PageOf(r)
           start == PageOf(l)
           Turn(x, i) == L!InsertIntoLeaf(x, L!KeyAt(p, i).bytes, L!DataAt(p, i).bytes)
           T == [i \in 0 .. t |-> PageOf(LeftLeaf(all, a + i))]
           f == CHOOSE f : f = [i \in 0 .. t |-> IF i = 0 THEN start ELSE Turn(f[i - 1], i - 1)]
<1>1. /\ l \in Node /\ r \in Node /\ IsLeaf(r) /\ WholeLeaf(all) /\ Shape(r)
  BY DEF LeavesMeet, IsLeaf
<1>2. /\ N = a + t /\ a \in Nat /\ t \in Nat /\ N \in Nat
      /\ LeftLeaf(all, a) = l /\ RightLeaf(all, r, a) = r /\ LeftLeaf(all, N) = all
  BY MergedLeaf
<1>3. HoldsLeaf(r, all, a, t)
  <2>1. a \in 0 .. N /\ N - a = t
    BY <1>2
  <2>2. HasLeaf(RightLeaf(all, r, a), all, a, N - a)
    BY <1>1, <2>1, CutLeaf
  <2>3. HasLeaf(r, all, a, t)
    BY <1>2, <2>1, <2>2
  <2> QED
    BY <2>3, HasIsHolds
<1>4. ASSUME NEW c \in a .. N
      PROVE  HoldsLeaf(LeftLeaf(all, c), all, 0, c) /\ SameHead(all, LeftLeaf(all, c))
  <2>1. c \in 0 .. N /\ N \in 0 .. N /\ 0 <= 0 /\ 0 + c <= 0 + N
    BY <1>2
  <2>2. /\ HasLeaf(LeftLeaf(all, c), all, 0, c) /\ SameHead(all, LeftLeaf(all, c))
        /\ HasLeaf(LeftLeaf(all, N), all, 0, N)
    BY <1>1, <2>1, CutLeaf
  <2>3. Fits(LeftLeaf(all, N))
    BY <1>2
  <2>4. Fits(LeftLeaf(all, c))
    BY <2>1, <2>2, <2>3, HasLeafFits
  <2> QED
    BY <2>2, <2>4, HasIsHolds
<1>5. /\ L!VertNum(p) = t
      /\ \A i \in 1 .. t : /\ L!KeyAt(p, i - 1).bytes = Bytes[all.keys[a + i]]
                           /\ L!DataAt(p, i - 1).bytes = all.vals[a + i]
  BY <1>1, <1>3, HoldsLeafReads
<1>6. ASSUME NEW i \in 1 .. t PROVE T[i] = Turn(T[i - 1], i - 1)
  <2> DEFINE c == a + (i - 1)
  <2>1. /\ c \in a .. N /\ c + 1 \in a .. N /\ c + 1 = a + i /\ 0 + (c + 1) = a + i
        /\ i - 1 \in 0 .. t /\ i \in 0 .. t /\ c \in Nat
    BY <1>2
  <2>2. T[i] = PageOf(LeftLeaf(all, c + 1)) /\ T[i - 1] = PageOf(LeftLeaf(all, c))
    BY <2>1
  <2> HIDE DEF c, T
  <2>3. /\ HoldsLeaf(LeftLeaf(all, c), all, 0, c) /\ HoldsLeaf(LeftLeaf(all, c + 1), all, 0, c + 1)
        /\ SameHead(LeftLeaf(all, c), LeftLeaf(all, c + 1))
    BY <1>4, <2>1 DEF SameHead
  <2>4. L!InsertIntoLeaf(PageOf(LeftLeaf(all, c)), Bytes[all.keys[0 + (c + 1)]],
                         all.vals[0 + (c + 1)]) = PageOf(LeftLeaf(all, c + 1))
    BY <1>1, <2>3, LastComes
  <2> QED
    BY <1>5, <2>1, <2>2, <2>4
<1>7. T[0] = start /\ T[t] = PageOf(all)
  <2>1. 0 \in 0 .. t /\ a + 0 = a /\ t \in 0 .. t /\ a + t = N
    BY <1>2
  <2>2. T[0] = PageOf(LeftLeaf(all, a + 0)) /\ T[t] = PageOf(LeftLeaf(all, a + t))
    BY <2>1
  <2> QED
    BY <1>2, <2>1, <2>2
<1>8. T = [i \in 0 .. t |-> IF i = 0 THEN start ELSE Turn(T[i - 1], i - 1)]
  <2>1. \A i \in 0 .. t : i # 0 => i \in 1 .. t
    BY <1>2
  <2> HIDE DEF start, Turn
  <2> QED
    BY <1>6, <1>7, <2>1
<1> HIDE DEF start, T, t, Turn
<1>9. f = [i \in 0 .. t |-> IF i = 0 THEN start ELSE Turn(f[i - 1], i - 1)]
  BY <1>8
<1> HIDE DEF f
<1>10. f[t] = T[t]
  <2>1. f[0] = T[0]
    BY <1>2, <1>8, <1>9
  <2>2. ASSUME NEW i \in 0 + 1 .. t, f[i - 1] = T[i - 1] PROVE f[i] = T[i]
    BY <1>2, <1>8, <1>9, <2>2
  <2> QED
    BY <1>2, <2>1, <2>2, ForIs
<1>11. L!MergeLeaf(PageOf(l), p) = f[t]
  <2>1. L!VertNum(p) = t
    BY <1>5
  <2> HIDE DEF p
  <2> QED
    BY <2>1 DEF L!MergeLeaf, L!For, f, start, Turn
<1> QED
  BY <1>7, <1>10, <1>11

-------------------------------------------------------------------------------
(* Keys and links that go from one inner page to its neighbour *)

(* The keys and links of some inner page.                                      *)
WholeInner(all) == all \in Node /\ ~IsLeaf(all) /\ Len(all.links) = Size(all) + 1

(* m has c of the keys, from behind the first a, and the links around them.    *)
HasInner(m, all, a, c) ==
  /\ m \in Node /\ ~IsLeaf(m) /\ Size(m) = c /\ Len(m.links) = c + 1
  /\ a \in Nat /\ c \in Nat /\ a + c <= Size(all)
  /\ \A i \in 1 .. c : m.keys[i] = all.keys[a + i]
  /\ \A i \in 1 .. c + 1 : m.links[i] = all.links[a + i]

HoldsInner(m, all, a, c) == HasInner(m, all, a, c) /\ InnerPage(m)

(* Keys with room are an inner page, and so is a part of them.                 *)
LEMMA HasIsHoldsInner ==
  ASSUME NEW all, NEW m, NEW a, NEW c, HasInner(m, all, a, c), Fits(m)
  PROVE  HoldsInner(m, all, a, c)
BY IsInnerPage DEF HasInner, HoldsInner

LEMMA HasInnerFits ==
  ASSUME NEW all, NEW n, NEW b, NEW d, HasInner(n, all, b, d), Fits(n),
         NEW m, NEW a, NEW c, HasInner(m, all, a, c), b <= a, a + c <= b + d
  PROVE  Fits(m)
<1> DEFINE e == a - b
<1>1. a \in Nat /\ b \in Nat /\ c \in Nat /\ d \in Nat
  BY DEF HasInner
<1>2. e \in Nat /\ e + c <= d /\ \A i \in 1 .. c : e + i \in 1 .. d /\ b + (e + i) = a + i
  BY <1>1
<1> HIDE DEF e
<1>3. Shaped(n) /\ Shaped(m) /\ ~IsLeaf(n) /\ ~IsLeaf(m) /\ Size(m) = c /\ Size(n) = d
  BY <1>1 DEF HasInner, Shaped
<1>4. \A i \in 1 .. d : n.keys[i] = all.keys[b + i]
  BY DEF HasInner
<1>5. \A i \in 1 .. c : m.keys[i] = all.keys[a + i]
  BY DEF HasInner
<1>6. \A i \in 1 .. c : m.keys[i] = n.keys[e + i]
  BY <1>2, <1>4, <1>5
<1> QED
  BY <1>2, <1>3, <1>6, SliceFits

(* What the code reads in it.                                                  *)
LEMMA HoldsInnerReads ==
  ASSUME NEW all, NEW m, NEW a, NEW c, HoldsInner(m, all, a, c)
  PROVE  /\ L!VertNum(PageOf(m)) = c
         /\ \A i \in 1 .. c : /\ L!KeyAt(PageOf(m), i - 1).bytes = Bytes[all.keys[a + i]]
                              /\ L!LinkBefore(PageOf(m), i - 1) = all.links[a + i]
                              /\ L!LinkAfter(PageOf(m), i - 1) = all.links[a + (i + 1)]
<1>1. /\ InnerPage(m) /\ Size(m) = c /\ c \in Nat
      /\ \A i \in 1 .. c : m.keys[i] = all.keys[a + i]
      /\ \A i \in 1 .. c + 1 : m.links[i] = all.links[a + i]
  BY DEF HoldsInner, HasInner
<1>2. \A i \in 1 .. c : i \in 1 .. c + 1 /\ i + 1 \in 1 .. c + 1
  BY <1>1
<1>3. /\ L!VertNum(PageOf(m)) = c
      /\ \A i \in 1 .. c : /\ L!LinkBefore(PageOf(m), i - 1) = m.links[i]
                           /\ L!LinkAfter(PageOf(m), i - 1) = m.links[i + 1]
                           /\ L!KeyAt(PageOf(m), i - 1).bytes = Bytes[m.keys[i]]
  BY <1>1, InnerReads
<1> QED
  BY <1>1, <1>2, <1>3

(* A key with the link behind it goes to the end of a page, or from there ...  *)
LEMMA LastPairMoves ==
  ASSUME NEW all, NEW a, NEW c, NEW n, HoldsInner(n, all, a, c),
         NEW m, HoldsInner(m, all, a, c + 1), SameHead(n, m), SameHead(m, n),
         c >= 1, all.keys[a + (c + 1)] \in Keys
  PROVE  /\ L!InsertAtPos(PageOf(n), c, Bytes[all.keys[a + (c + 1)]], all.links[a + (c + 2)])
              = PageOf(m)
         /\ L!DeleteLastIntermediate(PageOf(m)) = PageOf(n)
<1> DEFINE k == all.keys[a + (c + 1)]
           link == all.links[a + (c + 2)]
<1>1. /\ a \in Nat /\ c \in Nat /\ InnerPage(n) /\ InnerPage(m) /\ Size(n) = c /\ Size(m) = c + 1
      /\ \A i \in 1 .. c : n.keys[i] = all.keys[a + i]
      /\ \A i \in 1 .. c + 1 : n.links[i] = all.links[a + i]
  BY DEF HoldsInner, HasInner
<1>2. /\ \A i \in 1 .. c + 1 : m.keys[i] = all.keys[a + i]
      /\ \A i \in 1 .. c + 2 : m.links[i] = all.links[a + i]
  <2>1. (c + 1) + 1 = c + 2
    BY <1>1
  <2> QED
    BY <2>1 DEF HoldsInner, HasInner
<1>3. InnerEntries(m, n, 0, c + 1, c, k, link)
  <2>1. Size(m) = (c + 1) - 0 /\ m.links[1] = n.links[0 + 1]
    <3>1. (c + 1) - 0 = c + 1 /\ 0 + 1 = 1 /\ 1 \in 1 .. c + 1 /\ 1 \in 1 .. c + 2
      BY <1>1
    <3> QED
      BY <1>1, <1>2, <3>1
  <2>2. ASSUME NEW i \in 0 .. (c + 1) - 1
        PROVE  LET j == i - 0 + 1
                   o == IF 0 <= c /\ c < i THEN i ELSE i + 1
               IN  IF i = c THEN m.keys[j] = k /\ m.links[j + 1] = link
                   ELSE o \in 1 .. Size(n) /\ m.keys[j] = n.keys[o] /\ m.links[j + 1] = n.links[o + 1]
    <3> DEFINE j == i + 1
    <3>1. /\ i \in Int /\ i - 0 + 1 = j /\ ~(c < i) /\ j \in 1 .. c + 1 /\ j + 1 \in 1 .. c + 2
          /\ (i = c => j = c + 1 /\ j + 1 = c + 2)
          /\ (i # c => j \in 1 .. c /\ j + 1 \in 1 .. c + 1)
      BY <1>1
    <3> HIDE DEF j
    <3>2. m.keys[j] = all.keys[a + j] /\ m.links[j + 1] = all.links[a + (j + 1)]
      BY <1>2, <3>1
    <3>3. i # c => n.keys[j] = all.keys[a + j] /\ n.links[j + 1] = all.links[a + (j + 1)]
      BY <1>1, <3>1
    <3>4. i = c => m.keys[j] = k /\ m.links[j + 1] = link
      BY <3>1, <3>2
    <3>5. i # c => m.keys[j] = n.keys[j] /\ m.links[j + 1] = n.links[j + 1] /\ j \in 1 .. Size(n)
      BY <1>1, <3>1, <3>2, <3>3
    <3> HIDE DEF k, link
    <3> QED
      BY <3>1, <3>4, <3>5 DEF j
  <2> QED
    BY <2>1, <2>2 DEF InnerEntries
<1>4. L!InsertAtPos(PageOf(n), c, Bytes[k], link) = PageOf(m)
  <2>1. k \in Keys
    OBVIOUS
  <2> HIDE DEF k, link
  <2> QED
    BY <1>1, <1>3, <2>1, InsertAtPosWrites
<1>5. LacksEnd(n, m, 0)
  <2>1. Size(n) = Size(m) - 1 /\ Size(m) - 1 = c
    BY <1>1
  <2>2. \A i \in 1 .. c + 1 : i + 0 = i /\ i \in 1 .. c + 2
    BY <1>1
  <2>3. \A i \in 1 .. c : n.keys[i] = m.keys[i + 0]
    BY <1>1, <1>2, <2>2
  <2>4. \A i \in 1 .. c + 1 : n.links[i] = m.links[i + 0]
    BY <1>1, <1>2, <2>2
  <2> QED
    BY <1>1, <2>1, <2>3, <2>4 DEF LacksEnd
<1>6. L!DeleteLastIntermediate(PageOf(m)) = PageOf(n)
  <2>1. Size(m) >= 1
    BY <1>1
  <2> QED
    BY <1>1, <1>5, <2>1, DeleteLastWrites
<1> QED
  BY <1>4, <1>6

(* ... or one with the link before it to or from the front.                    *)
LEMMA FirstPairMoves ==
  ASSUME NEW all, NEW a \in Nat, NEW c \in Nat, NEW n, HoldsInner(n, all, a + 1, c),
         NEW m, HoldsInner(m, all, a, c + 1), SameHead(n, m), SameHead(m, n),
         c >= 1, all.keys[a + 1] \in Keys
  PROVE  /\ L!InsertFirstIntoIntermediate(PageOf(n), Bytes[all.keys[a + 1]], all.links[a + 1])
              = PageOf(m)
         /\ L!DeleteFirstIntermediate(PageOf(m)) = PageOf(n)
<1>1. /\ InnerPage(n) /\ InnerPage(m) /\ Size(n) = c /\ Size(m) = c + 1
      /\ \A i \in 1 .. c : n.keys[i] = all.keys[(a + 1) + i]
      /\ \A i \in 1 .. c + 1 : n.links[i] = all.links[(a + 1) + i]
  BY DEF HoldsInner, HasInner
<1>2. /\ \A i \in 1 .. c + 1 : m.keys[i] = all.keys[a + i]
      /\ \A i \in 1 .. (c + 1) + 1 : m.links[i] = all.links[a + i]
  BY DEF HoldsInner, HasInner
<1>3. /\ 1 \in 1 .. c + 1 /\ 1 \in 1 .. (c + 1) + 1
      /\ \A i \in 1 .. c + 1 : (a + 1) + i = a + (i + 1) /\ i + 1 \in 1 .. (c + 1) + 1
      /\ \A i \in 1 .. c : (a + 1) + i = a + (i + 1) /\ i + 1 \in 1 .. c + 1
  OBVIOUS
<1>4. /\ \A i \in 1 .. c : m.keys[i + 1] = n.keys[i]
      /\ \A i \in 1 .. c + 1 : m.links[i + 1] = n.links[i]
      /\ m.keys[1] = all.keys[a + 1] /\ m.links[1] = all.links[a + 1]
  BY <1>1, <1>2, <1>3
<1>5. HasFirst(m, n, all.keys[a + 1], all.links[a + 1])
  BY <1>1, <1>4 DEF HasFirst
<1>6. L!InsertFirstIntoIntermediate(PageOf(n), Bytes[all.keys[a + 1]], all.links[a + 1]) = PageOf(m)
  BY <1>1, <1>5, InsertFirstWrites
<1>7. LacksEnd(n, m, 1)
  <2>1. Size(n) = Size(m) - 1 /\ Size(m) - 1 = c
    BY <1>1
  <2> QED
    BY <1>1, <1>4, <2>1 DEF LacksEnd
<1>8. L!DeleteFirstIntermediate(PageOf(m)) = PageOf(n)
  <2>1. Size(m) >= 2
    BY <1>1
  <2> QED
    BY <1>1, <1>7, <2>1, DeleteFirstWrites
<1> QED
  BY <1>6, <1>8

(* Two inner pages that share all but one of the keys: the first c, and those  *)
(* behind the key that is between them.                                        *)
LeftNode(all, c) == NodePart(all, 1, c)
RightNode(all, r, c) == Renamed(NodePart(all, c + 2, Size(all)), r.number, r.parent)

(* What the two pages are at any cut.                                          *)
LEMMA CutLeft ==
  ASSUME NEW all, WholeInner(all), NEW c \in 0 .. Size(all)
  PROVE  /\ HasInner(LeftNode(all, c), all, 0, c) /\ SameHead(all, LeftNode(all, c))
         /\ LeftNode(all, c).vals = all.vals
<1> DEFINE N == Size(all)
           A == NodePart(all, 1, c)
<1>1. all \in Node /\ ~IsLeaf(all) /\ Len(all.links) = N + 1 /\ N \in Nat /\ c \in Nat /\ c <= N
  BY NodeFields DEF WholeInner
<1>2. InnerSlice(A, all, 1, c) /\ SameHead(all, A)
  <2>1. 1 \in 1 .. N + 1 /\ c \in 1 - 1 .. N
    BY <1>1
  <2> QED
    BY <1>1, <2>1, NodePartIs
<1> HIDE DEF A, N
<1>3. c - 1 + 1 = c /\ c - 1 + 2 = c + 1
  BY <1>1
<1>4. A \in Node /\ Size(A) = c /\ Len(A.links) = c + 1 /\ A.vals = all.vals /\ ~IsLeaf(A)
  BY <1>1, <1>2, <1>3 DEF InnerSlice, SameHead, IsLeaf
<1>5. /\ \A i \in 1 .. c : A.keys[i] = all.keys[0 + i]
      /\ \A i \in 1 .. c + 1 : A.links[i] = all.links[0 + i]
  <2>1. /\ \A i \in 1 .. c : A.keys[i] = all.keys[1 + i - 1]
        /\ \A i \in 1 .. c + 1 : A.links[i] = all.links[1 + i - 1]
    BY <1>2, <1>3 DEF InnerSlice
  <2>2. \A i \in 1 .. c + 1 : 1 + i - 1 = i /\ 0 + i = i
    BY <1>1
  <2>3. \A i \in 1 .. c : i \in 1 .. c + 1
    BY <1>1
  <2> QED
    BY <2>1, <2>2, <2>3
<1>6. 0 + c <= N
  BY <1>1
<1>7. HasInner(A, all, 0, c)
  BY <1>1, <1>4, <1>5, <1>6 DEF HasInner, N
<1> QED
  BY <1>2, <1>4, <1>7 DEF LeftNode, A

LEMMA CutRight ==
  ASSUME NEW all, WholeInner(all), NEW r \in Node, NEW c \in 0 .. Size(all) - 1
  PROVE  LET B == RightNode(all, r, c) IN
         /\ HasInner(B, all, c + 1, Size(all) - (c + 1)) /\ B.vals = all.vals
         /\ B.kind = all.kind /\ B.number = r.number /\ B.parent = r.parent
<1> DEFINE N == Size(all)
           R == NodePart(all, c + 2, N)
           B == Renamed(R, r.number, r.parent)
           d == N - (c + 1)
<1>1. /\ all \in Node /\ ~IsLeaf(all) /\ Len(all.links) = N + 1
      /\ N \in Nat /\ c \in Nat /\ c + 1 <= N /\ d \in Nat
  BY NodeFields DEF WholeInner
<1>2. InnerSlice(R, all, c + 2, N) /\ SameHead(all, R)
  <2>1. c + 2 \in 1 .. N + 1 /\ N \in (c + 2) - 1 .. N
    BY <1>1
  <2> QED
    BY <1>1, <2>1, NodePartIs
<1>3. /\ N - (c + 2) + 1 = d /\ N - (c + 2) + 2 = d + 1 /\ (c + 1) + d <= N
      /\ \A i \in 1 .. d + 1 : c + 2 + i - 1 = (c + 1) + i
      /\ \A i \in 1 .. d : i \in 1 .. d + 1
  BY <1>1
<1> HIDE DEF R, N, d
<1>4. R \in Node /\ Size(R) = d /\ Len(R.links) = d + 1 /\ R.vals = all.vals /\ ~IsLeaf(R)
  BY <1>1, <1>2, <1>3 DEF InnerSlice, SameHead, IsLeaf
<1>5. /\ \A i \in 1 .. d : R.keys[i] = all.keys[(c + 1) + i]
      /\ \A i \in 1 .. d + 1 : R.links[i] = all.links[(c + 1) + i]
  <2>1. /\ \A i \in 1 .. d : R.keys[i] = all.keys[c + 2 + i - 1]
        /\ \A i \in 1 .. d + 1 : R.links[i] = all.links[c + 2 + i - 1]
    BY <1>2, <1>3 DEF InnerSlice
  <2> QED
    BY <1>3, <2>1
<1>6. /\ B \in Node /\ B.kind = R.kind /\ B.number = r.number /\ B.parent = r.parent
      /\ B.keys = R.keys /\ B.vals = R.vals /\ B.links = R.links /\ Size(B) = Size(R)
  <2>1. r.number \in Numbers /\ r.parent \in Numbers /\ R \in Node
    BY <1>4, NodeFields
  <2> HIDE DEF B
  <2>2. B = Renamed(R, r.number, r.parent)
    BY DEF B
  <2> QED
    BY <2>1, <2>2, RenamedIs
<1> HIDE DEF B
<1>7. c + 1 \in Nat
  BY <1>1
<1>8. HasInner(B, all, c + 1, d)
  BY <1>1, <1>3, <1>4, <1>5, <1>6, <1>7 DEF HasInner, IsLeaf, N
<1>9. B.kind = all.kind
  BY <1>2, <1>6 DEF SameHead
<1> QED
  BY <1>4, <1>6, <1>8, <1>9 DEF RightNode, B, R, N, d

(* A page that has all of what another one has.                                *)
LEMMA HasAllIs ==
  ASSUME NEW n \in Node, ~IsLeaf(n), NEW m, NEW all, NEW a, NEW c,
         HasInner(m, all, a, c), SameHead(n, m), m.vals = n.vals,
         Size(n) = c, Len(n.links) = c + 1,
         \A i \in 1 .. c : n.keys[i] = all.keys[a + i],
         \A i \in 1 .. c + 1 : n.links[i] = all.links[a + i]
  PROVE  m = n
<1>1. /\ m \in Node /\ Size(m) = c /\ Len(m.links) = c + 1
      /\ \A i \in 1 .. c : m.keys[i] = all.keys[a + i]
      /\ \A i \in 1 .. c + 1 : m.links[i] = all.links[a + i]
  BY DEF HasInner
<1>2. SameNode(n, m)
  BY <1>1 DEF SameNode
<1> QED
  BY <1>1, <1>2, SameNodeIs

(* Two inner pages, one right of the other.                                    *)
NodesMeet(l, r, all, lo, sep, h) ==
  InnerHalves(all, l, r, Size(l), lo, sep, h) /\ lo \in Nat /\ h \in Nat

(* What the merged page has of each.                                           *)
LEMMA MeetingNodes ==
  ASSUME NEW l, NEW r, NEW all, NEW lo, NEW sep, NEW h, NodesMeet(l, r, all, lo, sep, h)
  PROVE  /\ WholeInner(all) /\ l \in Node /\ r \in Node /\ ~IsLeaf(l) /\ ~IsLeaf(r)
         /\ Size(l) \in Nat /\ Size(r) \in Nat /\ Size(all) = Size(l) + 1 + Size(r)
         /\ Len(l.links) = Size(l) + 1 /\ Len(r.links) = Size(r) + 1
         /\ l.vals = all.vals /\ r.vals = all.vals
         /\ SameHead(l, all) /\ r.kind = all.kind /\ r.parent = all.parent
         /\ all.keys[Size(l) + 1] = sep /\ sep \in Keys
         /\ \A i \in 1 .. Size(l) : l.keys[i] = all.keys[i]
         /\ \A i \in 1 .. Size(l) + 1 : l.links[i] = all.links[i]
         /\ \A i \in 1 .. Size(r) : r.keys[i] = all.keys[Size(l) + 1 + i]
         /\ \A i \in 1 .. Size(r) + 1 : r.links[i] = all.links[Size(l) + 1 + i]
<1> DEFINE c == Size(l)
           N == Size(all)
<1>1. /\ all \in Node /\ Shape(all) /\ l \in Node /\ Shape(l) /\ r \in Node /\ Shape(r)
      /\ l.kind = all.kind /\ l.number = all.number /\ l.parent = all.parent
      /\ r.kind = all.kind /\ r.parent = all.parent /\ sep \in Keys
      /\ all.kind \in Interiors /\ Size(r) = N - c - 1 /\ c < N
      /\ \A i \in 0 .. c + 1 : Fence(l, lo, sep, i) = Fence(all, lo, h, i)
      /\ \A j \in 1 .. c + 1 : l.links[j] = all.links[j]
      /\ \A i \in 0 .. N - c : Fence(r, sep, h, i) = Fence(all, lo, h, c + 1 + i)
      /\ \A j \in 1 .. N - c : r.links[j] = all.links[c + 1 + j]
  BY DEF NodesMeet, InnerHalves, Halves
<1>2. c \in Nat /\ N \in Nat /\ Size(r) \in Nat
  BY <1>1, NodeFields
<1>3. ~IsLeaf(all) /\ ~IsLeaf(l) /\ ~IsLeaf(r)
  BY <1>1 DEF IsLeaf, Interiors, Leaves
<1>4. /\ Len(all.links) = N + 1 /\ Len(l.links) = c + 1 /\ Len(r.links) = Size(r) + 1
      /\ all.vals = <<>> /\ l.vals = <<>> /\ r.vals = <<>>
  BY <1>1 DEF Shape
<1> HIDE DEF c, N
<1>5. N = c + 1 + Size(r) /\ N - c = Size(r) + 1
  BY <1>1, <1>2
<1>6. \A i \in 1 .. c + 1 : i \in 0 .. c + 1 /\ i # 0 /\ i # N + 1
  BY <1>1, <1>2
<1>7. \A i \in 1 .. c + 1 : Fence(all, lo, h, i) = all.keys[i]
  BY <1>6 DEF Fence, N
<1>8. all.keys[c + 1] = sep
  <2>1. c + 1 \in 1 .. c + 1 /\ c + 1 # 0 /\ c + 1 \in 0 .. c + 1
    BY <1>2
  <2>2. Fence(l, lo, sep, c + 1) = sep
    BY <2>1 DEF Fence, c
  <2> QED
    BY <1>1, <1>7, <2>1, <2>2
<1>9. \A i \in 1 .. c : l.keys[i] = all.keys[i]
  <2>1. \A i \in 1 .. c : i \in 1 .. c + 1 /\ i \in 0 .. c + 1 /\ i # 0 /\ i # c + 1
    BY <1>2
  <2>2. \A i \in 1 .. c : Fence(l, lo, sep, i) = l.keys[i]
    BY <2>1 DEF Fence, c
  <2> QED
    BY <1>1, <1>7, <2>1, <2>2
<1>10. \A i \in 1 .. Size(r) : r.keys[i] = all.keys[c + 1 + i]
  <2>1. \A i \in 1 .. Size(r) : /\ i \in 0 .. N - c /\ i # 0 /\ i # Size(r) + 1
                                /\ c + 1 + i # 0 /\ c + 1 + i # N + 1
    BY <1>2, <1>5
  <2>2. \A i \in 1 .. Size(r) : Fence(r, sep, h, i) = r.keys[i]
    BY <2>1 DEF Fence
  <2>3. \A i \in 1 .. Size(r) : Fence(all, lo, h, c + 1 + i) = all.keys[c + 1 + i]
    BY <2>1 DEF Fence, N
  <2> QED
    BY <1>1, <2>1, <2>2, <2>3
<1> QED
  BY <1>1, <1>2, <1>3, <1>4, <1>5, <1>8, <1>9, <1>10 DEF WholeInner, SameHead, c, N

(* At the cut where they were before, they are those pages.                    *)
LEMMA MergedInner ==
  ASSUME NEW l, NEW r, NEW all, NEW lo, NEW sep, NEW h, NodesMeet(l, r, all, lo, sep, h)
  PROVE  /\ LeftNode(all, Size(l)) = l /\ RightNode(all, r, Size(l)) = r
         /\ LeftNode(all, Size(all)) = all
<1> DEFINE c == Size(l)
           N == Size(all)
           A == LeftNode(all, c)
           B == RightNode(all, r, c)
           W == LeftNode(all, N)
<1>1. /\ WholeInner(all) /\ l \in Node /\ r \in Node /\ ~IsLeaf(l) /\ ~IsLeaf(r)
      /\ c \in Nat /\ Size(r) \in Nat /\ N = c + 1 + Size(r)
      /\ Len(l.links) = c + 1 /\ Len(r.links) = Size(r) + 1
      /\ l.vals = all.vals /\ r.vals = all.vals
      /\ SameHead(l, all) /\ r.kind = all.kind /\ r.parent = all.parent
      /\ \A i \in 1 .. c : l.keys[i] = all.keys[i]
      /\ \A i \in 1 .. c + 1 : l.links[i] = all.links[i]
      /\ \A i \in 1 .. Size(r) : r.keys[i] = all.keys[c + 1 + i]
      /\ \A i \in 1 .. Size(r) + 1 : r.links[i] = all.links[c + 1 + i]
  BY MeetingNodes
<1>2. /\ all \in Node /\ ~IsLeaf(all) /\ Len(all.links) = N + 1
      /\ c \in 0 .. N /\ c \in 0 .. N - 1 /\ N \in 0 .. N /\ N - (c + 1) = Size(r)
  BY <1>1 DEF WholeInner
<1>3. /\ HasInner(A, all, 0, c) /\ SameHead(all, A) /\ A.vals = all.vals
      /\ HasInner(W, all, 0, N) /\ SameHead(all, W) /\ W.vals = all.vals
  BY <1>1, <1>2, CutLeft
<1>4. /\ HasInner(B, all, c + 1, Size(r)) /\ B.vals = all.vals
      /\ B.kind = all.kind /\ B.number = r.number /\ B.parent = r.parent
  BY <1>1, <1>2, CutRight
<1> HIDE DEF A, B, W, c, N
<1>5. \A i \in Nat : 0 + i = i
  OBVIOUS
<1>6. A = l
  <2>1. /\ \A i \in 1 .. c : l.keys[i] = all.keys[0 + i]
        /\ \A i \in 1 .. c + 1 : l.links[i] = all.links[0 + i]
    <3>1. \A i \in 1 .. c + 1 : 0 + i = i
      BY <1>1
    <3>2. \A i \in 1 .. c : 0 + i = i
      BY <1>1
    <3> QED
      BY <1>1, <3>1, <3>2
  <2>2. SameHead(l, A) /\ Size(l) = c
    BY <1>1, <1>3 DEF SameHead, c
  <2> QED
    BY <1>1, <1>3, <2>1, <2>2, HasAllIs
<1>7. B = r
  <2>1. SameHead(r, B)
    BY <1>1, <1>4 DEF SameHead
  <2> QED
    BY <1>1, <1>4, <2>1, HasAllIs
<1>8. W = all
  <2>1. /\ \A i \in 1 .. N : all.keys[i] = all.keys[0 + i]
        /\ \A i \in 1 .. N + 1 : all.links[i] = all.links[0 + i]
    <3>1. \A i \in 1 .. N + 1 : 0 + i = i
      BY <1>1
    <3>2. \A i \in 1 .. N : 0 + i = i
      BY <1>1
    <3> QED
      BY <3>1, <3>2
  <2>2. Size(all) = N
    BY DEF N
  <2> QED
    BY <1>2, <1>3, <2>1, <2>2, HasAllIs
<1> QED
  BY <1>6, <1>7, <1>8 DEF A, B, W, c, N

(* Both pages fit at a cut.                                                    *)
NodesHold(all, r, c) ==
  /\ HoldsInner(LeftNode(all, c), all, 0, c)
  /\ HoldsInner(RightNode(all, r, c), all, c + 1, Size(all) - (c + 1))
  /\ SameHead(all, LeftNode(all, c)) /\ RightNode(all, r, c).kind = all.kind
  /\ RightNode(all, r, c).number = r.number /\ RightNode(all, r, c).parent = r.parent

(* Between two cuts at which both pages fit, they fit at each.                 *)
LEMMA NodeCutsHold ==
  ASSUME NEW all, WholeInner(all), NEW r \in Node,
         NEW a \in 0 .. Size(all) - 1, Fits(LeftNode(all, a)), Fits(RightNode(all, r, a)),
         NEW b \in 0 .. Size(all) - 1, Fits(LeftNode(all, b)), Fits(RightNode(all, r, b)),
         NEW c \in 0 .. Size(all) - 1, Between(c, a, b)
  PROVE  NodesHold(all, r, c)
<1> DEFINE N == Size(all)
<1>1. N \in Nat /\ a \in Nat /\ b \in Nat /\ c \in Nat
  BY NodeFields DEF WholeInner
<1>2. \A i \in 0 .. N - 1 : /\ i \in Nat /\ i \in 0 .. N
                            /\ HasInner(LeftNode(all, i), all, 0, i)
                            /\ HasInner(RightNode(all, r, i), all, i + 1, N - (i + 1))
  <2>1. \A i \in 0 .. N - 1 : i \in Nat /\ i \in 0 .. N
    BY <1>1
  <2> QED
    BY <2>1, CutLeft, CutRight
<1> HIDE DEF N
<1>3. Fits(LeftNode(all, c))
  <2>1. PICK d \in {a, b} : c <= d
    BY <1>1 DEF Between
  <2>2. d \in 0 .. N - 1 /\ Fits(LeftNode(all, d)) /\ c \in 0 .. N - 1 /\ d \in Nat
    BY <1>1 DEF N
  <2>3. HasInner(LeftNode(all, d), all, 0, d) /\ HasInner(LeftNode(all, c), all, 0, c)
    BY <1>2, <2>2
  <2>4. 0 <= 0 /\ 0 + c <= 0 + d
    BY <1>1, <2>1, <2>2
  <2> QED
    BY <2>2, <2>3, <2>4, HasInnerFits
<1>4. Fits(RightNode(all, r, c))
  <2>1. PICK d \in {a, b} : d <= c
    BY <1>1 DEF Between
  <2>2. d \in 0 .. N - 1 /\ Fits(RightNode(all, r, d)) /\ c \in 0 .. N - 1 /\ d \in Nat
    BY <1>1 DEF N
  <2>3. /\ HasInner(RightNode(all, r, d), all, d + 1, N - (d + 1))
        /\ HasInner(RightNode(all, r, c), all, c + 1, N - (c + 1))
    BY <1>2, <2>2
  <2>4. d + 1 <= c + 1 /\ (c + 1) + (N - (c + 1)) <= (d + 1) + (N - (d + 1))
    BY <1>1, <2>1, <2>2
  <2> QED
    BY <2>2, <2>3, <2>4, HasInnerFits
<1>5. c \in 0 .. N - 1
  BY DEF N
<1>6. /\ HoldsInner(LeftNode(all, c), all, 0, c)
      /\ HoldsInner(RightNode(all, r, c), all, c + 1, N - (c + 1))
  <2>1. /\ HasInner(LeftNode(all, c), all, 0, c)
        /\ HasInner(RightNode(all, r, c), all, c + 1, N - (c + 1))
    BY <1>2, <1>5
  <2> QED
    BY <1>3, <1>4, <2>1, HasIsHoldsInner
<1>7. c \in 0 .. Size(all)
  BY <1>2, <1>5 DEF N
<1> QED
  BY <1>6, <1>7, CutLeft, CutRight DEF NodesHold, N

(* A turn of redistribute_keys_intermediate: a key of the page x[2] goes up,   *)
(* and the one that was in the parent comes down to the page x[1].             *)
NodeTurn(x, right) ==
  LET last == L!VertNum(x[2]) - 1 IN
  IF right
  THEN <<L!InsertAtPos(x[1], L!VertNum(x[1]), x[3], L!LinkBefore(x[2], 0)),
         L!DeleteFirstIntermediate(x[2]), L!KeyAt(x[2], 0).bytes>>
  ELSE <<L!InsertFirstIntoIntermediate(x[1], x[3], L!LinkAfter(x[2], last)),
         L!DeleteLastIntermediate(x[2]), L!KeyAt(x[2], last).bytes>>

(* The page that gets keys, the one that they come from, and the key between.  *)
NodeTriple(all, r, c, right) ==
  IF right
  THEN <<PageOf(LeftNode(all, c)), PageOf(RightNode(all, r, c)), Bytes[all.keys[c + 1]]>>
  ELSE <<PageOf(RightNode(all, r, c)), PageOf(LeftNode(all, c)), Bytes[all.keys[c + 1]]>>

(* It moves the cut by one key, to the right or to the left.                   *)
LEMMA NodeTurnIs ==
  ASSUME NEW all, WholeInner(all), NEW r \in Node, r.kind = all.kind, r.parent = all.parent,
         NEW c \in 1 .. Size(all) - 3, NodesHold(all, r, c), NodesHold(all, r, c + 1)
  PROVE  /\ NodeTurn(NodeTriple(all, r, c, TRUE), TRUE) = NodeTriple(all, r, c + 1, TRUE)
         /\ NodeTurn(NodeTriple(all, r, c + 1, FALSE), FALSE) = NodeTriple(all, r, c, FALSE)
<1> DEFINE A == LeftNode(all, c)
           A2 == LeftNode(all, c + 1)
           B == RightNode(all, r, c)
           B2 == RightNode(all, r, c + 1)
           k == Bytes[all.keys[c + 1]]
           k2 == Bytes[all.keys[(c + 1) + 1]]
           link == all.links[c + 2]
           e == Size(all) - (c + 2)
<1>1. /\ Size(all) \in Nat /\ c \in Nat /\ e \in Nat /\ c >= 1 /\ e >= 1
      /\ Size(all) - (c + 1) = e + 1 /\ Size(all) - ((c + 1) + 1) = e
      /\ c + 1 \in 1 .. Size(all) /\ (c + 1) + 1 \in 1 .. Size(all)
      /\ 0 + (c + 1) = c + 1 /\ 0 + (c + 2) = c + 2 /\ (c + 1) + 1 = c + 2
  BY NodeFields DEF WholeInner
<1>2. /\ HoldsInner(A, all, 0, c) /\ HoldsInner(A2, all, 0, c + 1)
      /\ HoldsInner(B, all, c + 1, e + 1) /\ HoldsInner(B2, all, (c + 1) + 1, e)
      /\ SameHead(A, A2) /\ SameHead(A2, A) /\ SameHead(B, B2) /\ SameHead(B2, B)
  BY <1>1 DEF NodesHold, SameHead
<1>3. all.keys[c + 1] \in Keys /\ all.keys[(c + 1) + 1] \in Keys
  BY <1>1, NodeFields DEF WholeInner
<1> HIDE DEF A, A2, B, B2, e
<1>4. L!KeyAt(PageOf(B), 0).bytes = k2 /\ L!LinkBefore(PageOf(B), 0) = link
  <2>1. \A i \in 1 .. e + 1 : /\ L!KeyAt(PageOf(B), i - 1).bytes = Bytes[all.keys[(c + 1) + i]]
                              /\ L!LinkBefore(PageOf(B), i - 1) = all.links[(c + 1) + i]
    BY <1>2, HoldsInnerReads
  <2>2. 1 \in 1 .. e + 1 /\ 1 - 1 = 0
    BY <1>1
  <2>3. /\ L!KeyAt(PageOf(B), 1 - 1).bytes = Bytes[all.keys[(c + 1) + 1]]
        /\ L!LinkBefore(PageOf(B), 1 - 1) = all.links[(c + 1) + 1]
    BY <2>1, <2>2
  <2> QED
    BY <1>1, <2>2, <2>3
<1>5. /\ L!VertNum(PageOf(A)) = c /\ L!VertNum(PageOf(A2)) - 1 = c
      /\ L!KeyAt(PageOf(A2), c).bytes = k /\ L!LinkAfter(PageOf(A2), c) = link
  <2>1. /\ L!VertNum(PageOf(A2)) = c + 1 /\ L!VertNum(PageOf(A)) = c
        /\ \A i \in 1 .. c + 1 : /\ L!KeyAt(PageOf(A2), i - 1).bytes = Bytes[all.keys[0 + i]]
                                 /\ L!LinkAfter(PageOf(A2), i - 1) = all.links[0 + (i + 1)]
    BY <1>2, HoldsInnerReads
  <2> DEFINE i == c + 1
  <2>2. i \in 1 .. c + 1 /\ i - 1 = c /\ 0 + i = c + 1 /\ 0 + (i + 1) = c + 2
    BY <1>1
  <2> HIDE DEF i
  <2>3. /\ L!KeyAt(PageOf(A2), i - 1).bytes = Bytes[all.keys[0 + i]]
        /\ L!LinkAfter(PageOf(A2), i - 1) = all.links[0 + (i + 1)]
    BY <2>1, <2>2
  <2>4. L!KeyAt(PageOf(A2), c).bytes = k /\ L!LinkAfter(PageOf(A2), c) = link
    BY <2>2, <2>3
  <2>5. (c + 1) - 1 = c
    BY <1>1
  <2> QED
    BY <2>1, <2>4, <2>5
<1>6. /\ L!InsertAtPos(PageOf(A), c, k, link) = PageOf(A2)
      /\ L!DeleteLastIntermediate(PageOf(A2)) = PageOf(A)
  <2>1. all.keys[0 + (c + 1)] \in Keys
    BY <1>1, <1>3
  <2>2. /\ L!InsertAtPos(PageOf(A), c, Bytes[all.keys[0 + (c + 1)]], all.links[0 + (c + 2)])
             = PageOf(A2)
        /\ L!DeleteLastIntermediate(PageOf(A2)) = PageOf(A)
    BY <1>1, <1>2, <2>1, LastPairMoves
  <2> QED
    BY <1>1, <2>2
<1>7. /\ L!InsertFirstIntoIntermediate(PageOf(B2), k2, link) = PageOf(B)
      /\ L!DeleteFirstIntermediate(PageOf(B)) = PageOf(B2)
  <2> DEFINE d == c + 1
  <2>1. /\ d \in Nat /\ e \in Nat /\ HoldsInner(B2, all, d + 1, e) /\ HoldsInner(B, all, d, e + 1)
        /\ SameHead(B2, B) /\ SameHead(B, B2) /\ e >= 1 /\ all.keys[d + 1] \in Keys
    BY <1>1, <1>2, <1>3
  <2> HIDE DEF d
  <2>2. /\ L!InsertFirstIntoIntermediate(PageOf(B2), Bytes[all.keys[d + 1]], all.links[d + 1])
             = PageOf(B)
        /\ L!DeleteFirstIntermediate(PageOf(B)) = PageOf(B2)
    BY <2>1, FirstPairMoves
  <2> QED
    BY <1>1, <2>2 DEF d
<1>8. /\ NodeTriple(all, r, c, TRUE) = <<PageOf(A), PageOf(B), k>>
      /\ NodeTriple(all, r, c + 1, TRUE) = <<PageOf(A2), PageOf(B2), k2>>
      /\ NodeTriple(all, r, c, FALSE) = <<PageOf(B), PageOf(A), k>>
      /\ NodeTriple(all, r, c + 1, FALSE) = <<PageOf(B2), PageOf(A2), k2>>
  BY DEF NodeTriple, A, A2, B, B2
<1> HIDE DEF k, k2, link
<1>9. NodeTurn(<<PageOf(A), PageOf(B), k>>, TRUE) = <<PageOf(A2), PageOf(B2), k2>>
  BY <1>4, <1>5, <1>6, <1>7 DEF NodeTurn
<1>10. NodeTurn(<<PageOf(B2), PageOf(A2), k2>>, FALSE) = <<PageOf(B), PageOf(A), k>>
  BY <1>4, <1>5, <1>6, <1>7 DEF NodeTurn
<1> QED
  BY <1>8, <1>9, <1>10

(* All turns, and where they lead.                                             *)
NodeTurns(start, t, right) ==
  LET f[i \in 0 .. t] == IF i = 0 THEN start ELSE NodeTurn(f[i - 1], right)
  IN  f[t]

LEMMA NodeTurnsAre ==
  ASSUME NEW all, WholeInner(all), NEW r \in Node, r.kind = all.kind, r.parent = all.parent,
         NEW right \in BOOLEAN, NEW t \in Nat,
         NEW a \in 1 .. Size(all) - 2, NEW b \in 1 .. Size(all) - 2,
         b = IF right THEN a + t ELSE a - t,
         \A c \in 1 .. Size(all) - 2 : Between(c, a, b) => NodesHold(all, r, c)
  PROVE  NodeTurns(NodeTriple(all, r, a, right), t, right) = NodeTriple(all, r, b, right)
<1> DEFINE start == NodeTriple(all, r, a, right)
           C(i) == IF right THEN a + i ELSE a - i
           T == [i \in 0 .. t |-> NodeTriple(all, r, C(i), right)]
           f == CHOOSE f : f = [i \in 0 .. t |-> IF i = 0 THEN start ELSE NodeTurn(f[i - 1], right)]
           N == Size(all)
<1>1. N \in Nat /\ a \in Nat /\ b \in Nat /\ C(0) = a /\ C(t) = b
  BY NodeFields DEF WholeInner
<1>2. ASSUME NEW i \in 0 .. t - 1
      PROVE  NodeTurn(NodeTriple(all, r, C(i), right), right) = NodeTriple(all, r, C(i + 1), right)
  <2>1. /\ C(i) \in 1 .. N - 2 /\ C(i + 1) \in 1 .. N - 2
        /\ Between(C(i), a, b) /\ Between(C(i + 1), a, b)
        /\ right => C(i + 1) = C(i) + 1 /\ C(i) \in 1 .. N - 3
        /\ ~right => C(i) = C(i + 1) + 1 /\ C(i + 1) \in 1 .. N - 3
    BY <1>1 DEF Between
  <2>2. NodesHold(all, r, C(i)) /\ NodesHold(all, r, C(i + 1))
    BY <2>1 DEF N
  <2> DEFINE c == C(i)
             d == C(i + 1)
  <2> HIDE DEF C, c, d, N
  <2>3. CASE right
    <3>1. d = c + 1 /\ c \in 1 .. Size(all) - 3
      BY <2>1, <2>3 DEF c, d, N
    <3>2. NodesHold(all, r, c) /\ NodesHold(all, r, c + 1)
      BY <2>2, <3>1 DEF c, d
    <3>3. NodeTurn(NodeTriple(all, r, c, TRUE), TRUE) = NodeTriple(all, r, c + 1, TRUE)
      BY <3>1, <3>2, NodeTurnIs
    <3>4. right = TRUE
      BY <2>3
    <3> QED
      BY <3>1, <3>3, <3>4 DEF c, d
  <2>4. CASE ~right
    <3>1. c = d + 1 /\ d \in 1 .. Size(all) - 3
      BY <2>1, <2>4 DEF c, d, N
    <3>2. NodesHold(all, r, d) /\ NodesHold(all, r, d + 1)
      BY <2>2, <3>1 DEF c, d
    <3>3. NodeTurn(NodeTriple(all, r, d + 1, FALSE), FALSE) = NodeTriple(all, r, d, FALSE)
      BY <3>1, <3>2, NodeTurnIs
    <3>4. right = FALSE
      BY <2>4
    <3> QED
      BY <3>1, <3>3, <3>4 DEF c, d
  <2> QED
    BY <2>3, <2>4
<1>3. T = [i \in 0 .. t |-> IF i = 0 THEN start ELSE NodeTurn(T[i - 1], right)]
  <2>1. ASSUME NEW i \in 0 .. t, i # 0 PROVE T[i] = NodeTurn(T[i - 1], right)
    <3>1. i - 1 \in 0 .. t - 1 /\ i - 1 \in 0 .. t /\ (i - 1) + 1 = i
      BY <2>1
    <3> HIDE DEF C
    <3>2. T[i] = NodeTriple(all, r, C((i - 1) + 1), right) /\ T[i - 1] = NodeTriple(all, r, C(i - 1), right)
      BY <3>1
    <3> QED
      BY <1>2, <3>1, <3>2
  <2>2. T[0] = start
    BY <1>1
  <2> HIDE DEF start, C
  <2> QED
    BY <2>1, <2>2
<1>4. T[t] = NodeTriple(all, r, b, right)
  BY <1>1
<1> HIDE DEF start, T, C
<1>5. f = [i \in 0 .. t |-> IF i = 0 THEN start ELSE NodeTurn(f[i - 1], right)]
  BY <1>3
<1> HIDE DEF f
<1>6. f[t] = T[t]
  <2>1. f[0] = T[0]
    BY <1>3, <1>5
  <2>2. ASSUME NEW i \in 0 + 1 .. t, f[i - 1] = T[i - 1] PROVE f[i] = T[i]
    BY <1>3, <1>5, <2>2
  <2> QED
    BY <2>1, <2>2, ForIs
<1>7. NodeTurns(start, t, right) = f[t]
  BY DEF NodeTurns, f
<1> QED
  BY <1>4, <1>6, <1>7 DEF start

(* redistribute_keys_intermediate with its loop.                               *)
LEMMA RedistributeNodesUnfolds ==
  ASSUME NEW p, NEW s, NEW up, NEW right, right = L!SiblingIsRight(p, s),
         NEW l, l = (IF right THEN p.number ELSE s.number),
         NEW r, r = (IF right THEN s.number ELSE p.number),
         NEW key, key = L!KeyAt(up, L!LinkIndex(up, l)).bytes,
         NEW x1, NEW x2, NEW x3,
         NodeTurns(<<p, s, key>>, L!Turns(p, s), right) = <<x1, x2, x3>>
  PROVE  L!RedistributeKeysIntermediate(p, s, up) = <<x1, x2, L!Separate(up, l, r, x3)>>
<1> DEFINE x == NodeTurns(<<p, s, key>>, L!Turns(p, s), right)
<1>1. L!RedistributeKeysIntermediate(p, s, up) = <<x[1], x[2], L!Separate(up, l, r, x[3])>>
  <2> DEFINE rr == L!SiblingIsRight(p, s)
             ll == IF rr THEN p.number ELSE s.number
             kk == L!KeyAt(up, L!LinkIndex(up, ll)).bytes
             y == NodeTurns(<<p, s, kk>>, L!Turns(p, s), rr)
  <2>1. L!RedistributeKeysIntermediate(p, s, up) =
          <<y[1], y[2], L!Separate(up, ll, IF rr THEN s.number ELSE p.number, y[3])>>
    BY DEF L!RedistributeKeysIntermediate, L!For, NodeTurns, NodeTurn
  <2>2. rr = right /\ ll = l /\ kk = key /\ (IF rr THEN s.number ELSE p.number) = r
    OBVIOUS
  <2> HIDE DEF rr, ll, kk
  <2> QED
    BY <2>1, <2>2
<1>2. x = <<x1, x2, x3>>
  OBVIOUS
<1> HIDE DEF x
<1> QED
  BY <1>1, <1>2

(* The key between two pages.                                                  *)
LEMMA KeyOfParent ==
  ASSUME NEW up, NEW u, NEW l, NEW r, ParentOf(up, u, l, r)
  PROVE  /\ KeyBehind(up, l.number) = up.keys[u]
         /\ L!KeyAt(PageOf(up), L!LinkIndex(PageOf(up), l.number)).bytes = Bytes[up.keys[u]]
<1>1. /\ InnerPage(up) /\ u \in 1 .. Size(up) /\ up.links[u] = l.number
      /\ \A i \in 1 .. Size(up) + 1 : up.links[i] = up.links[u] => i = u
  BY DEF ParentOf
<1>2. up \in Node /\ Size(up) \in Nat /\ Len(up.links) = Size(up) + 1 /\ up.links \in Seq(Numbers)
  BY <1>1, NodeFields DEF InnerPage, Shaped
<1>3. IndexIn(up.links, up.links[u]) = u
  <2>1. u \in 1 .. Len(up.links) /\ \A j \in 1 .. Len(up.links) : up.links[j] = up.links[u] => j = u
    BY <1>1, <1>2
  <2> QED
    BY <1>2, <2>1, IndexInIs
<1>4. KeyBehind(up, up.links[u]) = up.keys[u]
  BY <1>3, KeyBehindAt
<1>5. \A i \in 1 .. Size(up) : up.links[i] = up.links[u] => i = u
  <2>1. \A i \in 1 .. Size(up) : i \in 1 .. Size(up) + 1
    BY <1>2
  <2> QED
    BY <1>1, <2>1
<1>6. L!KeyAt(PageOf(up), L!LinkIndex(PageOf(up), up.links[u])).bytes = Bytes[up.keys[u]]
  BY <1>1, <1>5, LinkIndexReads
<1> QED
  BY <1>1, <1>4, <1>6

(* redistribute_keys_intermediate on the bytes.                                *)
LEMMA RedistributeNodesWrites ==
  ASSUME NEW l, NEW r, NEW all, NEW lo, NEW sep, NEW h, NodesMeet(l, r, all, lo, sep, h),
         all = MergeNodes(l, sep, r), Fits(l), Fits(r),
         NEW p, NEW s, Siblings(p, s, l, r),
         Size(p) = NodesDown - 1, Size(s) > NodesDown, Size(s) <= NodesUp,
         NEW up, NEW u, ParentOf(up, u, l, r), up.keys[u] = sep,
         NEW q, q = RedistributeKeysIntermediate(p, s, up), Fits(q[1]), Fits(q[2]), Fits(q[3])
  PROVE  L!RedistributeKeysIntermediate(PageOf(p), PageOf(s), PageOf(up)) =
           IF p = l /\ s = r THEN <<PageOf(q[1]), PageOf(q[2]), PageOf(q[3])>>
           ELSE <<PageOf(q[2]), PageOf(q[1]), PageOf(q[3])>>
<1> DEFINE cut == LeftShare(p, s)
           right == (p = l /\ s = r)
           N == Size(all)
           sep2 == all.keys[cut + 1]
           t == Middle(Size(s), Size(p)) - Size(p)
<1>1. /\ l \in Node /\ r \in Node /\ ~IsLeaf(l) /\ ~IsLeaf(r) /\ WholeInner(all) /\ all \in Node
      /\ p \in Node /\ s \in Node /\ Ordered(l, lo, sep) /\ Ordered(r, sep, h) /\ sep \in Nat
  <2>1. Ordered(l, lo, sep) /\ Ordered(r, sep, h) /\ sep \in Keys
    BY DEF NodesMeet, InnerHalves, Halves
  <2> QED
    BY <2>1, MeetingNodes, NumbersAreNat DEF WholeInner, Siblings
<1>2. /\ N = Size(l) + 1 + Size(r) /\ Size(l) \in Nat /\ Size(r) \in Nat /\ N \in Nat
      /\ Len(l.links) = Size(l) + 1 /\ Len(r.links) = Size(r) + 1
      /\ SameHead(l, all) /\ r.kind = all.kind /\ r.parent = all.parent
      /\ all.keys[Size(l) + 1] = sep
      /\ LeftNode(all, Size(l)) = l /\ RightNode(all, r, Size(l)) = r
  BY <1>1, MeetingNodes, MergedInner, NodeFields
<1>3. /\ cut \in NodesDown .. NodesUp /\ Size(l) + Size(r) - cut \in NodesDown .. NodesUp
      /\ Size(l) >= 1 /\ Size(r) >= 1
  BY <1>1, LeftShareIs
<1>4. Inorder(p, s) = <<l, r>> /\ SiblingIsRight(p, s) = right
  BY <1>1, <1>3, InorderIs
<1>5. /\ cut \in 1 .. N - 2 /\ cut \in 0 .. N - 1 /\ cut + 1 \in 1 .. N
      /\ Size(l) \in 1 .. N - 2 /\ Size(l) \in 0 .. N - 1 /\ sep2 \in Keys
  <2>1. /\ cut \in 1 .. N - 2 /\ cut \in 0 .. N - 1 /\ cut + 1 \in 1 .. N
        /\ Size(l) \in 1 .. N - 2 /\ Size(l) \in 0 .. N - 1
    <3> DEFINE a == Size(l)
               b == Size(r)
    <3>1. N = a + 1 + b /\ a \in Nat /\ b \in Nat
      BY <1>2
    <3>2. cut \in NodesDown .. NodesUp /\ a + b - cut \in NodesDown .. NodesUp /\ a >= 1 /\ b >= 1
      BY <1>3
    <3>3. NodesDown \in Nat /\ NodesUp \in Nat /\ NodesDown >= 2
      BY NodesDownIs
    <3> HIDE DEF N, cut, a, b
    <3>4. /\ cut \in 1 .. N - 2 /\ cut \in 0 .. N - 1 /\ cut + 1 \in 1 .. N
          /\ a \in 1 .. N - 2 /\ a \in 0 .. N - 1
      BY <3>1, <3>2, <3>3
    <3> QED
      BY <3>4 DEF a
  <2> QED
    BY <1>1, <2>1, NodeFields
<1>6. /\ q[1] = LeftNode(all, cut) /\ q[2] = RightNode(all, r, cut)
      /\ q[3] = NewSeparator(up, l.number, r.number, sep2)
  <2>1. Inorder(p, s)[1] = l /\ Inorder(p, s)[2] = r
    BY <1>4
  <2>2. all = MergeNodes(l, KeyBehind(up, l.number), r)
    BY KeyOfParent
  <2>3. q = <<NodePart(all, 1, cut),
              [NodePart(all, cut + 2, N) EXCEPT !.number = r.number, !.parent = r.parent],
              NewSeparator(up, l.number, r.number, sep2)>>
    BY <2>1, <2>2 DEF RedistributeKeysIntermediate
  <2> QED
    BY <2>3 DEF LeftNode, RightNode, Renamed
<1>7. /\ InnerPage(l) /\ InnerPage(r) /\ InnerPage(p) /\ InnerPage(s)
      /\ Size(p) >= 1 /\ Size(s) >= 1
  BY <1>1, <1>2, <1>3, IsInnerPage DEF Siblings
<1>8. L!SiblingIsRight(PageOf(p), PageOf(s)) = right
  <2>1. L!SiblingIsRight(PageOf(p), PageOf(s)) <=> SiblingIsRight(p, s)
    BY <1>7, SiblingReads DEF InnerPage
  <2> QED
    BY <1>4, <2>1, SiblingIsTest
<1>9. L!Turns(PageOf(p), PageOf(s)) = t
  BY <1>7, InnerReads DEF L!Turns, Middle
<1>10. /\ Size(p) \in Nat /\ Size(s) \in Nat /\ Size(p) <= Size(s)
  BY <1>1, NodesDownIs, NodeFields
<1> HIDE DEF t, cut, sep2
<1>11. t \in Nat /\ cut = IF right THEN Size(l) + t ELSE Size(l) - t
  <2> DEFINE d == right
  <2>1. d \in BOOLEAN /\ d = (p = l /\ s = r) /\ d = SiblingIsRight(p, s)
    BY <1>4
  <2> HIDE DEF d
  <2>2. t \in Nat /\ LeftShare(p, s) = IF d THEN Size(l) + t ELSE Size(l) - t
    <3>1. t = Middle(Size(s), Size(p)) - Size(p)
      BY DEF t
    <3>2. d \in BOOLEAN /\ (d <=> p = l /\ s = r) /\ (d <=> SiblingIsRight(p, s))
      BY <2>1
    <3>3. Siblings(p, s, l, r)
      OBVIOUS
    <3> QED
      BY <1>10, <3>1, <3>2, <3>3, TurnsReach
  <2> QED
    BY <2>2 DEF d, cut
<1>12. \A c \in 1 .. N - 2 : Between(c, Size(l), cut) => NodesHold(all, r, c)
  <2>1. \A c \in 1 .. N - 2 : c \in 0 .. N - 1
    BY <1>2
  <2>2. \A c \in 0 .. N - 1 : Between(c, Size(l), cut) => NodesHold(all, r, c)
    BY <1>1, <1>2, <1>5, <1>6, NodeCutsHold
  <2> QED
    BY <2>1, <2>2
<1>13. L!Separate(PageOf(up), l.number, r.number, Bytes[sep2]) = PageOf(q[3])
  <2>1. /\ InnerPage(up) /\ u \in 1 .. Size(up)
        /\ \A i \in 1 .. Size(up) + 1 : up.links[i] = up.links[u] => i = u
        /\ up.links[u] = l.number /\ r.number \in Numbers
    BY DEF ParentOf
  <2>2. q[3] = NewSeparator(up, up.links[u], r.number, sep2)
    BY <1>6, <2>1
  <2>3. L!Separate(PageOf(up), up.links[u], r.number, Bytes[sep2]) = PageOf(q[3])
    BY <1>5, <2>1, <2>2, SeparateWrites
  <2> QED
    BY <2>1, <2>3
<1>14. PageOf(l).number = l.number /\ PageOf(r).number = r.number
  BY <1>7 DEF InnerPage, PageOf
<1>15. L!KeyAt(PageOf(up), L!LinkIndex(PageOf(up), l.number)).bytes = Bytes[sep]
  BY KeyOfParent
<1> HIDE DEF N
<1> DEFINE d == right
<1>16. d \in BOOLEAN /\ (d <=> p = l /\ s = r) /\ (~d => p = r /\ s = l)
  BY DEF Siblings
<1> HIDE DEF d
<1>17. NodeTurns(NodeTriple(all, r, Size(l), d), t, d) = NodeTriple(all, r, cut, d)
  <2>1. cut = IF d THEN Size(l) + t ELSE Size(l) - t
    BY <1>11 DEF d
  <2>2. /\ Size(l) \in 1 .. Size(all) - 2 /\ cut \in 1 .. Size(all) - 2 /\ t \in Nat /\ d \in BOOLEAN
        /\ WholeInner(all) /\ r \in Node /\ r.kind = all.kind /\ r.parent = all.parent
    BY <1>1, <1>2, <1>5, <1>11, <1>16 DEF N
  <2>3. \A c \in 1 .. Size(all) - 2 : Between(c, Size(l), cut) => NodesHold(all, r, c)
    BY <1>12 DEF N
  <2> QED
    BY <2>1, <2>2, <2>3, NodeTurnsAre
<1>18. NodeTriple(all, r, Size(l), d) = <<PageOf(p), PageOf(s), Bytes[sep]>>
  BY <1>2, <1>16 DEF NodeTriple
<1> DEFINE x1 == NodeTriple(all, r, cut, d)[1]
           x2 == NodeTriple(all, r, cut, d)[2]
<1>19. /\ NodeTriple(all, r, cut, d) = <<x1, x2, Bytes[sep2]>>
       /\ d => x1 = PageOf(q[1]) /\ x2 = PageOf(q[2])
       /\ ~d => x1 = PageOf(q[2]) /\ x2 = PageOf(q[1])
  BY <1>6, <1>16 DEF NodeTriple, sep2
<1> HIDE DEF x1, x2
<1>20. d = L!SiblingIsRight(PageOf(p), PageOf(s))
  BY <1>8 DEF d
<1>21. NodeTurns(<<PageOf(p), PageOf(s), Bytes[sep]>>, L!Turns(PageOf(p), PageOf(s)), d)
         = <<x1, x2, Bytes[sep2]>>
  BY <1>9, <1>17, <1>18, <1>19
<1>22. /\ l.number = (IF d THEN PageOf(p).number ELSE PageOf(s).number)
       /\ r.number = (IF d THEN PageOf(s).number ELSE PageOf(p).number)
  BY <1>14, <1>16
<1>23. L!RedistributeKeysIntermediate(PageOf(p), PageOf(s), PageOf(up)) =
        <<x1, x2, L!Separate(PageOf(up), l.number, r.number, Bytes[sep2])>>
  BY <1>15, <1>20, <1>21, <1>22, RedistributeNodesUnfolds
<1>24. CASE d
  BY <1>13, <1>16, <1>19, <1>23, <1>24
<1>25. CASE ~d
  BY <1>13, <1>16, <1>19, <1>23, <1>25
<1> QED
  BY <1>24, <1>25

(* merge_intermediate on the bytes.                                            *)
LEMMA MergeNodesWrites ==
  ASSUME NEW l, NEW r, NEW all, NEW lo, NEW sep, NEW h, NodesMeet(l, r, all, lo, sep, h),
         Fits(l), Fits(r), Fits(all), Size(l) >= 1, Size(r) >= 1,
         NEW up, NEW u, ParentOf(up, u, l, r), up.keys[u] = sep
  PROVE  L!MergeIntermediate(PageOf(l), PageOf(r), PageOf(up)) = PageOf(all)
<1> DEFINE N == Size(all)
           a == Size(l)
           t == Size(r)
           p == PageOf(r)
           start == PageOf(LeftNode(all, a + 1))
           Turn(x, i) == L!InsertAtPos(x, L!VertNum(x), L!KeyAt(p, i).bytes, L!LinkAfter(p, i))
           T == [i \in 0 .. t |-> PageOf(LeftNode(all, a + 1 + i))]
           f == CHOOSE f : f = [i \in 0 .. t |-> IF i = 0 THEN start ELSE Turn(f[i - 1], i - 1)]
<1>1. /\ l \in Node /\ r \in Node /\ ~IsLeaf(l) /\ ~IsLeaf(r) /\ WholeInner(all) /\ all \in Node
      /\ N = a + 1 + t /\ a \in Nat /\ t \in Nat /\ N \in Nat /\ sep \in Keys
      /\ Len(l.links) = a + 1 /\ Len(r.links) = t + 1
      /\ all.keys[a + 1] = sep /\ SameHead(l, all)
      /\ \A i \in 1 .. t : r.keys[i] = all.keys[a + 1 + i]
      /\ \A i \in 1 .. t + 1 : r.links[i] = all.links[a + 1 + i]
  <2>1. WholeInner(all) /\ all \in Node /\ Size(all) \in Nat
    <3>1. WholeInner(all)
      BY MeetingNodes
    <3> QED
      BY <3>1, NodeFields DEF WholeInner
  <2>2. /\ l \in Node /\ r \in Node /\ ~IsLeaf(l) /\ ~IsLeaf(r)
        /\ N = a + 1 + t /\ a \in Nat /\ t \in Nat /\ sep \in Keys
        /\ Len(l.links) = a + 1 /\ Len(r.links) = t + 1
        /\ all.keys[a + 1] = sep /\ SameHead(l, all)
    BY MeetingNodes
  <2>3. /\ \A i \in 1 .. t : r.keys[i] = all.keys[a + 1 + i]
        /\ \A i \in 1 .. t + 1 : r.links[i] = all.links[a + 1 + i]
    BY MeetingNodes
  <2> QED
    BY <2>1, <2>2, <2>3
<1>2. LeftNode(all, a) = l /\ LeftNode(all, N) = all
  BY MergedInner
<1>3. InnerPage(l) /\ InnerPage(r)
  BY <1>1, IsInnerPage
<1>4. ASSUME NEW c \in a .. N
      PROVE  HoldsInner(LeftNode(all, c), all, 0, c) /\ SameHead(all, LeftNode(all, c))
  <2>1. c \in 0 .. N /\ N \in 0 .. N /\ 0 <= 0 /\ 0 + c <= 0 + N
    BY <1>1
  <2>2. /\ HasInner(LeftNode(all, c), all, 0, c) /\ SameHead(all, LeftNode(all, c))
        /\ HasInner(LeftNode(all, N), all, 0, N)
    BY <1>1, <2>1, CutLeft
  <2>3. Fits(LeftNode(all, N))
    BY <1>2
  <2>4. Fits(LeftNode(all, c))
    BY <2>1, <2>2, <2>3, HasInnerFits
  <2> QED
    BY <2>2, <2>4, HasIsHoldsInner
<1>5. ASSUME NEW c \in a .. N - 1
      PROVE  /\ L!VertNum(PageOf(LeftNode(all, c))) = c
             /\ L!InsertAtPos(PageOf(LeftNode(all, c)), c, Bytes[all.keys[c + 1]], all.links[c + 2])
                  = PageOf(LeftNode(all, c + 1))
  <2>1. /\ c \in a .. N /\ c + 1 \in a .. N /\ c \in Nat /\ c >= 1 /\ c + 1 \in 1 .. N
        /\ 0 + (c + 1) = c + 1 /\ 0 + (c + 2) = c + 2
    BY <1>1
  <2>2. /\ HoldsInner(LeftNode(all, c), all, 0, c) /\ HoldsInner(LeftNode(all, c + 1), all, 0, c + 1)
        /\ SameHead(LeftNode(all, c), LeftNode(all, c + 1))
        /\ SameHead(LeftNode(all, c + 1), LeftNode(all, c))
    BY <1>4, <2>1 DEF SameHead
  <2>3. all.keys[0 + (c + 1)] \in Keys
    BY <1>1, <2>1, NodeFields
  <2>4. L!InsertAtPos(PageOf(LeftNode(all, c)), c, Bytes[all.keys[0 + (c + 1)]], all.links[0 + (c + 2)])
          = PageOf(LeftNode(all, c + 1))
    BY <2>1, <2>2, <2>3, LastPairMoves
  <2>5. L!VertNum(PageOf(LeftNode(all, c))) = c
    BY <2>2, HoldsInnerReads
  <2> QED
    BY <2>1, <2>4, <2>5
<1>6. /\ L!VertNum(p) = t
      /\ \A i \in 1 .. t : /\ L!KeyAt(p, i - 1).bytes = Bytes[r.keys[i]]
                           /\ L!LinkBefore(p, i - 1) = r.links[i]
                           /\ L!LinkAfter(p, i - 1) = r.links[i + 1]
  BY <1>3, InnerReads
<1>7. L!InsertAtPos(PageOf(l), L!VertNum(PageOf(l)), Bytes[sep], L!LinkBefore(p, 0)) = start
  <2>1. a \in a .. N - 1
    BY <1>1
  <2>2. /\ L!VertNum(PageOf(l)) = a
        /\ L!InsertAtPos(PageOf(l), a, Bytes[all.keys[a + 1]], all.links[a + 2]) = start
    BY <1>2, <1>5, <2>1
  <2>3. L!LinkBefore(p, 0) = all.links[a + 2]
    <3>1. 1 \in 1 .. t /\ 1 \in 1 .. t + 1 /\ a + 1 + 1 = a + 2 /\ 1 - 1 = 0
      BY <1>1
    <3>2. L!LinkBefore(p, 1 - 1) = r.links[1] /\ r.links[1] = all.links[a + 1 + 1]
      BY <1>1, <1>6, <3>1
    <3> QED
      BY <3>1, <3>2
  <2> QED
    BY <1>1, <2>2, <2>3
<1>8. ASSUME NEW i \in 1 .. t PROVE T[i] = Turn(T[i - 1], i - 1)
  <2> DEFINE c == a + 1 + (i - 1)
  <2>1. /\ c \in a .. N - 1 /\ c + 1 = a + 1 + i /\ c + 2 = a + 1 + (i + 1)
        /\ i - 1 \in 0 .. t /\ i \in 0 .. t /\ i + 1 \in 1 .. t + 1
    <3>1. N = a + 1 + t /\ a \in Nat /\ t \in Nat /\ N \in Nat /\ i \in 1 .. t
      BY <1>1
    <3> HIDE DEF N, a, t
    <3> QED
      BY <3>1
  <2>2. T[i] = PageOf(LeftNode(all, c + 1)) /\ T[i - 1] = PageOf(LeftNode(all, c))
    BY <2>1
  <2> HIDE DEF c, T
  <2>3. /\ L!VertNum(PageOf(LeftNode(all, c))) = c
        /\ L!InsertAtPos(PageOf(LeftNode(all, c)), c, Bytes[all.keys[c + 1]], all.links[c + 2])
             = PageOf(LeftNode(all, c + 1))
    BY <1>5, <2>1
  <2>4. /\ L!KeyAt(p, i - 1).bytes = Bytes[all.keys[c + 1]]
        /\ L!LinkAfter(p, i - 1) = all.links[c + 2]
    <3>1. r.keys[i] = all.keys[a + 1 + i] /\ r.links[i + 1] = all.links[a + 1 + (i + 1)]
      BY <1>1, <2>1
    <3>2. L!KeyAt(p, i - 1).bytes = Bytes[r.keys[i]] /\ L!LinkAfter(p, i - 1) = r.links[i + 1]
      BY <1>6
    <3> QED
      BY <2>1, <3>1, <3>2
  <2> QED
    BY <2>2, <2>3, <2>4
<1>9. T[0] = start /\ T[t] = PageOf(all)
  <2>1. 0 \in 0 .. t /\ a + 1 + 0 = a + 1 /\ t \in 0 .. t /\ a + 1 + t = N
    BY <1>1
  <2>2. T[0] = PageOf(LeftNode(all, a + 1 + 0)) /\ T[t] = PageOf(LeftNode(all, a + 1 + t))
    BY <2>1
  <2> QED
    BY <1>2, <2>1, <2>2
<1>10. T = [i \in 0 .. t |-> IF i = 0 THEN start ELSE Turn(T[i - 1], i - 1)]
  <2>1. \A i \in 0 .. t : i # 0 => i \in 1 .. t
    BY <1>1
  <2> HIDE DEF start, Turn
  <2> QED
    BY <1>8, <1>9, <2>1
<1> HIDE DEF start, T, t, Turn
<1>11. f = [i \in 0 .. t |-> IF i = 0 THEN start ELSE Turn(f[i - 1], i - 1)]
  BY <1>10
<1> HIDE DEF f
<1>12. f[t] = T[t]
  <2>1. f[0] = T[0]
    BY <1>1, <1>10, <1>11
  <2>2. ASSUME NEW i \in 0 + 1 .. t, f[i - 1] = T[i - 1] PROVE f[i] = T[i]
    BY <1>1, <1>10, <1>11, <2>2
  <2> QED
    BY <1>1, <2>1, <2>2, ForIs
<1>13. L!MergeIntermediate(PageOf(l), p, PageOf(up)) = f[t]
  <2>1. PageOf(l).number = l.number
    BY <1>3 DEF InnerPage, PageOf
  <2>2. L!KeyAt(PageOf(up), L!LinkIndex(PageOf(up), PageOf(l).number)).bytes = Bytes[sep]
    BY <2>1, KeyOfParent
  <2>3. L!VertNum(p) = t
    BY <1>6
  <2> HIDE DEF p
  <2> QED
    BY <1>7, <2>2, <2>3 DEF L!MergeIntermediate, L!For, f, Turn
<1> QED
  BY <1>9, <1>12, <1>13

-------------------------------------------------------------------------------
(* Every step writes pages that are laid out like their nodes *)

(* Before a step.                                                              *)
LEMMA LaidOut ==
  ASSUME TypeOK, Canonical, \A x \in DOMAIN nodes : Readable(nodes[x])
  PROVE  \A x \in {"p", "s", "up"} :
           /\ pages[x] = PageOf(nodes[x]) /\ Fits(nodes[x])
           /\ nodes[x] \in Node /\ Shaped(nodes[x])
<1>1. DOMAIN nodes = {"p", "s", "up"} /\ \A x \in {"p", "s", "up"} : nodes[x] \in Node
  BY TypesOfPages
<1>2. \A x \in DOMAIN nodes : Fits(nodes[x])
  BY DEF Readable
<1>3. \A x \in DOMAIN nodes : pages[x] = PageOf(nodes[x])
  BY <1>2 DEF Canonical, AllFit
<1>4. \A x \in DOMAIN nodes : Shaped(nodes[x])
  BY TypeShapes
<1> QED
  BY <1>1, <1>2, <1>3, <1>4

(* After a step that writes three pages, or one of the two.                    *)
LEMMA ThreeWritten ==
  ASSUME NEW p, NEW s, NEW up, NEW P, NEW S, NEW U,
         nodes' = Pair(p, s, up), pages' = Pair(P, S, U),
         Fits(p) /\ Fits(s) /\ Fits(up) => P = PageOf(p) /\ S = PageOf(s) /\ U = PageOf(up)
  PROVE  Canonical'
<1>1. /\ DOMAIN nodes' = {"p", "s", "up"}
      /\ nodes'.p = p /\ nodes'.s = s /\ nodes'.up = up
      /\ pages'.p = P /\ pages'.s = S /\ pages'.up = U
  BY DEF Pair
<1>2. SUFFICES ASSUME \A x \in DOMAIN nodes' : Fits(nodes'[x])
               PROVE  \A x \in DOMAIN nodes' : pages'[x] = PageOf(nodes'[x])
  BY DEF Canonical, AllFit
<1>3. Fits(p) /\ Fits(s) /\ Fits(up)
  BY <1>1, <1>2
<1>4. P = PageOf(p) /\ S = PageOf(s) /\ U = PageOf(up)
  BY <1>3
<1> QED
  BY <1>1, <1>4

LEMMA OneWritten ==
  ASSUME TypeOK, Canonical, \A x \in DOMAIN nodes : Readable(nodes[x]),
         NEW w \in Places, NEW m, NEW M,
         nodes' = [nodes EXCEPT ![w] = m], pages' = [pages EXCEPT ![w] = M],
         Fits(m) => M = PageOf(m)
  PROVE  Canonical'
<1>1. /\ DOMAIN nodes = {"p", "s", "up"} /\ DOMAIN pages = {"p", "s", "up"}
      /\ \A x \in {"p", "s", "up"} : pages[x] = PageOf(nodes[x])
  BY TypesOfPages, LaidOut
<1>2. /\ DOMAIN nodes' = {"p", "s", "up"}
      /\ \A x \in {"p", "s", "up"} : /\ nodes'[x] = IF x = w THEN m ELSE nodes[x]
                                     /\ pages'[x] = IF x = w THEN M ELSE pages[x]
  BY <1>1
<1>3. w \in {"p", "s", "up"}
  BY DEF Places
<1>4. SUFFICES ASSUME \A x \in DOMAIN nodes' : Fits(nodes'[x])
               PROVE  \A x \in DOMAIN nodes' : pages'[x] = PageOf(nodes'[x])
  BY DEF Canonical, AllFit
<1>5. Fits(m)
  BY <1>2, <1>3, <1>4
<1>6. M = PageOf(m)
  BY <1>5
<1> QED
  BY <1>1, <1>2, <1>6

(* An inner page has a key, and so has the parent.                             *)
LEMMA InnerHasKey ==
  ASSUME TypeOK, InOrder
  PROVE  /\ nodes.up # Blank => Size(nodes.up) >= 1 /\ nodes.up.kind = "Root"
         /\ \A w \in Places : nodes[w] # Blank /\ ~IsLeaf(nodes[w]) => Size(nodes[w]) >= 1
<1>1. nodes.up # Blank => Size(nodes.up) >= 1 /\ nodes.up.kind = "Root"
  BY DEF InOrder, NeighboursInOrder
<1>2. ASSUME NEW w \in Places, nodes[w] # Blank, ~IsLeaf(nodes[w])
      PROVE  Size(nodes[w]) >= 1
  <2>1. w \in {"p", "s"} /\ Size(nodes[w]) \in Nat
    BY TypesOfPages, NodeFields DEF Places
  <2>2. CASE nodes.up = Blank
    <3>1. /\ nodes.s = Blank /\ nodes.p.kind \in {"RootLeaf", "Root"}
          /\ nodes.p.kind = "Root" => Size(nodes.p) >= 1
      BY <2>2 DEF InOrder, NeighboursInOrder
    <3> QED
      BY <1>2, <2>1, <3>1, Kinds DEF IsLeaf
  <2>3. CASE nodes.up # Blank
    <3>1. \E u : BelowInOrder(nodes.p, nodes.up, u)
                 /\ (nodes.s # Blank => BelowInOrder(nodes.s, nodes.up, u + 1))
      BY <2>3 DEF InOrder, NeighboursInOrder
    <3>2. Size(nodes[w]) >= NodesDown - 1
      BY <1>2, <2>1, <3>1 DEF BelowInOrder
    <3> QED
      BY <2>1, <3>2, NodesDownIs
  <2> QED
    BY <2>2, <2>3
<1> QED
  BY <1>1, <1>2

(* From here on a lemma for each step: what it writes is laid out.             *)
LEMMA InsertNewWrites ==
  ASSUME TypeOK, InOrder, Canonical, NEW w \in Places, NEW k \in Keys, NEW v \in Values,
         InsertNew(w, k, v)
  PROVE  Canonical'
<1> DEFINE n == nodes[w]
           m == InsertIntoLeaf(n, k, v)
           M == L!InsertIntoLeaf(pages[w], Bytes[k], v)
<1>1. /\ IsLeaf(n) /\ \A x \in DOMAIN nodes : Readable(nodes[x])
      /\ nodes' = [nodes EXCEPT ![w] = m] /\ pages' = [pages EXCEPT ![w] = M]
      /\ w \in {"p", "s", "up"}
  BY DEF InsertNew, Edit, Places
<1>2. pages[w] = PageOf(n) /\ Fits(n) /\ n \in Node /\ Shaped(n)
  BY <1>1, LaidOut
<1> HIDE DEF n
<1>3. /\ SameHead(n, m) /\ Entries(m, n, 0, Size(n) + 1, FindPos(n, k), k, v)
      /\ m \in Node /\ Len(m.vals) = Size(m)
  BY <1>1, <1>2, InsertIntoLeafHas DEF Shaped
<1> HIDE DEF m
<1>4. Shaped(m)
  BY <1>1, <1>3 DEF Shaped, SameHead, IsLeaf
<1>5. Fits(m) => M = PageOf(m)
  BY <1>1, <1>2, <1>3, <1>4, InsertIntoLeafWrites
<1> HIDE DEF M
<1> QED
  BY <1>1, <1>5, OneWritten

LEMMA InsertExistingWrites ==
  ASSUME TypeOK, InOrder, Canonical, NEW w \in Places, NEW k \in Keys, NEW v \in Values,
         InsertExisting(w, k, v)
  PROVE  Canonical'
<1> DEFINE n == nodes[w]
           m == InsertSame(n, k, v)
           M == L!InsertSame(pages[w], Bytes[k], v)
<1>1. /\ IsLeaf(n) /\ k \in ToSet(n.keys) /\ \A x \in DOMAIN nodes : Readable(nodes[x])
      /\ nodes' = [nodes EXCEPT ![w] = m] /\ pages' = [pages EXCEPT ![w] = M]
      /\ w \in {"p", "s", "up"}
  BY DEF InsertExisting, Edit, Places
<1>2. pages[w] = PageOf(n) /\ Fits(n) /\ n \in Node /\ Shaped(n) /\ Len(n.vals) = Size(n)
  BY <1>1, LaidOut DEF Shaped
<1>3. PICK l \in Nat, h \in Nat : PageInOrder(n, l, h)
  <2>1. n # Blank
    BY <1>1, LeavesAreThere
  <2> QED
    BY <2>1, HasBounds
<1> HIDE DEF n
<1>4. PICK i \in 1 .. Size(n) : n.keys[i] = k
  <2>1. DOMAIN n.keys = 1 .. Size(n)
    BY <1>2, NodeFields, LenProperties DEF Size
  <2> QED
    BY <1>1, <2>1 DEF ToSet
<1>5. m \in Node /\ Shape(m) /\ m.kind = n.kind
  <2>1. Updated(n, m, k, v, 0, l, h)
    BY <1>1, <1>2, <1>3, <1>4, InsertSameUpdates DEF IsLeaf, PageInOrder
  <2> QED
    BY <2>1 DEF Updated
<1>6. /\ SameHead(n, m) /\ Size(m) = Size(n)
      /\ \A j \in 1 .. Size(n) :
           m.keys[j] = n.keys[j] /\ m.vals[j] = IF n.keys[j] = k THEN v ELSE n.vals[j]
  BY <1>2, InsertSameHas
<1> HIDE DEF m
<1>7. Shaped(m)
  BY <1>1, <1>5 DEF Shaped, Shape, IsLeaf
<1>8. Fits(m) => M = PageOf(m)
  BY <1>1, <1>2, <1>6, <1>7, InsertSameWrites
<1> HIDE DEF M
<1> QED
  BY <1>1, <1>8, OneWritten

LEMMA InsertLinkWrites ==
  ASSUME TypeOK, InOrder, Canonical, NEW w \in Places, NEW k \in Keys, InsertLink(w, k)
  PROVE  Canonical'
<1> DEFINE n == nodes[w]
           m == InsertIntoIntermediate(n, k, Child(k))
           M == L!InsertIntoIntermediate(pages[w], Bytes[k], Child(k))
<1>1. /\ ~IsLeaf(n) /\ n # Blank /\ \A x \in DOMAIN nodes : Readable(nodes[x])
      /\ nodes' = [nodes EXCEPT ![w] = m] /\ pages' = [pages EXCEPT ![w] = M]
      /\ w \in {"p", "s", "up"}
  BY DEF InsertLink, NewKey, Reaches, Edit, Places
<1>2. pages[w] = PageOf(n) /\ Fits(n) /\ n \in Node /\ Shaped(n)
  BY <1>1, LaidOut
<1>3. Len(n.links) = Size(n) + 1 /\ Size(n) >= 1
  <2>1. w \in DOMAIN nodes
    BY <1>1, TypesOfPages
  <2> QED
    BY <1>1, <2>1, TypeShapes, InnerHasKey
<1>4. Child(k) \in Numbers
  BY EditKeys
<1> HIDE DEF n
<1>5. InnerPage(n)
  BY <1>1, <1>2, <1>3, IsInnerPage
<1>6. /\ SameHead(n, m) /\ InnerEntries(m, n, 0, Size(n) + 1, FindPos(n, k), k, Child(k))
      /\ m \in Node /\ Len(m.links) = Size(m) + 1
  BY <1>2, <1>3, <1>4, InsertIntoIntermediateHas
<1> HIDE DEF m
<1>7. ~IsLeaf(m)
  BY <1>1, <1>6 DEF SameHead, IsLeaf
<1>8. Fits(m) => M = PageOf(m)
  BY <1>2, <1>3, <1>5, <1>6, <1>7, IsInnerPage, InsertIntoIntermediateWrites
<1> HIDE DEF M
<1> QED
  BY <1>1, <1>8, OneWritten

LEMMA DeleteOneWrites ==
  ASSUME TypeOK, InOrder, Canonical, NEW w \in Places, NEW i \in 1 .. NodesUp, DeleteOne(w, i)
  PROVE  Canonical'
<1> DEFINE n == nodes[w]
           k == n.keys[i]
           link == n.links[i]
           m == IF IsLeaf(n) THEN DeleteKeyLeaf(n, k) ELSE DeleteKeyIntermediate(n, link)
           M == IF IsLeaf(n) THEN L!DeleteKeyLeaf(pages[w], Bytes[k])
                ELSE L!DeleteKeyIntermediate(pages[w], link)
<1>1. /\ i \in DOMAIN n.keys /\ \A x \in DOMAIN nodes : Readable(nodes[x])
      /\ nodes' = [nodes EXCEPT ![w] = m] /\ pages' = [pages EXCEPT ![w] = M]
      /\ w \in {"p", "s", "up"}
  BY DEF DeleteOne, Edit, Places
<1>2. pages[w] = PageOf(n) /\ Fits(n) /\ n \in Node /\ Shaped(n)
  BY <1>1, LaidOut
<1>3. n # Blank
  BY <1>1 DEF Blank
<1>4. PICK l \in Nat, h \in Nat : PageInOrder(n, l, h)
  BY <1>3, HasBounds
<1>5. i \in 1 .. Size(n) /\ Size(n) \in Nat /\ k \in Keys
  BY <1>1, <1>2, NodeFields, LenProperties DEF Size
<1>6. Fits(m) => M = PageOf(m)
  <2>1. CASE IsLeaf(n)
    <3> DEFINE d == DeleteKeyLeaf(n, k)
    <3>1. m = d /\ M = L!DeleteKeyLeaf(pages[w], Bytes[n.keys[i]])
      BY <2>1
    <3>2. Updated(n, d, k, Absent, -1, l, h)
      BY <1>2, <1>4, <1>5, <2>1, DeleteKeyLeafUpdates DEF IsLeaf, PageInOrder
    <3> HIDE DEF m, M, n
    <3>3. \A j \in 1 .. Size(n) : n.keys[j] = n.keys[i] => j = i
      <4>1. \A a, b \in 1 .. Size(n) : a < b => n.keys[a] < n.keys[b]
        BY <1>4 DEF PageInOrder, Ordered
      <4>2. \A a \in 1 .. Size(n) : n.keys[a] \in Nat
        BY <1>2, NodeFields
      <4> QED
        BY <1>5, <4>1, <4>2
    <3>4. SameHead(n, d) /\ Lacks(d, n, i)
      <4>1. Len(n.vals) = Size(n) /\ d = DeleteKeyLeaf(n, n.keys[i])
        BY <1>2, <2>1 DEF Shaped
      <4> HIDE DEF d
      <4> QED
        BY <1>2, <1>5, <3>3, <4>1, DeleteKeyLeafHas
    <3> HIDE DEF d
    <3>5. Shaped(d)
      BY <2>1, <3>2 DEF Updated, Shaped, Shape, IsLeaf
    <3> QED
      BY <1>2, <1>5, <2>1, <3>1, <3>3, <3>4, <3>5, DeleteKeyLeafWrites
  <2>2. CASE ~IsLeaf(n)
    <3> DEFINE d == DeleteKeyIntermediate(n, link)
    <3>1. m = d /\ M = L!DeleteKeyIntermediate(pages[w], n.links[i])
      BY <2>2
    <3>2. n.kind \in Interiors /\ Len(n.links) = Size(n) + 1
      BY <1>4, <2>2 DEF IsLeaf, PageInOrder, Shape
    <3> HIDE DEF m, M, n
    <3>3. \A j \in 1 .. Size(n) + 1 : n.links[j] = n.links[i] => j = i
      BY <1>2, <1>4, <1>5, <3>2, ChildrenDiffer
    <3>4. SameHead(n, d) /\ LacksPair(d, n, i) /\ d \in Node /\ Len(d.links) = Size(d) + 1
      <4>1. d = DeleteKeyIntermediate(n, n.links[i])
        OBVIOUS
      <4> HIDE DEF d
      <4> QED
        BY <1>2, <1>5, <3>2, <3>3, <4>1, DeleteKeyIntermediateHas
    <3> HIDE DEF d
    <3>5. ~IsLeaf(d)
      BY <2>2, <3>4 DEF SameHead, IsLeaf
    <3>6. InnerPage(n) /\ (Fits(d) => InnerPage(d))
      BY <1>2, <2>2, <3>2, <3>4, <3>5, IsInnerPage
    <3>7. \A j \in 1 .. Size(n) : n.links[j] = n.links[i] => j = i
      BY <1>5, <3>3
    <3> QED
      BY <1>2, <1>5, <3>1, <3>4, <3>6, <3>7, DeleteKeyIntermediateWrites
  <2> QED
    BY <2>1, <2>2
<1> HIDE DEF m, M
<1> QED
  BY <1>1, <1>6, OneWritten

(* A divided page whose second part is put into the parent ...                 *)
LEMMA UnderParentWrites ==
  ASSUME TypeOK, InOrder, Canonical, NEW pd, NEW nd, NEW key, NEW k \in Keys,
         UnderParent(pd, nd, key, k), nd.s # Blank, nd.s.number \in Numbers,
         Fits(nd.p) /\ Fits(nd.s) =>
           pd.p = PageOf(nd.p) /\ pd.s = PageOf(nd.s) /\ key = Bytes[k]
  PROVE  Canonical'
<1> DEFINE up == nodes.up
           m == nd.s.number
           up2 == InsertIntoIntermediate(up, k, m)
           U == L!InsertIntoIntermediate(pages.up, key, pd.s.number)
<1>1. /\ up # Blank /\ \A x \in DOMAIN nodes : Readable(nodes[x])
      /\ nodes' = Pair(nd.p, nd.s, up2) /\ pages' = Pair(pd.p, pd.s, U)
  BY DEF UnderParent, Edit
<1>2. pages.up = PageOf(up) /\ Fits(up) /\ up \in Node /\ Shape(up) /\ "up" \in DOMAIN nodes
  BY <1>1, LaidOut, TypesOfPages
<1>3. Size(up) >= 1 /\ up.kind = "Root"
  BY <1>1, InnerHasKey
<1> HIDE DEF up
<1>4. ~IsLeaf(up) /\ Len(up.links) = Size(up) + 1
  BY <1>2, <1>3, Kinds DEF Shape, IsLeaf
<1>5. InnerPage(up)
  BY <1>2, <1>4, IsInnerPage
<1>6. /\ SameHead(up, up2) /\ InnerEntries(up2, up, 0, Size(up) + 1, FindPos(up, k), k, m)
      /\ up2 \in Node /\ Len(up2.links) = Size(up2) + 1
  BY <1>2, <1>4, InsertIntoIntermediateHas
<1> HIDE DEF up2
<1>7. ~IsLeaf(up2)
  BY <1>4, <1>6 DEF SameHead, IsLeaf
<1>8. ASSUME Fits(nd.p), Fits(nd.s), Fits(up2)
      PROVE  pd.p = PageOf(nd.p) /\ pd.s = PageOf(nd.s) /\ U = PageOf(up2)
  <2>1. pd.p = PageOf(nd.p) /\ pd.s = PageOf(nd.s) /\ key = Bytes[k]
    BY <1>8
  <2>2. pd.s.number = m
    BY <2>1 DEF PageOf
  <2>3. InnerPage(up2)
    BY <1>6, <1>7, <1>8, IsInnerPage
  <2>4. L!InsertIntoIntermediate(PageOf(up), Bytes[k], m) = PageOf(up2)
    BY <1>3, <1>5, <1>6, <2>3, InsertIntoIntermediateWrites
  <2> QED
    BY <1>2, <2>1, <2>2, <2>4
<1> HIDE DEF U
<1> QED
  BY <1>1, <1>8, ThreeWritten

(* ... or under a new root.                                                    *)
LEMMA UnderNewRootWrites ==
  ASSUME TypeOK, NEW pd, NEW nd, NEW key, NEW k \in Keys,
         UnderNewRoot(pd, nd, key, k), Shaped(nd.p), Shaped(nd.s),
         nd.p.kind \in {"Leaf", "Intermediate"}, nd.s.kind \in {"Leaf", "Intermediate"},
         nd.p.number # nd.s.number,
         Fits(nd.p) /\ Fits(nd.s) =>
           pd.p = PageOf(nd.p) /\ pd.s = PageOf(nd.s) /\ key = Bytes[k]
  PROVE  Canonical'
<1> DEFINE m == FreeNumber(2)
           up2 == CreateRoot(m, k, nd.p.number, nd.s.number)
           U == L!CreateRoot(m, key, pd.p.number, pd.s.number)
           P == L!SetParent(pd.p, m)
           S == L!SetParent(pd.s, m)
           p2 == [nd.p EXCEPT !.parent = m]
           s2 == [nd.s EXCEPT !.parent = m]
<1>1. nodes' = Pair(p2, s2, up2) /\ pages' = Pair(P, S, U)
  BY DEF UnderNewRoot, Edit
<1>2. m \in Numbers
  BY FreeNumbers
<1> HIDE DEF m
<1>3. nd.p \in Node /\ nd.s \in Node /\ nd.p.number \in Numbers /\ nd.s.number \in Numbers
  BY NodeFields DEF Shaped
<1>4. ASSUME NEW n, Shaped(n), n.kind \in {"Leaf", "Intermediate"},
             NEW n2, n2 = [n EXCEPT !.parent = m], Fits(n2)
      PROVE  Fits(n) /\ L!SetParent(PageOf(n), m) = PageOf(n2)
  <2>1. n \in Node /\ Size(n) \in Nat /\ n # Blank
    BY <1>4, NodeFields DEF Shaped, Blank
  <2>2. /\ n2 \in Node /\ n2.kind = n.kind /\ n2.keys = n.keys /\ n2.vals = n.vals
        /\ n2.links = n.links /\ n2 # Blank
    BY <1>2, <1>4, <2>1 DEF Node, Blank
  <2>3. Size(n2) = Size(n) /\ (IsLeaf(n2) <=> IsLeaf(n))
    BY <2>2 DEF Size, IsLeaf
  <2>4. Shaped(n2)
    BY <1>4, <2>2, <2>3 DEF Shaped
  <2>5. Fits(n)
    <3>1. 0 \in Nat /\ 0 + Size(n) <= Size(n2)
      BY <2>1, <2>3
    <3>2. \A i \in 1 .. Size(n) : n.keys[i] = n2.keys[0 + i] /\ n.vals[i] = n2.vals[0 + i]
      BY <2>2
    <3> QED
      BY <1>4, <2>3, <2>4, <3>1, <3>2, SliceFits
  <2> QED
    BY <1>2, <1>4, <2>1, <2>2, <2>5, SetParentWrites
<1>5. /\ up2 \in Node /\ Shape(up2) /\ up2.kind = "Root" /\ Size(up2) = 1
      /\ up2.links[1] = nd.p.number /\ up2.links[2] = nd.s.number
  BY <1>2, <1>3, CreateRootInOrder
<1>6. up2.number = m /\ up2.parent = 0 /\ up2.keys[1] = k
  BY DEF CreateRoot, Blank
<1> HIDE DEF up2
<1>7. ASSUME Fits(p2), Fits(s2), Fits(up2)
      PROVE  P = PageOf(p2) /\ S = PageOf(s2) /\ U = PageOf(up2)
  <2>1. Fits(nd.p) /\ L!SetParent(PageOf(nd.p), m) = PageOf(p2)
    BY <1>4, <1>7
  <2>2. Fits(nd.s) /\ L!SetParent(PageOf(nd.s), m) = PageOf(s2)
    BY <1>4, <1>7
  <2>3. pd.p = PageOf(nd.p) /\ pd.s = PageOf(nd.s) /\ key = Bytes[k]
    BY <2>1, <2>2
  <2>4. nd.p # Blank /\ nd.s # Blank
    BY DEF Blank
  <2>5. pd.p.number = nd.p.number /\ pd.s.number = nd.s.number
    BY <2>3, <2>4 DEF PageOf
  <2>6. ~IsLeaf(up2) /\ Len(up2.links) = Size(up2) + 1
    BY <1>5, Kinds DEF Shape, IsLeaf
  <2>7. InnerPage(up2)
    BY <1>5, <1>7, <2>6, IsInnerPage
  <2>8. L!CreateRoot(m, Bytes[k], nd.p.number, nd.s.number) = PageOf(up2)
    BY <1>5, <1>6, <2>7, CreateRootWrites
  <2> QED
    BY <2>1, <2>2, <2>3, <2>5, <2>8
<1> HIDE DEF P, S, U, p2, s2
<1> QED
  BY <1>1, <1>7, ThreeWritten

LEMMA DivideLeafPageWrites ==
  ASSUME TypeOK, InOrder, Canonical, NEW k \in Keys, NEW v \in Values, DivideLeafPage(k, v)
  PROVE  Canonical'
<1> DEFINE n == nodes.p
           num == FreeNumber(1)
           nd == DivideLeaf(n, k, v, num)
           pd == L!DivideLeaf(pages.p, Bytes[k], v, num)
           key == L!KeyAt(pd.s, 0).bytes
           sep == Head(nd.s.keys)
<1>1. /\ IsLeaf(n) /\ Size(n) = NodesUp
      /\ UnderNewRoot(pd, nd, key, sep) \/ UnderParent(pd, nd, key, sep)
  BY DEF DivideLeafPage
<1>2. \A x \in DOMAIN nodes : Readable(nodes[x])
  BY <1>1 DEF UnderNewRoot, UnderParent, Edit
<1>3. pages.p = PageOf(n) /\ Fits(n) /\ n \in Node /\ Shaped(n)
  BY <1>2, LaidOut
<1>4. Len(n.vals) = Size(n) /\ Size(n) >= 1 /\ NodesDown = (Size(n) + 1) \div 2
  BY <1>1, <1>3, NodesDownIs DEF Shaped
<1>5. num \in Numbers /\ num # n.number
  BY FreeNumbers
<1> HIDE DEF n, num
<1>6. nd = DivideLeaf(n, k, v, num)
  OBVIOUS
<1> HIDE DEF nd
<1>7. /\ nd.p \in Node /\ Len(nd.p.vals) = Size(nd.p) /\ nd.p.kind = "Leaf"
      /\ nd.p.number = n.number
      /\ nd.s \in Node /\ Len(nd.s.vals) = Size(nd.s) /\ nd.s.kind = "Leaf"
      /\ nd.s.number = num
      /\ Entries(nd.s, n, NodesDown, Size(n) + 1, FindPos(n, k), k, v)
  BY <1>3, <1>4, <1>5, <1>6, DivideLeafHas
<1>8. IsLeaf(nd.p) /\ IsLeaf(nd.s)
  BY <1>7 DEF IsLeaf, Leaves
<1>9. Shaped(nd.p) /\ Shaped(nd.s)
  BY <1>7, <1>8 DEF Shaped
<1>10. Size(nd.s) >= 1
  <2>1. Size(nd.s) = (Size(n) + 1) - NodesDown
    BY <1>7, Zenon DEF Entries
  <2> QED
    BY <1>1, <2>1, NodesDownIs
<1>11. sep = nd.s.keys[1] /\ sep \in Keys
  <2>1. sep = nd.s.keys[1]
    BY DEF Head
  <2> QED
    BY <1>7, <1>10, <2>1, NodeFields
<1>12. nd.s # Blank
  BY <1>7 DEF Blank
<1>13. ASSUME Fits(nd.p), Fits(nd.s)
       PROVE  pd.p = PageOf(nd.p) /\ pd.s = PageOf(nd.s) /\ key = Bytes[sep]
  <2>1. pd = [p |-> PageOf(nd.p), s |-> PageOf(nd.s)]
    BY <1>1, <1>3, <1>4, <1>5, <1>6, <1>13, DivideLeafWrites
  <2> HIDE DEF pd
  <2>2. pd.p = PageOf(nd.p) /\ pd.s = PageOf(nd.s)
    BY <2>1
  <2>3. L!KeyAt(PageOf(nd.s), 0).bytes = Bytes[nd.s.keys[1]]
    BY <1>9, <1>10, <1>12, <1>13, EndsRead
  <2> QED
    BY <1>11, <2>2, <2>3
<1> HIDE DEF pd, key, sep
<1>14. CASE UnderParent(pd, nd, key, sep)
  BY <1>5, <1>7, <1>11, <1>12, <1>13, <1>14, UnderParentWrites
<1>15. CASE UnderNewRoot(pd, nd, key, sep)
  BY <1>5, <1>7, <1>9, <1>11, <1>13, <1>15, UnderNewRootWrites
<1> QED
  BY <1>1, <1>14, <1>15

LEMMA DivideNodePageWrites ==
  ASSUME TypeOK, InOrder, Canonical, NEW k \in Keys, DivideNodePage(k)
  PROVE  Canonical'
<1> DEFINE n == nodes.p
           num == FreeNumber(1)
           link == Child(k)
           nd == DivideIntermediate(n, k, link, num)
           pd == L!DivideIntermediate(pages.p, Bytes[k], link, num)
<1>1. /\ ~IsLeaf(n) /\ Size(n) = NodesUp /\ n # Blank
      /\ UnderNewRoot(pd, nd, pd.key, nd.key) \/ UnderParent(pd, nd, pd.key, nd.key)
  BY DEF DivideNodePage, NewKey, Reaches
<1>2. \A x \in DOMAIN nodes : Readable(nodes[x])
  BY <1>1 DEF UnderNewRoot, UnderParent, Edit
<1>3. pages.p = PageOf(n) /\ Fits(n) /\ n \in Node /\ Shape(n)
  BY <1>1, <1>2, LaidOut, TypesOfPages
<1>4. Len(n.links) = Size(n) + 1 /\ Size(n) >= 4
  BY <1>1, <1>3, NodesDownIs DEF Shape, IsLeaf
<1>5. num \in Numbers /\ num # n.number /\ link \in Numbers
  BY FreeNumbers, EditKeys
<1> HIDE DEF n, num, link
<1>6. nd = DivideIntermediate(n, k, link, num)
  OBVIOUS
<1> HIDE DEF nd
<1> DEFINE half == Half(Size(n))
           pos == FindPos(n, k)
<1>7. /\ nd.p \in Node /\ Len(nd.p.links) = Size(nd.p) + 1
      /\ nd.p.kind = "Intermediate" /\ nd.p.number = n.number
      /\ nd.s \in Node /\ Len(nd.s.links) = Size(nd.s) + 1
      /\ nd.s.kind = "Intermediate" /\ nd.s.number = num
      /\ pos < half => nd.key = n.keys[half]
      /\ pos = half => nd.key = k
      /\ pos > half => nd.key = n.keys[half + 1]
  BY <1>3, <1>4, <1>5, <1>6, DivideIntermediateHas
<1>8. nd.key \in Keys
  <2>1. half \in 1 .. Size(n) /\ half + 1 \in 1 .. Size(n)
    BY <1>1, NodesDownIs DEF Half
  <2>2. pos < half \/ pos = half \/ pos > half
    <3>1. pos \in 0 .. Size(n)
      BY <1>3, EditKeys, NodeFields, FindPosStops
    <3> HIDE DEF pos, half
    <3> QED
      BY <2>1, <3>1
  <2>3. n.keys[half] \in Keys /\ n.keys[half + 1] \in Keys
    BY <1>3, <2>1, NodeFields
  <2> HIDE DEF pos, half
  <2> QED
    BY <1>7, <2>2, <2>3
<1>9. ~IsLeaf(nd.p) /\ ~IsLeaf(nd.s)
  BY <1>7, Kinds DEF IsLeaf
<1>10. Shaped(nd.p) /\ Shaped(nd.s)
  BY <1>7, <1>9, NodeFields DEF Shaped
<1>11. nd.s # Blank
  BY <1>7 DEF Blank
<1>12. InnerPage(n)
  BY <1>1, <1>3, <1>4, IsInnerPage
<1>13. ASSUME Fits(nd.p), Fits(nd.s)
       PROVE  pd.p = PageOf(nd.p) /\ pd.s = PageOf(nd.s) /\ pd.key = Bytes[nd.key]
  <2>1. pd = [p |-> PageOf(nd.p), s |-> PageOf(nd.s), key |-> Bytes[nd.key]]
    BY <1>3, <1>4, <1>5, <1>6, <1>12, <1>13, DivideIntermediateWrites
  <2> HIDE DEF pd
  <2> QED
    BY <2>1
<1> HIDE DEF pd
<1>14. CASE UnderParent(pd, nd, pd.key, nd.key)
  BY <1>5, <1>7, <1>8, <1>11, <1>13, <1>14, UnderParentWrites
<1>15. CASE UnderNewRoot(pd, nd, pd.key, nd.key)
  BY <1>5, <1>7, <1>8, <1>10, <1>13, <1>15, UnderNewRootWrites
<1> QED
  BY <1>1, <1>14, <1>15

(* The parent of two neighbours, laid out.                                     *)
LEMMA NeighboursMeet ==
  ASSUME NEW u, NEW l, NEW sep, NEW h, Neighbours(u, l, sep, h), Fits(nodes.up)
  PROVE  ParentOf(nodes.up, u, nodes.p, nodes.s) /\ nodes.up.keys[u] = sep
<1> DEFINE up == nodes.up
<1>1. /\ up \in Node /\ Shape(up) /\ up.kind = "Root" /\ Ordered(up, 0, KeysEnd)
      /\ IsInjective(up.links) /\ u \in 1 .. Size(up)
      /\ up.links[u] = nodes.p.number /\ sep = UpFence(up, u) /\ nodes.s \in Node
  BY DEF Neighbours
<1> HIDE DEF up
<1>2. /\ up.kind \in Interiors /\ Size(up) \in Nat /\ Len(up.links) = Size(up) + 1
      /\ \A i, j \in 1 .. Size(up) + 1 : up.links[i] = up.links[j] => i = j
      /\ \A i \in 1 .. Size(up) : UpFence(up, i) = up.keys[i]
  BY <1>1, UpIs
<1>3. u \in 1 .. Size(up) + 1
  BY <1>1, <1>2
<1>4. \A i \in 1 .. Size(up) + 1 : up.links[i] = up.links[u] => i = u
  BY <1>2, <1>3
<1>5. ~IsLeaf(up)
  BY <1>2, Kinds DEF IsLeaf
<1>6. InnerPage(up)
  BY <1>1, <1>2, <1>5, IsInnerPage DEF up
<1>7. nodes.s.number \in Numbers
  BY <1>1, NodeFields
<1>8. ParentOf(up, u, nodes.p, nodes.s)
  BY <1>1, <1>4, <1>6, <1>7 DEF ParentOf
<1>9. up.keys[u] = sep
  BY <1>1, <1>2
<1> QED
  BY <1>8, <1>9 DEF up

LEMMA RedistributeWrites ==
  ASSUME TypeOK, InOrder, Canonical, NEW w \in Places, Redistribute(w)
  PROVE  Canonical'
<1> DEFINE o == Other(w)
           L1 == nodes.p
           R1 == nodes.s
           up == nodes.up
           p == nodes[w]
           s == nodes[o]
           q == IF IsLeaf(p) THEN RedistributeKeysLeaf(p, s, up)
                ELSE RedistributeKeysIntermediate(p, s, up)
           pr == IF IsLeaf(p) THEN L!RedistributeKeysLeaf(pages[w], pages[o], pages.up)
                 ELSE L!RedistributeKeysIntermediate(pages[w], pages[o], pages.up)
<1>1. /\ Underflows(w) /\ s # Blank /\ Size(s) > NodesDown
      /\ \A x \in DOMAIN nodes : Readable(nodes[x])
      /\ nodes' = Pair(q[1], q[2], q[3])
      /\ pages' = [x \in {w, o, "up"} |-> pr[IF x = w THEN 1 ELSE IF x = o THEN 2 ELSE 3]]
  BY DEF Redistribute, Edit
<1>2. w \in {"p", "s"} /\ (w = "p" => o = "s") /\ (w = "s" => o = "p")
  BY DEF Places, Other
<1>3. Siblings(p, s, L1, R1)
  BY <1>2 DEF Siblings
<1>4. R1 # Blank /\ up # Blank /\ Size(p) < NodesDown
  BY <1>1, <1>2 DEF Underflows
<1>5. PICK u, l, sep, h : Neighbours(u, l, sep, h)
  BY <1>4, HasNeighbours
<1>6. /\ L1 \in Node /\ R1 \in Node /\ Shape(L1) /\ Shape(R1)
      /\ R1.kind = L1.kind /\ R1.parent = L1.parent
      /\ l \in Nat /\ sep \in Keys /\ h \in Nat
      /\ Ordered(L1, l, sep) /\ Ordered(R1, sep, h)
      /\ L1.kind \in {"Leaf", "Intermediate"}
      /\ Size(L1) \in Nat /\ NodesDown - 1 <= Size(L1) /\ Size(L1) <= NodesUp
      /\ Size(R1) \in Nat /\ NodesDown - 1 <= Size(R1) /\ Size(R1) <= NodesUp
  BY <1>5 DEF Neighbours, PageInOrder
<1>7. Size(p) = NodesDown - 1 /\ Size(s) <= NodesUp /\ p.kind = L1.kind
  BY <1>2, <1>4, <1>6, NodesDownIs
<1>8. /\ pages[w] = PageOf(p) /\ pages[o] = PageOf(s) /\ pages.up = PageOf(up)
      /\ Fits(L1) /\ Fits(R1) /\ Fits(up)
  BY <1>1, <1>2, LaidOut
<1>9. ParentOf(up, u, L1, R1) /\ up.keys[u] = sep
  BY <1>5, <1>8, NeighboursMeet
<1>10. p = L1 /\ s = R1 <=> w = "p"
  <2>1. Size(p) # Size(s)
    BY <1>1, <1>7, NodesDownIs
  <2> QED
    BY <1>2, <2>1
<1>11. /\ q = IF IsLeaf(p) THEN RedistributeKeysLeaf(p, s, up)
               ELSE RedistributeKeysIntermediate(p, s, up)
       /\ pr = IF IsLeaf(p) THEN L!RedistributeKeysLeaf(PageOf(p), PageOf(s), PageOf(up))
               ELSE L!RedistributeKeysIntermediate(PageOf(p), PageOf(s), PageOf(up))
  BY <1>8
<1> HIDE DEF q, pr, L1, R1, up, p, s
<1>12. ASSUME Fits(q[1]), Fits(q[2]), Fits(q[3])
       PROVE  pr = IF p = L1 /\ s = R1 THEN <<PageOf(q[1]), PageOf(q[2]), PageOf(q[3])>>
                   ELSE <<PageOf(q[2]), PageOf(q[1]), PageOf(q[3])>>
  <2>1. CASE IsLeaf(p)
    <3> DEFINE all == MergeLeaves(L1, R1)
    <3>1. L1.kind \in Leaves
      BY <1>7, <2>1 DEF IsLeaf
    <3>2. LeafHalves(all, L1, R1, Size(L1), l, sep, h)
      BY <1>6, <3>1, MergeLeavesHalves
    <3>3. LeavesMeet(L1, R1, all)
      <4> HIDE DEF all
      <4>1. all \in Node /\ Shape(all) /\ Ordered(all, l, h) /\ all.kind \in Leaves
        BY <3>2 DEF LeafHalves, Halves
      <4>2. WholeLeaf(all)
        BY <4>1 DEF WholeLeaf, IsLeaf, Shape, Ordered
      <4> QED
        BY <1>6, <3>1, <4>2 DEF LeavesMeet, IsLeaf, all
    <3> HIDE DEF all
    <3>4. sep \in Nat
      BY <1>6, EditKeys
    <3> QED
      BY <1>1, <1>3, <1>6, <1>7, <1>8, <1>9, <1>11, <1>12, <2>1, <3>3, <3>4, RedistributeLeafWrites
  <2>2. CASE ~IsLeaf(p)
    <3> DEFINE all == MergeNodes(L1, sep, R1)
    <3>1. L1.kind \in Interiors
      BY <1>6, <1>7, <2>2, Kinds DEF IsLeaf
    <3>2. InnerHalves(all, L1, R1, Size(L1), l, sep, h)
      BY <1>6, <3>1, MergeNodesHalves
    <3>3. NodesMeet(L1, R1, all, l, sep, h) /\ all = MergeNodes(L1, sep, R1)
      BY <1>6, <3>2 DEF NodesMeet
    <3> HIDE DEF all
    <3> QED
      BY <1>1, <1>3, <1>7, <1>8, <1>9, <1>11, <1>12, <2>2, <3>3, RedistributeNodesWrites
  <2> QED
    BY <2>1, <2>2
<1>13. pages' = IF w = "p" THEN Pair(pr[1], pr[2], pr[3]) ELSE Pair(pr[2], pr[1], pr[3])
  <2>1. CASE w = "p"
    BY <1>1, <1>2, <2>1 DEF Pair
  <2>2. CASE w = "s"
    BY <1>1, <1>2, <2>2 DEF Pair
  <2> QED
    BY <1>2, <2>1, <2>2
<1>14. CASE w = "p"
  <2>1. ASSUME Fits(q[1]), Fits(q[2]), Fits(q[3])
        PROVE  pr[1] = PageOf(q[1]) /\ pr[2] = PageOf(q[2]) /\ pr[3] = PageOf(q[3])
    BY <1>10, <1>12, <1>14, <2>1
  <2> QED
    BY <1>1, <1>13, <1>14, <2>1, ThreeWritten
<1>15. CASE w = "s"
  <2>1. ASSUME Fits(q[1]), Fits(q[2]), Fits(q[3])
        PROVE  pr[2] = PageOf(q[1]) /\ pr[1] = PageOf(q[2]) /\ pr[3] = PageOf(q[3])
    BY <1>10, <1>12, <1>15, <2>1
  <2> QED
    BY <1>1, <1>13, <1>15, <2>1, ThreeWritten
<1> QED
  BY <1>2, <1>14, <1>15

(* A page that becomes the root keeps its bytes.                               *)
LEMMA RaisedWrites ==
  ASSUME NEW n, n \in Node, n.kind \in {"Leaf", "Intermediate"},
         NEW kind, kind = IF n.kind = "Leaf" THEN "RootLeaf" ELSE "Root",
         NEW n2, n2 = [n EXCEPT !.kind = kind]
  PROVE  (Fits(n2) <=> Fits(n)) /\ [PageOf(n) EXCEPT !.kind = kind] = PageOf(n2)
<1>1. /\ n2.kind = kind /\ n2.number = n.number /\ n2.parent = n.parent
      /\ n2.keys = n.keys /\ n2.vals = n.vals /\ n2.links = n.links
  BY DEF Node
<1>2. (IsLeaf(n2) <=> IsLeaf(n)) /\ n # Blank /\ n2 # Blank
  BY <1>1, Kinds DEF IsLeaf, Blank
<1>3. /\ Size(n2) = Size(n) /\ KeyStrings(n2) = KeyStrings(n)
      /\ \A i : ValueStart(n2, i) = ValueStart(n, i)
  BY <1>1 DEF Size, KeyStrings, ValueStart
<1>4. \A i : KeyStart(n2, i) = KeyStart(n, i)
  BY <1>2, <1>3 DEF KeyStart
<1>5. Begining(n2) = Begining(n) /\ Ending(n2) = Ending(n)
  BY <1>2, <1>3, <1>4 DEF Begining, Ending
<1>6. Fits(n2) <=> Fits(n)
  BY <1>2, <1>5 DEF Fits
<1>7. /\ Slots(n2) = Slots(n) /\ KeyItems(n2) = KeyItems(n) /\ ValueItems(n2) = ValueItems(n)
      /\ LinkItems(n2) = LinkItems(n)
  BY <1>1, <1>3, <1>4 DEF Slots, KeyItems, ValueItems, LinkItems
<1>8. Items(n2) = Items(n)
  BY <1>1, <1>2, <1>3, <1>5, <1>7 DEF Items, Header
<1> DEFINE mem == Mem(Items(n))
<1>9. /\ PageOf(n) = [kind |-> n.kind, number |-> n.number, mem |-> mem]
      /\ PageOf(n2) = [kind |-> kind, number |-> n.number, mem |-> mem]
  BY <1>1, <1>2, <1>8 DEF PageOf
<1> HIDE DEF mem
<1>10. [PageOf(n) EXCEPT !.kind = kind] = PageOf(n2)
  BY <1>9
<1> QED
  BY <1>6, <1>10

LEMMA MergePagesWrites ==
  ASSUME TypeOK, InOrder, Canonical, NEW w \in Places, MergePages(w)
  PROVE  Canonical'
<1> DEFINE o == Other(w)
           lw == IF L!SiblingIsRight(pages[w], pages[o]) THEN w ELSE o
           rw == Other(lw)
           L1 == nodes.p
           R1 == nodes.s
           up == nodes.up
           p == nodes[w]
           s == nodes[o]
           pm == IF IsLeaf(p) THEN L!MergeLeaf(pages[lw], pages[rw])
                 ELSE L!MergeIntermediate(pages[lw], pages[rw], pages.up)
           nm == IF IsLeaf(p) THEN MergeLeaves(L1, R1)
                 ELSE MergeNodes(L1, KeyBehind(up, L1.number), R1)
           kind == IF IsLeaf(p) THEN "RootLeaf" ELSE "Root"
           top == [nm EXCEPT !.kind = kind]
           up2 == DeleteKeyIntermediate(up, L1.number)
           U == L!DeleteKeyIntermediate(pages.up, pages[lw].number)
<1>1. /\ Underflows(w) /\ s # Blank /\ Size(s) = NodesDown
      /\ \A x \in DOMAIN nodes : Readable(nodes[x])
      /\ nodes' = IF Size(up) = 1 THEN Pair(top, Blank, Blank) ELSE Pair(nm, Blank, up2)
      /\ pages' = IF Size(up) = 1 THEN Pair([pm EXCEPT !.kind = kind], None, None)
                  ELSE Pair(pm, None, U)
  BY DEF MergePages, Edit
<1>2. w \in {"p", "s"} /\ (w = "p" => o = "s") /\ (w = "s" => o = "p")
  BY DEF Places, Other
<1>3. Siblings(p, s, L1, R1)
  BY <1>2 DEF Siblings
<1>4. R1 # Blank /\ up # Blank /\ Size(p) < NodesDown /\ p # Blank
  BY <1>1, <1>2 DEF Underflows
<1>5. PICK u, l, sep, h : Neighbours(u, l, sep, h)
  BY <1>4, HasNeighbours
<1>6. /\ L1 \in Node /\ R1 \in Node /\ Shape(L1) /\ Shape(R1)
      /\ R1.kind = L1.kind /\ R1.parent = L1.parent
      /\ l \in Nat /\ sep \in Keys /\ sep \in Nat /\ h \in Nat
      /\ Ordered(L1, l, sep) /\ Ordered(R1, sep, h)
      /\ L1.kind \in {"Leaf", "Intermediate"} /\ KeyBehind(up, L1.number) = sep
  BY <1>5, EditKeys DEF Neighbours, PageInOrder
<1>7. Size(L1) \in Nat /\ Size(L1) >= 1 /\ Size(R1) \in Nat /\ Size(R1) >= 1
  <2>1. /\ Size(L1) \in Nat /\ NodesDown - 1 <= Size(L1)
        /\ Size(R1) \in Nat /\ NodesDown - 1 <= Size(R1)
    BY <1>5 DEF Neighbours
  <2> QED
    BY <2>1, NodesDownIs
<1>8. /\ pages[w] = PageOf(p) /\ pages[o] = PageOf(s) /\ pages.up = PageOf(up)
      /\ pages["p"] = PageOf(L1) /\ pages["s"] = PageOf(R1)
      /\ Fits(L1) /\ Fits(R1) /\ Fits(up) /\ Fits(p) /\ Fits(s)
      /\ Shaped(p) /\ Shaped(s)
  BY <1>1, <1>2, LaidOut
<1>9. ParentOf(up, u, L1, R1) /\ up.keys[u] = sep
  BY <1>5, <1>8, NeighboursMeet
<1>10. p.kind = L1.kind /\ Size(p) >= 1 /\ Size(s) >= 1 /\ L1 # Blank
  <2>1. L1 # Blank
    BY <1>6 DEF Blank
  <2> QED
    BY <1>2, <1>6, <1>7, <2>1
<1>11. lw = "p" /\ rw = "s"
  <2>1. L!SiblingIsRight(pages[w], pages[o]) <=> SiblingIsRight(p, s)
    BY <1>1, <1>4, <1>8, <1>10, SiblingReads
  <2>2. SiblingIsRight(p, s) = (p = L1 /\ s = R1)
    BY <1>3, <1>6, <1>7, InorderIs
  <2>3. p = L1 /\ s = R1 <=> w = "p"
    <3>1. Size(p) # Size(s)
      BY <1>1, <1>2, <1>4, <1>7, NodesDownIs
    <3> QED
      BY <1>2, <3>1
  <2>4. L!SiblingIsRight(pages[w], pages[o]) <=> w = "p"
    BY <2>1, <2>2, <2>3
  <2>5. lw = "p"
    BY <1>2, <2>4
  <2> QED
    BY <2>5 DEF Other
<1>12. /\ pm = IF IsLeaf(p) THEN L!MergeLeaf(PageOf(L1), PageOf(R1))
               ELSE L!MergeIntermediate(PageOf(L1), PageOf(R1), PageOf(up))
       /\ nm = IF IsLeaf(p) THEN MergeLeaves(L1, R1) ELSE MergeNodes(L1, sep, R1)
       /\ kind = IF IsLeaf(p) THEN "RootLeaf" ELSE "Root"
       /\ top = [nm EXCEPT !.kind = kind]
       /\ up2 = DeleteKeyIntermediate(up, up.links[u])
       /\ U = L!DeleteKeyIntermediate(PageOf(up), up.links[u])
  <2>1. PageOf(L1).number = L1.number
    BY <1>10 DEF PageOf
  <2>2. up.links[u] = L1.number
    BY <1>9 DEF ParentOf
  <2>3. pages[lw] = PageOf(L1) /\ pages[rw] = PageOf(R1)
    BY <1>8, <1>11
  <2> HIDE DEF lw, rw, L1, R1, up, p
  <2> QED
    BY <1>6, <1>8, <2>1, <2>2, <2>3
<1> HIDE DEF pm, nm, kind, top, up2, U, L1, R1, up, p, s, lw, rw
<1>13. nm \in Node /\ nm.kind = L1.kind /\ (Fits(nm) => pm = PageOf(nm))
  <2>1. CASE IsLeaf(p)
    <3>1. L1.kind \in Leaves /\ nm = MergeLeaves(L1, R1)
      BY <1>10, <1>12, <2>1 DEF IsLeaf
    <3>2. LeafHalves(nm, L1, R1, Size(L1), l, sep, h)
      BY <1>6, <3>1, MergeLeavesHalves
    <3>3. nm \in Node /\ nm.kind = L1.kind /\ Shape(nm) /\ Ordered(nm, l, h)
      BY <3>2 DEF LeafHalves, Halves
    <3>4. WholeLeaf(nm)
      BY <3>1, <3>3 DEF WholeLeaf, IsLeaf, Shape, Ordered
    <3>5. LeavesMeet(L1, R1, nm)
      BY <1>6, <3>1, <3>4 DEF LeavesMeet, IsLeaf
    <3>6. Fits(nm) => pm = PageOf(nm)
      BY <1>8, <1>12, <2>1, <3>5, MergeLeafWrites
    <3> QED
      BY <3>3, <3>6
  <2>2. CASE ~IsLeaf(p)
    <3>1. L1.kind \in Interiors /\ nm = MergeNodes(L1, sep, R1)
      BY <1>6, <1>10, <1>12, <2>2, Kinds DEF IsLeaf
    <3>2. InnerHalves(nm, L1, R1, Size(L1), l, sep, h)
      BY <1>6, <3>1, MergeNodesHalves
    <3>3. nm \in Node /\ nm.kind = L1.kind
      BY <3>2 DEF InnerHalves, Halves
    <3>4. NodesMeet(L1, R1, nm, l, sep, h)
      BY <1>6, <3>2 DEF NodesMeet
    <3>5. Fits(nm) => pm = PageOf(nm)
      BY <1>7, <1>8, <1>9, <1>12, <2>2, <3>4, MergeNodesWrites
    <3> QED
      BY <3>3, <3>5
  <2> QED
    BY <2>1, <2>2
<1>14. None = PageOf(Blank)
  BY DEF PageOf
<1>15. CASE Size(up) = 1
  <2>1. kind = IF nm.kind = "Leaf" THEN "RootLeaf" ELSE "Root"
    BY <1>6, <1>10, <1>12, <1>13, Kinds DEF IsLeaf
  <2>2. (Fits(top) <=> Fits(nm)) /\ [PageOf(nm) EXCEPT !.kind = kind] = PageOf(top)
    BY <1>6, <1>12, <1>13, <2>1, RaisedWrites
  <2>3. ASSUME Fits(top) PROVE [pm EXCEPT !.kind = kind] = PageOf(top)
    BY <1>13, <2>2, <2>3
  <2>4. nodes' = Pair(top, Blank, Blank) /\ pages' = Pair([pm EXCEPT !.kind = kind], None, None)
    BY <1>1, <1>15
  <2> QED
    BY <1>14, <2>3, <2>4, ThreeWritten
<1>16. CASE Size(up) # 1
  <2>1. /\ InnerPage(up) /\ u \in 1 .. Size(up)
        /\ \A i \in 1 .. Size(up) + 1 : up.links[i] = up.links[u] => i = u
    BY <1>9 DEF ParentOf
  <2>2. up \in Node /\ Len(up.links) = Size(up) + 1 /\ ~IsLeaf(up) /\ Size(up) \in Nat
    BY <2>1, NodeFields DEF InnerPage, Shaped
  <2>3. SameHead(up, up2) /\ LacksPair(up2, up, u) /\ up2 \in Node /\ Len(up2.links) = Size(up2) + 1
    BY <1>12, <2>1, <2>2, DeleteKeyIntermediateHas
  <2>4. ~IsLeaf(up2)
    BY <2>2, <2>3 DEF SameHead, IsLeaf
  <2>5. \A i \in 1 .. Size(up) : up.links[i] = up.links[u] => i = u
    BY <2>1, <2>2
  <2>6. ASSUME Fits(up2) PROVE U = PageOf(up2)
    <3>1. InnerPage(up2)
      BY <2>3, <2>4, <2>6, IsInnerPage
    <3> QED
      BY <1>12, <2>1, <2>3, <2>5, <3>1, DeleteKeyIntermediateWrites
  <2>7. nodes' = Pair(nm, Blank, up2) /\ pages' = Pair(pm, None, U)
    BY <1>1, <1>16
  <2> QED
    BY <1>13, <1>14, <2>6, <2>7, ThreeWritten
<1> QED
  BY <1>15, <1>16

LEMMA LookAwayWrites ==
  ASSUME TypeOK, Canonical, NEW w \in Places, LookAway(w)
  PROVE  Canonical'
<1>1. /\ w \in {"p", "s", "up"} /\ \A x \in DOMAIN nodes : Readable(nodes[x])
      /\ nodes' = Pair(nodes[w], Blank, nodes.up) /\ pages' = Pair(pages[w], None, pages.up)
  BY DEF LookAway, Edit, Places
<1>2. pages[w] = PageOf(nodes[w]) /\ pages.up = PageOf(nodes.up)
  BY <1>1, LaidOut
<1>3. None = PageOf(Blank)
  BY DEF PageOf
<1> QED
  BY <1>1, <1>2, <1>3, ThreeWritten

(* The two ways to make a first page write it so.                              *)
LEMMA InitCanonical ==
  ASSUME Init
  PROVE  Canonical
<1>1. ASSUME NEW n, NEW pg, nodes = Pair(n, Blank, Blank), pages = Pair(pg, None, None),
             Fits(n) => pg = PageOf(n)
      PROVE  Canonical
  <2>1. /\ DOMAIN nodes = {"p", "s", "up"}
        /\ nodes.p = n /\ nodes.s = Blank /\ nodes.up = Blank
        /\ pages.p = pg /\ pages.s = None /\ pages.up = None
    BY <1>1 DEF Pair
  <2>2. None = PageOf(Blank)
    BY DEF PageOf
  <2>3. SUFFICES ASSUME \A x \in DOMAIN nodes : Fits(nodes[x])
                 PROVE  \A x \in DOMAIN nodes : pages[x] = PageOf(nodes[x])
    BY DEF Canonical, AllFit
  <2>4. pg = PageOf(n)
    BY <1>1, <2>1, <2>3
  <2> QED
    BY <2>1, <2>2, <2>4
<1>2. 0 \in Numbers /\ 1 \in Numbers
  <2>1. 1 \in Fresh
    BY NodesDownIs DEF Fresh
  <2> QED
    BY <2>1, EditKeys DEF Numbers
<1>3. ASSUME NEW k \in Keys, NEW v \in Values,
             NEW n, n = [Blank EXCEPT !.kind = "RootLeaf", !.number = 1,
                                      !.keys = <<k>>, !.vals = <<v>>], Fits(n)
      PROVE  L!CreateRootLeaf(1, Bytes[k], v) = PageOf(n)
  <2>1. n = [kind |-> "RootLeaf", number |-> 1, parent |-> 0,
             keys |-> <<k>>, vals |-> <<v>>, links |-> <<>>]
    BY <1>3 DEF Blank
  <2>2. <<k>> \in Seq(Keys) /\ <<v>> \in Seq(Values) /\ <<>> \in Seq(Numbers)
    OBVIOUS
  <2>3. n \in Node /\ n.kind = "RootLeaf" /\ n.number = 1 /\ n.parent = 0 /\ Size(n) = 1
    BY <1>2, <2>1, <2>2 DEF Node, Leaves, Size
  <2>4. Len(n.vals) = Size(n) /\ n.keys[1] = k /\ n.vals[1] = v /\ IsLeaf(n)
    BY <2>1, <2>3, Kinds DEF IsLeaf
  <2>5. Shaped(n)
    BY <2>3, <2>4 DEF Shaped
  <2> QED
    BY <1>3, <2>3, <2>4, <2>5, CreateRootLeafWrites
<1>4. ASSUME NEW k \in Keys, NEW n, n = CreateRoot(1, k, Child(0), Child(k)), Fits(n)
      PROVE  L!CreateRoot(1, Bytes[k], Child(0), Child(k)) = PageOf(n)
  <2>1. Child(0) \in Numbers /\ Child(k) \in Numbers /\ Child(0) # Child(k)
    BY EditKeys
  <2>2. /\ n \in Node /\ Shape(n) /\ n.kind = "Root" /\ Size(n) = 1
        /\ n.links[1] = Child(0) /\ n.links[2] = Child(k)
    BY <1>2, <1>4, <2>1, CreateRootInOrder
  <2>3. n.number = 1 /\ n.parent = 0 /\ n.keys[1] = k
    BY <1>4 DEF CreateRoot, Blank
  <2>4. ~IsLeaf(n) /\ Len(n.links) = Size(n) + 1
    BY <2>2, Kinds DEF Shape, IsLeaf
  <2>5. InnerPage(n)
    BY <1>4, <2>2, <2>4, IsInnerPage
  <2> QED
    BY <2>2, <2>3, <2>5, CreateRootWrites
<1>5. PICK k \in Keys :
        \/ \E v \in Values :
             /\ pages = Pair(L!CreateRootLeaf(1, Bytes[k], v), None, None)
             /\ nodes = Pair([Blank EXCEPT !.kind = "RootLeaf", !.number = 1,
                                           !.keys = <<k>>, !.vals = <<v>>], Blank, Blank)
        \/ /\ pages = Pair(L!CreateRoot(1, Bytes[k], Child(0), Child(k)), None, None)
           /\ nodes = Pair(CreateRoot(1, k, Child(0), Child(k)), Blank, Blank)
  BY DEF Init
<1>6. ASSUME NEW v \in Values,
             pages = Pair(L!CreateRootLeaf(1, Bytes[k], v), None, None),
             nodes = Pair([Blank EXCEPT !.kind = "RootLeaf", !.number = 1,
                                        !.keys = <<k>>, !.vals = <<v>>], Blank, Blank)
      PROVE  Canonical
  <2> DEFINE n == [Blank EXCEPT !.kind = "RootLeaf", !.number = 1,
                                !.keys = <<k>>, !.vals = <<v>>]
             pg == L!CreateRootLeaf(1, Bytes[k], v)
  <2>1. nodes = Pair(n, Blank, Blank) /\ pages = Pair(pg, None, None)
    BY <1>6
  <2>2. Fits(n) => pg = PageOf(n)
    BY <1>3
  <2> HIDE DEF n, pg
  <2> QED
    BY <1>1, <2>1, <2>2
<1>7. ASSUME pages = Pair(L!CreateRoot(1, Bytes[k], Child(0), Child(k)), None, None),
             nodes = Pair(CreateRoot(1, k, Child(0), Child(k)), Blank, Blank)
      PROVE  Canonical
  <2> DEFINE n == CreateRoot(1, k, Child(0), Child(k))
             pg == L!CreateRoot(1, Bytes[k], Child(0), Child(k))
  <2>1. nodes = Pair(n, Blank, Blank) /\ pages = Pair(pg, None, None)
    BY <1>7
  <2>2. Fits(n) => pg = PageOf(n)
    BY <1>4
  <2> HIDE DEF n, pg
  <2> QED
    BY <1>1, <2>1, <2>2
<1> QED
  BY <1>5, <1>6, <1>7

(* And so does every step.                                                     *)
LEMMA NextCanonical ==
  ASSUME TypeOK, InOrder, Canonical, [Next]_editVars
  PROVE  Canonical'
<1>1. ASSUME NEW k \in Keys, NEW v \in Values, InsertOne(k, v)
      PROVE  Canonical'
  <2>1. ASSUME NEW w \in Places,
               InsertNew(w, k, v) \/ InsertLink(w, k) \/ InsertExisting(w, k, v)
        PROVE  Canonical'
    BY <2>1, InsertNewWrites, InsertLinkWrites, InsertExistingWrites
  <2> QED
    BY <1>1, <2>1, DivideLeafPageWrites, DivideNodePageWrites DEF InsertOne
<1>2. ASSUME NEW w \in Places, \E i \in 1 .. NodesUp : DeleteOne(w, i)
      PROVE  Canonical'
  BY <1>2, DeleteOneWrites
<1>3. ASSUME NEW w \in Places, Redistribute(w) \/ MergePages(w) \/ LookAway(w)
      PROVE  Canonical'
  BY <1>3, RedistributeWrites, MergePagesWrites, LookAwayWrites
<1>4. CASE UNCHANGED editVars
  <2>1. pages' = pages /\ nodes' = nodes
    BY <1>4 DEF editVars
  <2> QED
    BY <2>1 DEF Canonical, AllFit
<1> QED
  BY <1>1, <1>2, <1>3, <1>4 DEF Next

(* Three pages, each with the shape of its kind, in order and laid out: what   *)
(* the other two properties of pages follow from.                              *)
PagesInvariant == TypeOK /\ InOrder /\ Canonical

LEMMA PagesInvariantHolds == Spec => []PagesInvariant
<1>1. Init => PagesInvariant
  BY InitInOrder, InitCanonical DEF PagesInvariant
<1>2. PagesInvariant /\ [Next]_editVars => PagesInvariant'
  <2>1. ASSUME PagesInvariant, [Next]_editVars PROVE PagesInvariant'
    <3>1. TypeOK /\ InOrder /\ Canonical
      BY <2>1 DEF PagesInvariant
    <3>2. TypeOK' /\ InOrder'
      BY <2>1, <3>1, NextInOrder
    <3>3. Canonical'
      BY <2>1, <3>1, NextCanonical
    <3> QED
      BY <3>2, <3>3 DEF PagesInvariant
  <2> QED
    BY <2>1
<1> QED
  BY <1>1, <1>2, PTL DEF Spec

(* Whatever inserts, divisions, deletions, redistributions and merges three    *)
(* pages have gone through, their bytes are those that writing their keys in   *)
(* order into new pages gives, as long as keys and values fit in the pages:    *)
(* the loops of b-tree.c do on bytes what BTreeNode does on nodes.             *)
THEOREM PagesAreCanonical == Spec => []Canonical
<1>1. PagesInvariant => Canonical
  BY DEF PagesInvariant
<1> QED
  BY <1>1, PagesInvariantHolds, PTL

(* The code divides a page by the number of its keys and never looks at their  *)
(* bytes.  For keys and values that take at most EntryRoom bytes between them  *)
(* that is enough: no insertion, division, redistribution or merge fills a     *)
(* page beyond its end, or lets the values of a leaf reach its keys.           *)
THEOREM SmallPagesFit == Spec => []SmallEntriesFit
<1>1. PagesInvariant => SmallEntriesFit
  BY CanonicalSmallFits DEF PagesInvariant
<1> QED
  BY <1>1, PagesInvariantHolds, PTL

(* As long as keys and values fit, find_pos, find_links, bt_search and         *)
(* b_select find in the bytes of every page what BTree finds in its node, an   *)
(* inner page of 2^16 bytes or more left out.                                  *)
THEOREM PagesReadBack == Spec => []ReadsBack
<1>1. PagesInvariant => ReadsBack
  BY CanonicalReadsBack DEF PagesInvariant
<1> QED
  BY <1>1, PagesInvariantHolds, PTL
===============================================================================
