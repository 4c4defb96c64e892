------------------------------ MODULE BTreeNode ------------------------------
(***************************************************************************)
(* The contents of one page of the tree as sequences, and what the loops   *)
(* of b-tree.c that copy entries from page to page do to them.  PageLayout *)
(* has the same loops on the bytes of a page; PageEdits relates the two.   *)
(***************************************************************************)
EXTENDS Integers, SequencesExt

CONSTANTS
  Keys,         \* a set of numbers: their order is that of memcmp, then size
  Values,
  Absent,       \* what a select of a missing key finds (-1)
  PageNums,     \* the page numbers behind the page index
  NodesDown,    \* cPageNodesDown
  NodesUp       \* cPageNodesUp

ASSUME BTreeNodeAssumption ==
  /\ Keys \subseteq Nat
  /\ Absent \notin Values
  /\ PageNums \subseteq Nat \ {0}
  /\ NodesDown \in Nat /\ NodesDown >= 2
  /\ NodesUp = 2 * NodesDown

Leaves == {"RootLeaf", "Leaf"}
Interiors == {"Root", "Intermediate"}

Blank == [kind |-> "None", number |-> 0, parent |-> 0,
          keys |-> <<>>, vals |-> <<>>, links |-> <<>>]

Numbers == PageNums \union {0}

Node == [kind : Leaves \union Interiors \union {"None", "Meta"},
         number : Numbers, parent : Numbers,
         keys : Seq(Keys), vals : Seq(Values), links : Seq(Numbers)]

Size(n) == Len(n.keys)

ValueIn(n, k) ==
  IF n.kind \in Leaves /\ k \in ToSet(n.keys)
  THEN n.vals[CHOOSE i \in DOMAIN n.keys : n.keys[i] = k]
  ELSE Absent

(* The number of keys in front of the first key that is greater.             *)
FindPos(n, k) ==
  LET i == SelectInSeq(n.keys, LAMBDA x : x > k)
  IN  IF i = 0 THEN Size(n) ELSE i - 1

LinkFor(n, k) == n.links[FindPos(n, k) + 1]

InsertIntoLeaf(n, k, v) ==
  LET i == FindPos(n, k) + 1
  IN  [n EXCEPT !.keys = InsertAt(@, i, k), !.vals = InsertAt(@, i, v)]

InsertSame(n, k, v) ==
  [n EXCEPT !.vals = [i \in DOMAIN @ |-> IF n.keys[i] = k THEN v ELSE @[i]]]

DeleteKeyLeaf(n, k) ==
  LET i == SelectInSeq(n.keys, LAMBDA x : x = k)
  IN  [n EXCEPT !.keys = RemoveAt(@, i), !.vals = RemoveAt(@, i)]

(* Also create_intermediate, which does the same to a node without keys.     *)
InsertIntoIntermediate(n, k, link) ==
  LET i == FindPos(n, k) + 1
  IN  [n EXCEPT !.keys = InsertAt(@, i, k), !.links = InsertAt(@, i + 1, link)]

(* Mutant of DeleteKeyIntermediate: the link in front of the key goes.       *)
DeleteKeyAndLinkBefore(n, link) ==
  LET i == SelectInSeq(n.links, LAMBDA x : x = link)
  IN  [n EXCEPT !.keys = RemoveAt(@, i), !.links = RemoveAt(@, i)]

(* Drops the key behind a link, and the link behind that key.                *)
DeleteKeyIntermediate(n, link) ==
  LET i == SelectInSeq(n.links, LAMBDA x : x = link)
  IN  [n EXCEPT !.keys = RemoveAt(@, i), !.links = RemoveAt(@, i + 1)]

KeyBehind(n, link) == n.keys[SelectInSeq(n.links, LAMBDA x : x = link)]

LeafPart(n, l, r) == [n EXCEPT !.keys = SubSeq(@, l, r), !.vals = SubSeq(@, l, r)]

NodePart(n, l, r) ==
  [n EXCEPT !.keys = SubSeq(@, l, r), !.links = SubSeq(@, l, r + 1)]

(* The two pages of a divided leaf, the second under number m.               *)
DivideLeaf(n, k, v, m) ==
  LET all  == InsertIntoLeaf([n EXCEPT !.kind = "Leaf"], k, v)
      half == (Size(n) + 1) \div 2
  IN  [p |-> LeafPart(all, 1, half),
       s |-> [LeafPart(all, half + 1, Size(all)) EXCEPT !.number = m]]

(* Mutant of DivideIntermediate: the key in front of the middle one goes up. *)
DivideBeforeMiddle(n, k, link, m) ==
  LET all  == InsertIntoIntermediate([n EXCEPT !.kind = "Intermediate"], k, link)
      half == (Size(n) + 1) \div 2
  IN  [p   |-> NodePart(all, 1, half),
       key |-> all.keys[half],
       s   |-> [NodePart(all, half + 2, Size(all)) EXCEPT !.number = m]]

(* The two pages of a divided inner node, and the key between them.          *)
DivideIntermediate(n, k, link, m) ==
  LET all  == InsertIntoIntermediate([n EXCEPT !.kind = "Intermediate"], k, link)
      half == (Size(n) + 1) \div 2
  IN  [p   |-> NodePart(all, 1, half),
       key |-> all.keys[half + 1],
       s   |-> [NodePart(all, half + 2, Size(all)) EXCEPT !.number = m]]

CreateRoot(m, k, l, r) ==
  [Blank EXCEPT !.kind = "Root", !.number = m, !.keys = <<k>>, !.links = <<l, r>>]

(* n < 0 in the code: the sibling is the right one.                          *)
SiblingIsRight(p, s) == Last(p.keys) < Head(s.keys)

Inorder(p, s) == IF SiblingIsRight(p, s) THEN <<p, s>> ELSE <<s, p>>

(* Mutant of LeftShare: one key too few.                                     *)
LeftShareShort(p, s) ==
  LET half == (Size(p) + Size(s)) \div 2
  IN  IF SiblingIsRight(p, s) THEN half - 1 ELSE Size(p) + Size(s) - half

(* How many keys stay in the left of two pages when the sibling s hands some *)
(* to p until p holds half of all.                                           *)
LeftShare(p, s) ==
  LET half == (Size(p) + Size(s)) \div 2
  IN  IF SiblingIsRight(p, s) THEN half ELSE Size(p) + Size(s) - half

(* Mutant of MergeLeaves: the pages swapped.                                 *)
MergeLeavesSwapped(l, r) ==
  [l EXCEPT !.keys = r.keys \o @, !.vals = r.vals \o @]

MergeLeaves(l, r) ==
  [l EXCEPT !.keys = @ \o r.keys, !.vals = @ \o r.vals]

(* Mutant of MergeNodes: the parent's key does not come down.                *)
MergeNodesOnly(l, sep, r) ==
  [l EXCEPT !.keys = @ \o r.keys, !.links = @ \o r.links]

MergeNodes(l, sep, r) ==
  [l EXCEPT !.keys = (@ \o <<sep>>) \o r.keys, !.links = @ \o r.links]

(* Mutant of NewSeparator: the parent stays as it is.                        *)
OldSeparator(parent, l, r, sep) == parent

NewSeparator(parent, l, r, sep) ==
  InsertIntoIntermediate(DeleteKeyIntermediate(parent, l), sep, r)

(* redistribute_keys_leaf: <<left page, right page, parent>>.                *)
RedistributeKeysLeaf(p, s, parent) ==
  LET l   == Inorder(p, s)[1]
      r   == Inorder(p, s)[2]
      all == MergeLeaves(l, r)
      cut == LeftShare(p, s)
  IN  <<LeafPart(all, 1, cut),
        [LeafPart(all, cut + 1, Size(all)) EXCEPT !.number = r.number,
                                                  !.parent = r.parent],
        NewSeparator(parent, l.number, r.number, all.keys[cut + 1])>>

RedistributeKeysIntermediate(p, s, parent) ==
  LET l   == Inorder(p, s)[1]
      r   == Inorder(p, s)[2]
      all == MergeNodes(l, KeyBehind(parent, l.number), r)
      cut == LeftShare(p, s)
  IN  <<NodePart(all, 1, cut),
        [NodePart(all, cut + 2, Size(all)) EXCEPT !.number = r.number,
                                                  !.parent = r.parent],
        NewSeparator(parent, l.number, r.number, all.keys[cut + 1])>>

-------------------------------------------------------------------------------
(* Properties of one node *)

(* The sequences of a page fit its kind.                                     *)
Shape(n) ==
  /\ n.kind \in Leaves \union Interiors
  /\ n.kind \in Leaves => Len(n.vals) = Size(n) /\ n.links = <<>>
  /\ n.kind \in Interiors => Len(n.links) = Size(n) + 1 /\ n.vals = <<>>

(* Keys ascend within the bounds; an inner page has none at the lower bound, *)
(* for the child in front of that key would answer for no key.               *)
Ordered(n, l, h) ==
  /\ l < h
  /\ \A i, j \in 1 .. Size(n) : i < j => n.keys[i] < n.keys[j]
  /\ \A i \in 1 .. Size(n) : l <= n.keys[i] /\ n.keys[i] < h
  /\ n.kind \in Interiors => \A i \in 1 .. Size(n) : l < n.keys[i]

(* What lies between the links of a page and at their ends.                  *)
Fence(n, l, h, i) ==
  IF i = 0 THEN l ELSE IF i = Size(n) + 1 THEN h ELSE n.keys[i]
==============================================================================
