----------------------------- MODULE PageEdits -----------------------------
(***************************************************************************)
(* Pages of bytes as the tree edits them, beside the nodes that BTree has  *)
(* in their place: a page, the sibling on its right while it is looked at, *)
(* and their parent.  Each step does to the bytes, by PageLayout, and to   *)
(* the nodes, by BTreeNode, what a step of the tree does.                  *)
(*                                                                         *)
(* No loop tests whether there is room.  From a page that is too full no   *)
(* step is followed: what lies behind it in memory is not known.           *)
(***************************************************************************)
EXTENDS BTreeNode

CONSTANTS PageSize, Padding, HalfWord,
          Bytes     \* what the keys stand for, a sequence of byte strings

L == INSTANCE PageLayout

(* The numbers that pages may get, and those of the pages below: the child     *)
(* behind a key, and the one before all keys.                                  *)
Fresh == 1 .. NodesUp + 6
Child(k) == NodesUp + 7 + k

ASSUME PageEditsAssumption ==
  /\ PageSize \in Nat /\ Padding \in Nat /\ Padding < PageSize
  /\ HalfWord \in Nat \ {0}
  /\ Bytes \in Seq(Seq(Nat)) /\ Keys = DOMAIN Bytes /\ Values \subseteq Seq(Nat)
  /\ \A i, j \in DOMAIN Bytes : i < j <=> L!Precedes(Bytes[i], Bytes[j])
  /\ PageNums = 1 .. Child(Len(Bytes))

VARIABLES pages, nodes   \* page, sibling and parent: as bytes, and as nodes

editVars == <<pages, nodes>>

Places == {"p", "s"}
None == L!Create("None", 0, 0, 0)

-------------------------------------------------------------------------------
(* The layout of a page, for reference *)

KeyStrings(n) == [i \in DOMAIN n.keys |-> Bytes[n.keys[i]]]

(* The bytes in the first i of some strings.                                   *)
FirstTotal(strings, i) == Cardinality(UNION {{j} \X (1 .. Len(strings[j])) : j \in 1 .. i})

IsLeaf(n) == n.kind \in Leaves

(* Where the i-th key and the i-th value start; one past the last key is the   *)
(* end of all keys.                                                            *)
KeyStart(n, i) ==
  12 + 4 * Size(n) + (IF IsLeaf(n) THEN 0 ELSE 4)
     + 8 * (i - 1) + FirstTotal(KeyStrings(n), i - 1)

ValueStart(n, i) == L!Room - 4 * i - FirstTotal(n.vals, i)

Begining(n) == KeyStart(n, Size(n) + 1)
Ending(n) == IF IsLeaf(n) THEN ValueStart(n, Size(n)) ELSE 0

Header(n) ==
  {<<0, L!Short(Begining(n))>>, <<2, L!Short(Ending(n))>>,
   <<4, L!Word(n.parent)>>, <<8, L!Word(Size(n))>>}

Slots(n) == {<<8 + 4 * i, L!Word(KeyStart(n, i))>> : i \in 1 .. Size(n)}

KeyItems(n) == {<<KeyStart(n, i), L!Entry(KeyStrings(n)[i])>> : i \in 1 .. Size(n)}

ValueItems(n) ==
  {<<KeyStart(n, i + 1) - 4, L!Word(ValueStart(n, i))>> : i \in 1 .. Size(n)}
    \union {<<ValueStart(n, i), L!Entry(n.vals[i])>> : i \in 1 .. Size(n)}

LinkItems(n) == {<<KeyStart(n, i) - 4, L!Word(n.links[i])>> : i \in DOMAIN n.links}

Items(n) ==
  Header(n) \union Slots(n) \union KeyItems(n)
    \union IF IsLeaf(n) THEN ValueItems(n) ELSE LinkItems(n)

Mem(items) ==
  [a \in {x[1] : x \in items} |-> (CHOOSE x \in items : x[1] = a)[2]]

PageOf(n) ==
  IF n = Blank THEN None
  ELSE [kind |-> n.kind, number |-> n.number, mem |-> Mem(Items(n))]

(* The bytes of a node fit in a page, which nothing tests.                     *)
Fits(n) == IF IsLeaf(n) THEN Begining(n) <= Ending(n) ELSE Begining(n) <= L!Room

(* begining is read in inner pages only; ending never is.                      *)
Readable(n) == Fits(n) /\ (IsLeaf(n) \/ Begining(n) < HalfWord)

-------------------------------------------------------------------------------
(* States and guards *)

Pair(p, s, up) == [p |-> p, s |-> s, up |-> up]

Init ==
  \E k \in Keys :
    \/ \E v \in Values :
         /\ pages = Pair(L!CreateRootLeaf(1, Bytes[k], v), None, None)
         /\ nodes = Pair([Blank EXCEPT !.kind = "RootLeaf", !.number = 1,
                                       !.keys = <<k>>, !.vals = <<v>>], Blank, Blank)
    \/ /\ pages = Pair(L!CreateRoot(1, Bytes[k], Child(0), Child(k)), None, None)
       /\ nodes = Pair(CreateRoot(1, k, Child(0), Child(k)), Blank, Blank)

Edit(pp, nn) ==
  /\ \A x \in DOMAIN nodes : Readable(nodes[x])
  /\ pages' = pp /\ nodes' = nn

Alone == nodes.s = Blank

(* b_delete left a page with too few keys; the call is not over.               *)
Underflows(w) == nodes.up # Blank /\ nodes[w] # Blank /\ Size(nodes[w]) < NodesDown

Settled == \A w \in Places : ~Underflows(w)

(* bt_search comes to a page with a key.                                       *)
Reaches(k, w) ==
  /\ nodes[w] # Blank
  /\ nodes.up # Blank => LinkFor(nodes.up, k) = nodes[w].number

(* A key that an inner page may get.                                           *)
NewKey(k, w) ==
  /\ Reaches(k, w) /\ k \notin ToSet(nodes[w].keys)
  /\ IsLeaf(nodes[w]) \/ k \notin ToSet(nodes.up.keys)

Other(w) == IF w = "p" THEN "s" ELSE "p"

(* Numbers that a new page may get.                                            *)
FreeNumber(i) ==
  LET taken == {nodes[x].number : x \in DOMAIN nodes} \union ToSet(nodes.up.links)
      free  == Fresh \ taken
  IN  IF i = 1 THEN Min(free) ELSE Min(free \ {Min(free)})

-------------------------------------------------------------------------------
(* Steps of b_insert *)

InsertNew(w, k, v) ==
  /\ Settled /\ NewKey(k, w) /\ IsLeaf(nodes[w]) /\ Size(nodes[w]) < NodesUp
  /\ Edit([pages EXCEPT ![w] = L!InsertIntoLeaf(@, Bytes[k], v)],
          [nodes EXCEPT ![w] = InsertIntoLeaf(@, k, v)])

(* Mutant of InsertLink: a full page gets one more.                            *)
InsertLinkAnyway(w, k) ==
  /\ Settled /\ NewKey(k, w) /\ ~IsLeaf(nodes[w]) /\ Size(nodes[w]) <= NodesUp
  /\ Edit([pages EXCEPT ![w] = L!InsertIntoIntermediate(@, Bytes[k], Child(k))],
          [nodes EXCEPT ![w] = InsertIntoIntermediate(@, k, Child(k))])

InsertLink(w, k) ==
  /\ Settled /\ NewKey(k, w) /\ ~IsLeaf(nodes[w]) /\ Size(nodes[w]) < NodesUp
  /\ Edit([pages EXCEPT ![w] = L!InsertIntoIntermediate(@, Bytes[k], Child(k))],
          [nodes EXCEPT ![w] = InsertIntoIntermediate(@, k, Child(k))])

InsertExisting(w, k, v) ==
  /\ Settled /\ IsLeaf(nodes[w]) /\ k \in ToSet(nodes[w].keys)
  /\ Edit([pages EXCEPT ![w] = L!InsertSame(@, Bytes[k], v)],
          [nodes EXCEPT ![w] = InsertSame(@, k, v)])

(* A divided root gets a new root as its parent.                               *)
UnderNewRoot(pd, nd, key, k) ==
  LET m == FreeNumber(2) IN
  /\ nodes.up = Blank /\ nodes.p.parent = 0
  /\ Edit(Pair(L!SetParent(pd.p, m), L!SetParent(pd.s, m),
               L!CreateRoot(m, key, pd.p.number, pd.s.number)),
          Pair([nd.p EXCEPT !.parent = m], [nd.s EXCEPT !.parent = m],
               CreateRoot(m, k, nd.p.number, nd.s.number)))

UnderParent(pd, nd, key, k) ==
  /\ nodes.up # Blank /\ Size(nodes.up) < NodesUp
  /\ Edit(Pair(pd.p, pd.s, L!InsertIntoIntermediate(pages.up, key, pd.s.number)),
          Pair(nd.p, nd.s, InsertIntoIntermediate(nodes.up, k, nd.s.number)))

DivideLeafPage(k, v) ==
  LET pd  == L!DivideLeaf(pages.p, Bytes[k], v, FreeNumber(1))
      nd  == DivideLeaf(nodes.p, k, v, FreeNumber(1))
      key == L!KeyAt(pd.s, 0).bytes
  IN  /\ Alone /\ NewKey(k, "p") /\ IsLeaf(nodes.p) /\ Size(nodes.p) = NodesUp
      /\ \/ UnderNewRoot(pd, nd, key, Head(nd.s.keys))
         \/ UnderParent(pd, nd, key, Head(nd.s.keys))

DivideNodePage(k) ==
  LET pd == L!DivideIntermediate(pages.p, Bytes[k], Child(k), FreeNumber(1))
      nd == DivideIntermediate(nodes.p, k, Child(k), FreeNumber(1))
  IN  /\ Alone /\ NewKey(k, "p") /\ ~IsLeaf(nodes.p) /\ Size(nodes.p) = NodesUp
      /\ UnderNewRoot(pd, nd, pd.key, nd.key) \/ UnderParent(pd, nd, pd.key, nd.key)

-------------------------------------------------------------------------------
(* Steps of b_delete *)

(* A page with a sibling may lose one key too many: the sibling helps out.     *)
MayLose(w) ==
  \/ nodes[w].kind = "RootLeaf"
  \/ nodes[w].kind = "Root" /\ Size(nodes[w]) > 1
  \/ nodes.up # Blank /\ Size(nodes[w]) > (IF Alone THEN NodesDown ELSE NodesDown - 1)

DeleteOne(w, i) ==
  /\ Settled /\ MayLose(w) /\ i \in DOMAIN nodes[w].keys
  /\ LET k == nodes[w].keys[i] IN
     IF IsLeaf(nodes[w])
     THEN Edit([pages EXCEPT ![w] = L!DeleteKeyLeaf(@, Bytes[k])],
               [nodes EXCEPT ![w] = DeleteKeyLeaf(@, k)])
     ELSE LET link == nodes[w].links[i] IN
          Edit([pages EXCEPT ![w] = L!DeleteKeyIntermediate(@, link)],
               [nodes EXCEPT ![w] = DeleteKeyIntermediate(@, link)])

Redistribute(w) ==
  LET o    == Other(w)
      leaf == IsLeaf(nodes[w])
      pr == IF leaf THEN L!RedistributeKeysLeaf(pages[w], pages[o], pages.up)
            ELSE L!RedistributeKeysIntermediate(pages[w], pages[o], pages.up)
      nr == IF leaf THEN RedistributeKeysLeaf(nodes[w], nodes[o], nodes.up)
            ELSE RedistributeKeysIntermediate(nodes[w], nodes[o], nodes.up)
  IN  /\ Underflows(w) /\ nodes[o] # Blank /\ Size(nodes[o]) > NodesDown
      /\ Edit([x \in {w, o, "up"} |-> pr[IF x = w THEN 1 ELSE IF x = o THEN 2 ELSE 3]],
              Pair(nr[1], nr[2], nr[3]))

(* The sibling test of the code finds the left page; nodes have theirs in p.   *)
MergePages(w) ==
  LET o  == Other(w)
      lw == IF L!SiblingIsRight(pages[w], pages[o]) THEN w ELSE o
      rw == Other(lw)
      pm == IF IsLeaf(nodes[w]) THEN L!MergeLeaf(pages[lw], pages[rw])
            ELSE L!MergeIntermediate(pages[lw], pages[rw], pages.up)
      nm == IF IsLeaf(nodes[w]) THEN MergeLeaves(nodes.p, nodes.s)
            ELSE MergeNodes(nodes.p, KeyBehind(nodes.up, nodes.p.number), nodes.s)
      kind == IF IsLeaf(nodes[w]) THEN "RootLeaf" ELSE "Root"
  IN  /\ Underflows(w) /\ nodes[o] # Blank /\ Size(nodes[o]) = NodesDown
      /\ IF Size(nodes.up) = 1
         THEN Edit(Pair([pm EXCEPT !.kind = kind], None, None),
                   Pair([nm EXCEPT !.kind = kind], Blank, Blank))
         ELSE Edit(Pair(pm, None, L!DeleteKeyIntermediate(pages.up, pages[lw].number)),
                   Pair(nm, Blank, DeleteKeyIntermediate(nodes.up, nodes.p.number)))

(* Later calls go to one of the two pages, and not to its sibling.             *)
LookAway(w) ==
  /\ ~Alone /\ Settled
  /\ Edit(Pair(pages[w], None, pages.up), Pair(nodes[w], Blank, nodes.up))

InsertOne(k, v) ==
  \/ \E w \in Places : InsertNew(w, k, v) \/ InsertLink(w, k) \/ InsertExisting(w, k, v)
  \/ DivideLeafPage(k, v) \/ DivideNodePage(k)

Next ==
  \/ \E k \in Keys, v \in Values : InsertOne(k, v)
  \/ \E w \in Places :
       \/ \E i \in 1 .. NodesUp : DeleteOne(w, i)
       \/ Redistribute(w) \/ MergePages(w) \/ LookAway(w)

Spec == Init /\ [][Next]_editVars

-------------------------------------------------------------------------------
(* Properties *)

(* The keys and the values of the three pages have room.  Only then is it known *)
(* what a step makes of any of them: the key that goes from one page to another *)
(* is read from a page that may already be too full.                           *)
AllFit == \A x \in DOMAIN nodes : Fits(nodes[x])

TypeOK ==
  /\ DOMAIN pages = Places \union {"up"}
  /\ nodes \in [Places \union {"up"} -> Node]
  /\ \A x \in DOMAIN nodes :
       nodes[x] # Blank => Shape(nodes[x]) /\ Size(nodes[x]) <= NodesUp

(* A page whose keys lie between l and h, the children below it each behind    *)
(* the key they were made with.                                                *)
PageInOrder(n, l, h) ==
  /\ Shape(n) /\ Ordered(n, l, h)
  /\ n.kind \in Interiors => \A i \in 0 .. Size(n) : n.links[i + 1] = Child(Fence(n, l, h, i))

(* More than any key, and what lies between the links of the parent.           *)
KeysEnd == Len(Bytes) + 1
UpFence(up, i) == Fence(up, 0, KeysEnd, i)

(* A large enough page below link u of the parent.                             *)
BelowInOrder(n, up, u) ==
  /\ u \in 1 .. Size(up) + 1 /\ up.links[u] = n.number
  /\ n.kind \in {"Leaf", "Intermediate"} /\ Size(n) >= NodesDown - 1
  /\ PageInOrder(n, UpFence(up, u - 1), UpFence(up, u))

NeighboursInOrder(p, s, up) ==
  IF up = Blank
  THEN /\ s = Blank /\ p.kind \in {"RootLeaf", "Root"} /\ PageInOrder(p, 0, KeysEnd)
       /\ p.kind = "Root" => Size(p) >= 1
  ELSE /\ up.kind = "Root" /\ Size(up) >= 1
       /\ Ordered(up, 0, KeysEnd) /\ IsInjective(up.links)
       /\ \E u \in 1 .. Size(up) + 1 :
            /\ BelowInOrder(p, up, u)
            /\ s # Blank => /\ BelowInOrder(s, up, u + 1)
                            /\ s.kind = p.kind /\ s.parent = p.parent

(* The pages are what a tree has at two neighbours and their parent: the keys  *)
(* ascend across the pages, the sibling is the right one, no page has two      *)
(* links in the parent, and a root with links has a key.                       *)
InOrder == NeighboursInOrder(nodes.p, nodes.s, nodes.up)

(* Whatever edits a page has gone through, its bytes are laid out as if its    *)
(* keys had been written into a new page in their order: the loops of b-tree.c *)
(* do on bytes what BTree does on nodes, and leave no gap and no stray byte.   *)
(* This holds as long as keys and values fit in the pages.                     *)
Canonical == AllFit => \A x \in DOMAIN nodes : pages[x] = PageOf(nodes[x])

(* What a key and its value may have between them, in bytes, if a page is to   *)
(* take as many of them as the tree puts there.                                *)
EntryRoom == (L!Room - 12) \div NodesUp - 16

(* No key is longer than some part of that, and no value than the rest.        *)
AllSmall ==
  \E k \in 0 .. EntryRoom : \A x \in DOMAIN nodes :
    /\ \A i \in DOMAIN nodes[x].keys : Len(KeyStrings(nodes[x])[i]) <= k
    /\ \A i \in DOMAIN nodes[x].vals : Len(nodes[x].vals[i]) <= EntryRoom - k

(* Nothing in a page ends behind it, and the offsets that a leaf stores lead to*)
(* values behind all its keys.                                                 *)
HasRoom(pg) ==
  /\ \A a \in DOMAIN pg.mem : a + pg.mem[a].len <= L!Room
  /\ pg.kind \in Leaves =>
       \A i, j \in L!Indexes(pg) :
         L!KeyOffset(pg, i) + L!KeyAt(pg, i).len + 4 <= L!LinkAfter(pg, j)

(* The code tests how many keys a page has, and never how many bytes.  That is *)
(* enough while keys and values are small: whatever is divided, moved or merged*)
(* next, no page is filled beyond its end, and no value reaches the keys.      *)
SmallEntriesFit ==
  AllSmall => AllFit /\ \A x \in DOMAIN nodes : HasRoom(pages[x])

(* Every read of a page that the code has finds in the bytes what BTree finds  *)
(* in the node, in a leaf of any size, and in an inner page as long as its     *)
(* keys end below 2^16: bt_search and find_links take the last link from a     *)
(* field of 16 bits.                                                           *)
ReadsBack ==
  AllFit => \A x \in DOMAIN nodes : Readable(nodes[x]) =>
    LET n == nodes[x]
        pg == pages[x]
    IN  /\ \A k \in Keys : L!FindPos(pg, Bytes[k]) = FindPos(n, k)
        /\ IsLeaf(n) =>
             \A k \in Keys :
               L!Select(pg, Bytes[k]) =
                 LET i == SelectInSeq(n.keys, LAMBDA y : y = k)
                 IN  IF i = 0 THEN <<>> ELSE <<n.vals[i]>>
        /\ n.kind \in Interiors =>
             /\ L!FindLinks(pg) = n.links
             /\ \A k \in Keys : L!LinkFor(pg, Bytes[k]) = LinkFor(n, k)
=============================================================================
