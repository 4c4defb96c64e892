-------------------------------- MODULE BTree --------------------------------
(***************************************************************************)
(* The B+ tree of b-tree.c: b_insert and b_delete over pages that are read *)
(* and written through the page cache (here: page, the memory PageCache is *)
(* shown to be) and numbers from the page index (here: used, the allocator *)
(* PageIndex is shown to be).  b_select changes nothing: it is ValueIn.    *)
(*                                                                         *)
(* A node is the contents of one page, see BTreeNode.  The recursions that *)
(* climb the tree, of divide_intermediate_process and handle_intermediate, *)
(* take one step per level, with the pending activation in call.           *)
(***************************************************************************)
EXTENDS BTreeNode, FiniteSets

ASSUME BTreeAssumption == IsFiniteSet(Keys) /\ IsFiniteSet(PageNums)

VARIABLES
  page,     \* page memory; page[0] is the meta page
  root,     \* the page db->root points to
  buffer,   \* the memory it points to: "null", "wild", "live", "freed"
  meta,     \* root number in the page db->meta points to
  used,     \* numbers marked in the page index
  call,     \* activation of a climbing recursion
  kv,       \* history: the map the calls so far describe
  proc      \* "running", or what the process has run into

vars == <<page, root, buffer, meta, used, call, kv, proc>>

MetaPage(n) == [Blank EXCEPT !.kind = "Meta", !.links = <<n>>]

Idle == [op |-> "none", node |-> Blank, key |-> 0, link |-> 0]

-------------------------------------------------------------------------------
(* Pages *)

(* Not of the code: a bound on the levels of a tree of so many pages, since    *)
(* inner pages have at least two children.                                     *)
Pow2[h \in Nat] == IF h = 0 THEN 1 ELSE 2 * Pow2[h - 1]

Levels ==
  CHOOSE h \in 0 .. Cardinality(PageNums) :
    Pow2[h] <= Cardinality(PageNums) + 1 /\ Cardinality(PageNums) + 1 < Pow2[h + 1]

(* bt_search: down from db->root, a page read per level, until a leaf.         *)
Descent(pg, rt, k) ==
  LET at[h \in 0 .. Levels] ==
        IF h = 0 THEN rt
        ELSE LET n == at[h - 1]
             IN  IF n.kind \in Interiors THEN pg[LinkFor(n, k)] ELSE n
  IN  at

Search(pg, rt, k) == Descent(pg, rt, k)[Levels]

(* The sibling with more keys; the left one of two equals.                   *)
FindSibling(pg, parent, m) ==
  LET i == SelectInSeq(parent.links, LAMBDA x : x = m)
      L == parent.links[i - 1]
      R == parent.links[i + 1]
  IN  IF i = 1 THEN R
      ELSE IF i = Len(parent.links) THEN L
      ELSE IF Size(pg[R]) > Size(pg[L]) THEN R ELSE L

-------------------------------------------------------------------------------
(* Page memory and page index *)

(* write_page of a sequence of pages, one after the other.                   *)
Written(pg, nodes) ==
  [n \in DOMAIN pg |->
     LET i == SelectLastInSeq(nodes, LAMBDA x : x.number = n)
     IN  IF i = 0 THEN pg[n] ELSE nodes[i]]

(* Mutant of WriteParents: the child behind the last key is forgotten.       *)
ParentsWrittenButLast(pg, node) ==
  [n \in DOMAIN pg |->
     IF n \in ToSet(Front(node.links)) THEN [pg[n] EXCEPT !.parent = node.number]
     ELSE pg[n]]

(* Makes the children of a node point to it.                                 *)
WriteParents(pg, node) ==
  [n \in DOMAIN pg |->
     IF n \in ToSet(node.links) THEN [pg[n] EXCEPT !.parent = node.number]
     ELSE pg[n]]

(* Mutant of FindFree: numbers given back are not used again.                *)
FindFreeBehind(U) == IF U = {} THEN Min(PageNums) ELSE Max(U) + 1

(* find_free_index: the lowest number, or 0 when none is left.               *)
FindFree(U) == IF U = PageNums THEN 0 ELSE Min(PageNums \ U)

Marked(U) == IF U = PageNums THEN U ELSE U \union {FindFree(U)}

-------------------------------------------------------------------------------
(* Calls *)

Map == INSTANCE KVStore WITH store <- kv

ContentsOf(pg, rt) == [k \in Keys |-> ValueIn(Search(pg, rt, k), k)]

(* A call finds a root it can use.                                           *)
Called == proc = "running" /\ call = Idle /\ buffer = "live"

(* The leaf of a key, with the parent it names.                              *)
Leaf(k) == Search(page, root, k)

Full(n) == Size(n) = NodesUp

Present(k) == k \in ToSet(Leaf(k).keys)

IsRoot(n) == n.number = root.number

(* A root that once had a parent keeps its number, see merge_leaf.           *)
Orphaned(n) == IsRoot(n) /\ n.parent # 0

(* Not of the code, which goes on: what a step that allocated the numbers in S *)
(* for a split of n has run into.  Number 0 is the meta page, and the parent   *)
(* of an orphan is a freed page.                                               *)
After(n, S) ==
  IF 0 \in S THEN "indexFull" ELSE IF Orphaned(n) THEN "stalePage" ELSE "running"

(* Mutant of RootAfter: db->root is not refreshed.                           *)
RootBefore(n) == root

(* memcpy to db->root when the page written last is the root.                *)
RootAfter(n) == IF n.kind = "Root" THEN n ELSE root

(* The pages of a new file.                                                   *)
NewPages == [n \in PageNums \union {0} |-> IF n = 0 THEN MetaPage(0) ELSE Blank]

(* dbopen of a file that is not there.  It leaves db->root as malloc left it. *)
Init ==
  /\ page = NewPages
  /\ root = Blank
  /\ buffer \in {"null", "wild"}
  /\ meta = 0
  /\ used = {}
  /\ call = Idle
  /\ kv = [k \in Keys |-> Absent]
  /\ proc = "running"

(* create_root_leaf                                                          *)
InsertFirst(k, v) ==
  LET m == FindFree(used) IN
  /\ proc = "running" /\ call = Idle /\ buffer = "null"
  /\ root' = [Blank EXCEPT !.kind = "RootLeaf", !.number = m,
                           !.keys = <<k>>, !.vals = <<v>>]
  /\ meta' = m
  /\ page' = Written(page, <<root', MetaPage(m)>>)
  /\ used' = Marked(used)
  /\ buffer' = "live"
  /\ proc' = IF m = 0 THEN "indexFull" ELSE "running"
  /\ Map!Put(k, v)
  /\ UNCHANGED call

(* insert_same frees the page it replaces; for a root leaf that is the page   *)
(* at db->root, into which the new one is then copied.                        *)
InsertExisting(k, v) ==
  LET p == InsertSame(Leaf(k), k, v) IN
  /\ Called /\ Present(k)
  /\ page' = Written(page, <<p>>)
  /\ IF p.kind = "RootLeaf"
     THEN root' = p /\ buffer' = "freed"
     ELSE UNCHANGED <<root, buffer>>
  /\ Map!Put(k, v)
  /\ UNCHANGED <<meta, used, call, proc>>

InsertWithRoom(k, v) ==
  LET p == InsertIntoLeaf(Leaf(k), k, v) IN
  /\ Called /\ ~Present(k) /\ ~Full(Leaf(k))
  /\ page' = Written(page, <<p>>)
  /\ root' = IF IsRoot(p) THEN p ELSE root
  /\ Map!Put(k, v)
  /\ UNCHANGED <<buffer, meta, used, call, proc>>

NeedsSplit(k) == Called /\ ~Present(k) /\ Full(Leaf(k))

(* The root leaf is full: two leaves under a new root.                        *)
InsertSplittingRootLeaf(k, v) ==
  LET m == FindFree(used)
      r == FindFree(Marked(used))
      d == DivideLeaf(Leaf(k), k, v, m)
      p == [d.p EXCEPT !.parent = r]
      s == [d.s EXCEPT !.parent = r]
  IN
  /\ NeedsSplit(k) /\ Leaf(k).parent = 0
  /\ root' = CreateRoot(r, Head(s.keys), p.number, m)
  /\ meta' = r
  /\ page' = Written(page, <<p, s, root', MetaPage(r)>>)
  /\ used' = Marked(Marked(used))
  /\ proc' = After(Leaf(k), {m, r})
  /\ Map!Put(k, v)
  /\ UNCHANGED <<buffer, call>>

(* The parent takes the new leaf.  When the leaf is an orphan, divide_leaf    *)
(* frees the page at db->root, into which its supposed parent is then copied. *)
InsertSplittingLeaf(k, v) ==
  LET p      == Leaf(k)
      m      == FindFree(used)
      d      == DivideLeaf(p, k, v, m)
      parent == InsertIntoIntermediate(page[p.parent], Head(d.s.keys), m)
  IN
  /\ NeedsSplit(k) /\ p.parent # 0 /\ ~Full(page[p.parent])
  /\ page' = Written(page, <<d.p, d.s, parent>>)
  /\ root' = RootAfter(parent)
  /\ buffer' = IF IsRoot(p) THEN "freed" ELSE buffer
  /\ used' = Marked(used)
  /\ proc' = After(p, {m})
  /\ Map!Put(k, v)
  /\ UNCHANGED <<meta, call>>

(* The parent is full, too: divide_intermediate_process takes over.           *)
InsertSplittingDeep(k, v) ==
  LET p == Leaf(k)
      m == FindFree(used)
      d == DivideLeaf(p, k, v, m)
  IN
  /\ NeedsSplit(k) /\ p.parent # 0 /\ Full(page[p.parent])
  /\ page' = Written(page, <<d.p, d.s>>)
  /\ used' = Marked(used)
  /\ call' = [op |-> "split", node |-> page[p.parent],
              key |-> Head(d.s.keys), link |-> m]
  /\ proc' = After(p, {m})
  /\ Map!Put(k, v)
  /\ UNCHANGED <<root, buffer, meta>>

Pending(op) == proc = "running" /\ call.op = op

(* Mutant of SplitOf: the node is linked in place of the new page.             *)
SplitOfSelf(m) == DivideIntermediate(call.node, call.key, call.node.number, m)

SplitOf(m) == DivideIntermediate(call.node, call.key, call.link, m)

(* The pages with the two halves, before the parent is read.                   *)
SplitWritten(m) ==
  LET d == SplitOf(m) IN Written(WriteParents(page, d.s), <<d.p, d.s>>)

(* divide_intermediate_process below the root: divide the pending node, then  *)
(* insert into its parent or, when that is full, divide the parent in turn.   *)
(* The page an orphan names as its parent may be of any kind by now, and      *)
(* only its number of keys is looked at.  What an insertion makes of the      *)
(* bytes of another kind of page is no node: that page is left as it is here. *)
SplitNode ==
  LET m      == FindFree(used)
      d      == SplitOf(m)
      pg     == SplitWritten(m)
      parent == pg[d.p.parent]
      taken  == IF parent.kind \in Interiors
                THEN InsertIntoIntermediate(parent, d.key, m) ELSE parent
  IN
  /\ Pending("split") /\ call.node.parent # 0
  /\ used' = Marked(used)
  /\ IF ~Full(parent)
     THEN /\ page' = Written(pg, <<taken>>)
          /\ root' = RootAfter(taken)
          /\ call' = Idle
     ELSE /\ page' = pg
          /\ call' = [op |-> "split", node |-> parent, key |-> d.key, link |-> m]
          /\ UNCHANGED root
  /\ proc' = After(call.node, {m})
  /\ UNCHANGED <<buffer, meta, kv>>

(* ... and of the root.  b_insert then writes the meta page as it was.        *)
SplitRoot ==
  LET m == FindFree(used)
      r == FindFree(Marked(used))
      d == SplitOf(m)
      p == [d.p EXCEPT !.parent = r]
      s == [d.s EXCEPT !.parent = r]
  IN
  /\ Pending("split") /\ call.node.parent = 0
  /\ root' = CreateRoot(r, d.key, p.number, m)
  /\ page' = Written(WriteParents(page, s), <<p, s, root', MetaPage(meta)>>)
  /\ used' = Marked(Marked(used))
  /\ call' = Idle
  /\ proc' = After(call.node, {m, r})
  /\ UNCHANGED <<buffer, meta, kv>>

(* A key that is not there: b_delete returns 0 and changes nothing.           *)
DeleteFromLeaf(k) ==
  LET p == DeleteKeyLeaf(Leaf(k), k) IN
  /\ Called /\ Present(k)
  /\ Size(Leaf(k)) > NodesDown \/ p.kind = "RootLeaf"
  /\ page' = Written(page, <<p>>)
  /\ IF p.kind = "RootLeaf"
     THEN root' = p /\ buffer' = "freed"
     ELSE UNCHANGED <<root, buffer>>
  /\ Map!Remove(k)
  /\ UNCHANGED <<meta, used, call, proc>>

ParentOf(n) == page[n.parent]

(* Mutant of Lends: off by one.                                               *)
LendsLess(s) == Size(s) > NodesDown + 1

(* The sibling can give keys away and stay half full.                         *)
Lends(s) == Size(s) > NodesDown

SiblingOf(n) == page[FindSibling(page, ParentOf(n), n.number)]

Underflows(k) ==
  Called /\ Present(k) /\ Size(Leaf(k)) = NodesDown /\ Leaf(k).kind = "Leaf"

DeleteRedistributing(k) ==
  LET s == SiblingOf(Leaf(k))
      p == DeleteKeyLeaf(Leaf(k), k)
      q == RedistributeKeysLeaf(p, s, ParentOf(p))
  IN
  /\ Underflows(k) /\ Lends(s)
  /\ page' = Written(page, q)
  /\ root' = RootAfter(q[3])
  /\ Map!Remove(k)
  /\ UNCHANGED <<buffer, meta, used, call, proc>>

(* Mutants of Released: the parent that goes stays marked, or the page that is *)
(* merged into its sibling does unless the parent goes.                        *)
ReleasedPage(ms, parent) == {ms.number}

ReleasedWithParent(ms, parent) ==
  IF Size(parent) = 1 THEN {ms.number, parent.number} ELSE {}

(* free_index of the page merged away, and of a parent with no child left.     *)
Released(ms, parent) ==
  {ms.number} \union IF Size(parent) = 1 THEN {parent.number} ELSE {}

(* The end of merge_leaf and merge_intermediate: mp holds the keys of both     *)
(* pages and replaces an only child's parent, or the parent loses a key and    *)
(* may underflow in turn, its new contents not written yet.                    *)
Merged(pg, mp, ms, parent, rootKind) ==
  LET less == DeleteKeyIntermediate(parent, mp.number)
      top  == [mp EXCEPT !.kind = rootKind]
  IN
  /\ used' = used \ Released(ms, parent)
  /\ \/ /\ Size(parent) = 1
        /\ root' = top
        /\ page' = Written(pg, <<top>>)
        /\ call' = Idle
     \/ /\ Size(parent) # 1
        /\ Size(parent) > NodesDown \/ parent.kind = "Root"
        /\ root' = RootAfter(less)
        /\ page' = Written(pg, <<mp, less>>)
        /\ call' = Idle
     \/ /\ Size(parent) # 1
        /\ Size(parent) <= NodesDown /\ parent.kind # "Root"
        /\ page' = Written(pg, <<mp>>)
        /\ call' = [Idle EXCEPT !.op = "underflow", !.node = less]
        /\ UNCHANGED root

(* The keys of both pages in the left one.                                     *)
MergedLeaves(n, s) == MergeLeaves(Inorder(n, s)[1], Inorder(n, s)[2])

MergedNodes(n, s) ==
  LET o == Inorder(n, s)
  IN  MergeNodes(o[1], KeyBehind(ParentOf(n), o[1].number), o[2])

DeleteMerging(k) ==
  LET s  == SiblingOf(Leaf(k))
      n  == DeleteKeyLeaf(Leaf(k), k)
      o  == Inorder(n, s)
      mp == MergedLeaves(n, s)
  IN
  /\ Underflows(k) /\ Size(s) = NodesDown
  /\ Merged(page, mp, o[2], ParentOf(Leaf(k)), "RootLeaf")
  /\ Map!Remove(k)
  /\ UNCHANGED <<buffer, meta, proc>>

(* The page of a redistribution that got keys and links.                       *)
Receiver(q, n) == IF q[1].number = n.number THEN q[1] ELSE q[2]

(* handle_intermediate: a node that underflows and its sibling, even again.    *)
SharedNodes(n) == RedistributeKeysIntermediate(n, SiblingOf(n), ParentOf(n))

RedistributeNode ==
  LET q == SharedNodes(call.node)
      p == Receiver(q, call.node)
  IN
  /\ Pending("underflow") /\ Lends(SiblingOf(call.node))
  /\ page' = Written(WriteParents(page, p), q)
  /\ root' = RootAfter(q[3])
  /\ call' = Idle
  /\ UNCHANGED <<buffer, meta, used, kv, proc>>

MergeNode ==
  LET s  == SiblingOf(call.node)
      o  == Inorder(call.node, s)
      mp == MergedNodes(call.node, s)
  IN
  /\ Pending("underflow") /\ Size(s) = NodesDown
  /\ Merged(WriteParents(page, mp), mp, o[2], ParentOf(call.node), "Root")
  /\ UNCHANGED <<buffer, meta, kv, proc>>

(* db_close and dbopen, of a cache that has written every page to the file:    *)
(* one that holds a single page and wrote that one without having read it.     *)
(* What a close loses besides is a matter of Session.                          *)
Reopen ==
  LET m == Head(page[0].links) IN
  /\ proc = "running" /\ call = Idle
  /\ meta' = m
  /\ root' = IF m = 0 THEN Blank ELSE page[m]
  /\ buffer' \in IF m = 0 THEN {"null", "wild"} ELSE {"live"}
  /\ proc' = IF m = root.number THEN "running" ELSE "staleRoot"
  /\ UNCHANGED <<page, used, call, kv>>

(* A call through a root that is no object: freed, or never set.               *)
Undefined ==
  /\ proc = "running" /\ call = Idle /\ buffer \in {"wild", "freed"}
  /\ proc' = "undefined"
  /\ UNCHANGED <<page, root, buffer, meta, used, call, kv>>

Insert(k, v) ==
  \/ InsertFirst(k, v) \/ InsertExisting(k, v) \/ InsertWithRoom(k, v)
  \/ InsertSplittingRootLeaf(k, v) \/ InsertSplittingLeaf(k, v)
  \/ InsertSplittingDeep(k, v)

Delete(k) == DeleteFromLeaf(k) \/ DeleteRedistributing(k) \/ DeleteMerging(k)

Climb == SplitNode \/ SplitRoot \/ RedistributeNode \/ MergeNode

Next ==
  \/ \E k \in Keys : Delete(k) \/ \E v \in Values : Insert(k, v)
  \/ Climb \/ Reopen \/ Undefined

(* A call runs to its end: the library is single-threaded.                     *)
Spec == Init /\ [][Next]_vars /\ WF_vars(Climb)

-------------------------------------------------------------------------------
(* Properties *)

TypeOK ==
  /\ page \in [Numbers -> Node]
  /\ root \in Node
  /\ buffer \in {"null", "wild", "live", "freed"}
  /\ meta \in Numbers
  /\ used \subseteq PageNums
  /\ call \in [op : {"none", "split", "underflow"}, node : Node,
               key : Keys \union {0}, link : Numbers]
  /\ kv \in [Keys -> Values \union {Absent}]
  /\ proc \in {"running", "undefined", "indexFull", "stalePage", "staleRoot"}

(* The pages as they will be: a pending node with what it waits to take up.    *)
PendingNode ==
  IF call.op = "split"
  THEN InsertIntoIntermediate(call.node, call.key, call.link)
  ELSE call.node

View ==
  [n \in Numbers |->
     IF call # Idle /\ n = call.node.number THEN PendingNode ELSE page[n]]

RootView ==
  IF call # Idle /\ call.node.number = root.number THEN PendingNode ELSE root

(* A search finds the latest value inserted for each key and no deleted key,   *)
(* after every call and, with what a pending split or merge has in hand, at    *)
(* every step of one: no split, redistribution, merge or collapse loses a key, *)
(* keeps a deleted one or strands one where bt_search does not pass.           *)
ContentsKept == proc = "running" => ContentsOf(View, RootView) = kv

(* The tree in the pages V, level by level, as a set of frames: a page and the *)
(* bounds that a search has established when it comes to it.                   *)
Settled == proc = "running" /\ call = Idle /\ buffer \in {"live", "freed"}

Below(V, f) ==
  LET n == V[f[1]] IN
  {<<n.links[i], IF i = 1 THEN f[2] ELSE n.keys[i - 1],
     IF i = Len(n.links) THEN f[3] ELSE n.keys[i]>> : i \in DOMAIN n.links}

Level(V) ==
  LET at[h \in 0 .. Levels] ==
        IF h = 0 THEN {<<root.number, 0, Max(Keys) + 1>>}
        ELSE UNION {Below(V, f) : f \in at[h - 1]}
  IN  at

Frames(V) == UNION {Level(V)[h] : h \in 0 .. Levels}

(* The keys of a page ascend within the bounds of its frame, which is what     *)
(* find_pos and the comparisons of the last and first keys of siblings rely on.*)
SearchOrder ==
  Settled =>
    \A f \in Frames(page) :
      LET n == page[f[1]] IN
      \A i \in 1 .. Size(n) :
        f[2] <= n.keys[i] /\ n.keys[i] < (IF i = Size(n) THEN f[3] ELSE n.keys[i + 1])

(* Every child names the page that links to it as its parent, across splits    *)
(* and merges that move children: b_insert and b_delete climb by these numbers.*)
ParentLinks ==
  Settled => \A f \in Frames(page) : \A g \in Below(page, f) : page[g[1]].parent = f[1]

(* All pages but the root are at least half full, none is over-full, and an    *)
(* inner page has one link more than keys.  The root has a key unless it is a  *)
(* leaf.  The code tests for exactly these sizes and returns -1 on others.     *)
Occupancy ==
  Settled =>
    \A f \in Frames(page) :
      LET n == page[f[1]]
          least == IF n.kind = "RootLeaf" THEN 0
                   ELSE IF n.kind = "Root" THEN 1 ELSE NodesDown
      IN  /\ Size(n) \in least .. NodesUp
          /\ n.number = f[1]
          /\ (n.kind \in {"Root", "RootLeaf"}) = IsRoot(n)
          /\ IF n.kind \in Leaves
             THEN Len(n.vals) = Size(n) /\ n.links = <<>>
             ELSE Len(n.links) = Size(n) + 1 /\ n.vals = <<>>

(* All leaves are on one level.                                                *)
Balanced ==
  Settled =>
    \A h \in 0 .. Levels : \A f, g \in Level(page)[h] :
      (page[f[1]].kind \in Leaves) = (page[g[1]].kind \in Leaves)

(* db->root, which searches start from, is the page they would read.           *)
RootCopy == Settled => root = page[root.number]

(* The page index marks the pages of the tree and no other: none leaks, none   *)
(* is free while the tree uses it, and no page is linked twice.                *)
IndexExact ==
  Settled => /\ used = {f[1] : f \in Frames(page)}
             /\ Cardinality(used) = Cardinality(Frames(page))

(* What searches find, as long as the process runs.                            *)
Found == IF proc = "running" THEN ContentsOf(View, RootView) ELSE kv

(* The tree implements the map: the first step of a call puts or removes one   *)
(* key.  A climb that follows changes no key at all: a node that is divided,   *)
(* merged or redistributed for it loses none of its own.                       *)
Store == INSTANCE KVStore WITH store <- Found

RefinesMap == Store!StoreSpec /\ [][call # Idle => UNCHANGED Found]_vars

(* A split or merge that climbs comes to an end: each level is nearer the root.*)
CallReturns == call # Idle ~> call = Idle \/ proc # "running"

(* mydb.h:27, of db_insert: "Returns 0 on OK, -1 on Error".  b_insert returns 0 *)
(* here; all keys should be found.  The root that is split is one that an      *)
(* earlier merge left with the number of its freed parent ...                  *)
SplitAfterCollapseKeepsContents ==
  [][proc' = "stalePage" => ContentsOf(page', root') = kv']_vars

(* ... or the page index is full, and the new pages take the number 0.         *)
FullIndexKeepsContents ==
  [][proc' = "indexFull" => ContentsOf(page', root') = kv']_vars

(* README.md:3: "A brand new update allows deletion!"  A deletion leaves the    *)
(* process with a root that the next call can use.                             *)
DeletionAllowed ==
  [][\A k \in Keys : kv[k] # Absent /\ kv'[k] = Absent => buffer' # "freed"]_vars
==============================================================================
