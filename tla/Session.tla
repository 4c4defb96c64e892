------------------------------- MODULE Session -------------------------------
(***************************************************************************)
(* A process with a database open, from dbopen to its end: the tree of     *)
(* BTree, its page accesses one by one through the cache of PageCache, the *)
(* file behind it, and what a process that opens the file again finds.     *)
(*                                                                         *)
(* A step of BTree comes first and leaves in todo the calls of read_page   *)
(* and write_page that it makes; these follow, one per step, before the    *)
(* tree goes on.  A read names the page that the step of the tree took to  *)
(* be there.  Page 1 is the one index page, a bitmap of the numbers used.  *)
(***************************************************************************)
EXTENDS BTree

CONSTANTS CacheSize, Zeroes, Hole

VARIABLES
  slot, disk, out,   \* the cache and the file, see PageCache
  todo,     \* page accesses of the current call that are still to come
  plain,    \* history: a new file, no sync so far and no page evicted
  saved,    \* history: the map that a sync has left in the file, {} if unknown
  twice     \* history: a page in use was handed out again

cacheVars == <<slot, disk, out>>
sessionVars == <<vars, cacheVars, todo, plain, saved, twice>>

Index(U) == [kind |-> "Index", used |-> U]

FileNums == PageNums \union {0, 1}

Images == Node \union [kind : {"Index"}, used : SUBSET PageNums] \union {Zeroes}

ASSUME SessionAssumption ==
  1 \notin PageNums /\ CacheSize \in Nat \ {0} /\ Hole \notin Images

C == INSTANCE PageCache WITH Offsets <- FileNums, Contents <- Images, Faults <- {}

FreshSlots ==
  [i \in C!Slots |-> [alive |-> FALSE, dirty |-> FALSE, offset |-> 0, power |-> 0,
                      data |-> Zeroes]]

(* dbopen writes the pages of a new file past the cache.  The process does not *)
(* end before it has written them all: without the meta page, which is the     *)
(* last, the file can never be opened.                                         *)
SessionInit ==
  /\ Init
  /\ slot = FreshSlots
  /\ disk = [n \in FileNums |-> IF n = 0 THEN MetaPage(0)
                                ELSE IF n = 1 THEN Index({}) ELSE Hole]
  /\ out = C!Answer("none", 0, 0, Hole)
  /\ todo = <<>>
  /\ plain = TRUE
  /\ saved = {kv}
  /\ twice = FALSE

-------------------------------------------------------------------------------
(* The accesses of a step of the tree, from its states before and after *)

Access(op, n, img) == [op |-> op, at |-> n, img |-> img]

Read(pg, n) == Access("read", n, pg[n])

Write(pg, n) == Access("write", n, pg[n])

Writes(pg, ns) == [i \in DOMAIN ns |-> Write(pg, ns[i])]

(* bt_search reads every page below the root.                                  *)
Path(k) ==
  LET at    == Descent(page, root, k)
      below == {h \in 1 .. Levels : at[h - 1].kind \in Interiors}
  IN  [h \in 1 .. Cardinality(below) |-> Read(page, at[h].number)]

(* Mutant of Alloc: the marked bitmap is not written.                          *)
AllocUnwritten(U) == <<Access("read", 1, Index(U))>>

(* find_free_index                                                             *)
Alloc(U) ==
  <<Access("read", 1, Index(U))>>
    \o IF U = PageNums THEN <<>> ELSE <<Access("write", 1, Index(Marked(U)))>>

(* free_index                                                                  *)
Free(U, n) ==
  <<Access("read", 1, Index(U)), Access("write", 1, Index(U \ {n}))>>

(* write_parents reads and writes each child.                                  *)
Parents(node) ==
  [i \in 1 .. 2 * Len(node.links) |->
     LET c == node.links[(i + 1) \div 2]
     IN  IF i % 2 = 1 THEN Read(page, c)
         ELSE Access("write", c, [page[c] EXCEPT !.parent = node.number])]

(* The parent, its children next to n, the left one first, and the sibling.    *)
ReadSiblings(n) ==
  LET links == ParentOf(n).links
      i     == SelectInSeq(links, LAMBDA x : x = n.number)
  IN  <<Read(page, n.parent)>>
        \o (IF i > 1 THEN <<Read(page, links[i - 1])>> ELSE <<>>)
        \o (IF i < Len(links) THEN <<Read(page, links[i + 1])>> ELSE <<>>)
        \o <<Read(page, FindSibling(page, ParentOf(n), n.number))>>

(* The numbers of two siblings, the left one first.                            *)
LeftOf(n, s) == Inorder(n, s)[1].number
RightOf(n, s) == Inorder(n, s)[2].number

(* The merged page is written under its old kind first.                        *)
MergedPage(mp) == Access("write", mp.number, mp)

(* The end of a merge of n: the merged page again, as the root, and its parent *)
(* given back, or the parent, unless that underflows and the climb goes on.    *)
AfterMerge(n, s) ==
  IF Size(ParentOf(n)) = 1
  THEN <<Write(page', LeftOf(n, s))>> \o Free(used \ {RightOf(n, s)}, n.parent)
  ELSE IF call' = Idle THEN <<Write(page', n.parent)>> ELSE <<>>

-------------------------------------------------------------------------------
(* Calls *)

InsertStep(k, v) ==
  \/ /\ InsertFirst(k, v)
     /\ todo' = Alloc(used) \o Writes(page', <<FindFree(used), 0>>)
  \/ /\ InsertExisting(k, v) \/ InsertWithRoom(k, v)
     /\ todo' = Path(k) \o Writes(page', <<Leaf(k).number>>)
  \/ /\ InsertSplittingRootLeaf(k, v)
     /\ todo' = Path(k) \o Alloc(used) \o Alloc(Marked(used))
                  \o Writes(page', <<Leaf(k).number, FindFree(used),
                                     FindFree(Marked(used)), 0>>)
  \/ /\ InsertSplittingLeaf(k, v)
     /\ todo' = Path(k) \o <<Read(page, Leaf(k).parent)>> \o Alloc(used)
                  \o Writes(page', <<Leaf(k).number, FindFree(used), Leaf(k).parent>>)
  \/ /\ InsertSplittingDeep(k, v)
     /\ todo' = Path(k) \o <<Read(page, Leaf(k).parent)>> \o Alloc(used)
                  \o Writes(page', <<Leaf(k).number, FindFree(used)>>)

DeleteStep(k) ==
  LET n == Leaf(k)
      s == SiblingOf(n)
      m == DeleteKeyLeaf(n, k)
  IN
  \/ /\ DeleteFromLeaf(k)
     /\ todo' = Path(k) \o Writes(page', <<n.number>>)
  \/ /\ DeleteRedistributing(k)
     /\ todo' = Path(k) \o ReadSiblings(n) \o Writes(page', <<n.number, s.number, n.parent>>)
  \/ /\ DeleteMerging(k)
     /\ todo' = Path(k) \o ReadSiblings(n) \o Free(used, RightOf(m, s))
                  \o <<MergedPage(MergedLeaves(m, s))>> \o AfterMerge(m, s)

(* The halves are written before the parent is read, which is the new page when*)
(* an orphan's parent was free.  The meta page is written by b_insert, when the*)
(* recursion has returned.                                                     *)
SplitAccesses ==
  LET n  == call.node
      m  == FindFree(used)
      pg == SplitWritten(m)
  IN  Alloc(used) \o Parents(SplitOf(m).s) \o Writes(pg, <<n.number, m>>)
        \o <<Read(pg, n.parent)>>
        \o IF call' = Idle THEN Writes(page', <<n.parent, 0>>) ELSE <<>>

ClimbStep ==
  LET n == call.node
      m == FindFree(used)
      s == SiblingOf(n)
  IN
  \/ /\ SplitNode
     /\ todo' = SplitAccesses
  \/ /\ SplitRoot
     /\ todo' = Alloc(used) \o Parents(SplitOf(m).s) \o Alloc(Marked(used))
                  \o Writes(page', <<n.number, m, FindFree(Marked(used)), 0>>)
  \/ /\ RedistributeNode
     /\ todo' = ReadSiblings(n) \o Parents(Receiver(SharedNodes(n), n))
                  \o Writes(page', <<n.number, s.number, n.parent>>)
  \/ /\ MergeNode
     /\ todo' = ReadSiblings(n) \o Free(used, RightOf(n, s)) \o Parents(MergedNodes(n, s))
                  \o <<MergedPage(MergedNodes(n, s))>> \o AfterMerge(n, s)

(* b_select, and b_delete of a key that is not there.                          *)
Lookup(k) ==
  /\ Called /\ todo' = Path(k)
  /\ UNCHANGED vars

(* A page in use is handed out again: the index in the file was old.  Such a   *)
(* process is followed no further, except to its end.                          *)
HandsOutUsed == \E n \in used' \ used : n \in {f[1] : f \in Frames(View)}

TreeStep(A) ==
  /\ todo = <<>> /\ ~twice /\ A
  /\ twice' = HandsOutUsed
  /\ UNCHANGED <<cacheVars, plain, saved>>

-------------------------------------------------------------------------------
(* Page accesses, sync, close and open *)

Evicts(n) == C!Miss(n) /\ \A i \in C!Slots : slot[i].alive

AccessPage ==
  /\ todo # <<>> /\ ~twice
  /\ LET a == Head(todo) IN
     /\ \/ a.op = "read" /\ C!ReadCache(a.at)
        \/ a.op = "write" /\ C!WriteCache(a.at, a.img)
     /\ plain' = (plain /\ ~Evicts(a.at))
     /\ saved' = IF Evicts(a.at) THEN {} ELSE saved
  /\ todo' = Tail(todo)
  /\ UNCHANGED <<vars, twice>>

Between == todo = <<>> /\ ~twice /\ call = Idle /\ proc = "running"

(* What a sync leaves in the file: the map, if the root's number is in the     *)
(* meta page and every page was new to the cache when it was written.          *)
SavedBySync ==
  IF plain /\ meta = root.number THEN {kv}
  ELSE IF C!DiskAfterFlush(CacheSize) = disk THEN saved ELSE {}

Sync ==
  /\ Between /\ C!Flush
  /\ plain' = FALSE
  /\ saved' = SavedBySync
  /\ UNCHANGED <<vars, todo, twice>>

FilePages(d) ==
  [n \in PageNums \union {0} |-> IF d[n] = Hole THEN Blank ELSE d[n]]

FileRoot(d) == Head(d[0].links)

FileContents(d) ==
  LET m == FileRoot(d) IN
  ContentsOf(FilePages(d), IF m = 0 THEN Blank ELSE FilePages(d)[m])

(* dbopen of a file that is there: the root page and the numbers come from the *)
(* file.  From a file that no sync has left consistent, no call is followed.   *)
(* That open() fails, or that page_parse refuses the meta page and dbopen      *)
(* returns NULL, is left out: there is no session then.                        *)
Open(d) ==
  LET m == FileRoot(d) IN
  /\ page' = FilePages(d)
  /\ meta' = m
  /\ root' = IF m = 0 THEN Blank ELSE page'[m]
  /\ buffer' \in IF m = 0 THEN {"null", "wild"} ELSE {"live"}
  /\ used' = d[1].used
  /\ call' = Idle
  /\ IF saved' = {} THEN kv' = FileContents(d) /\ proc' = "staleRoot"
     ELSE kv' \in saved' /\ proc' = "running"
  /\ slot' = FreshSlots
  /\ disk' = d
  /\ out' = C!Answer("none", 0, 0, Hole)
  /\ todo' = <<>>
  /\ twice' = FALSE

(* db_close syncs; whatever that answers is dropped.                           *)
CloseAndOpen ==
  /\ Between
  /\ saved' = SavedBySync
  /\ plain' = FALSE
  /\ Open(C!DiskAfterFlush(CacheSize))

(* The process ends at any point, and another opens the file.                  *)
CrashAndOpen ==
  /\ proc = "running"
  /\ plain' = (disk[0] = MetaPage(0) /\ disk[1] = Index({}))
  /\ UNCHANGED saved
  /\ Open(disk)

SessionNext ==
  \/ \E k \in Keys :
       \/ TreeStep(Lookup(k)) \/ TreeStep(DeleteStep(k))
       \/ \E v \in Values : TreeStep(InsertStep(k, v))
  \/ TreeStep(ClimbStep)
  \/ AccessPage \/ Sync \/ CloseAndOpen \/ CrashAndOpen

SessionSpec == SessionInit /\ [][SessionNext]_sessionVars

-------------------------------------------------------------------------------
(* Properties *)

(* Between the calls of the tree the cache shows the pages that the tree has   *)
(* written, whatever was evicted, synced or loaded again in between, and the   *)
(* index page shows the numbers in use.                                        *)
Shown == [n \in FileNums |-> C!View(n)]

CacheShowsTree ==
  todo = <<>> => FilePages(Shown) = page /\ Shown[1] = Index(used)

(* Within a call every page that is read is the one that the step of the tree  *)
(* has taken it to be: what BTree does in one step with its memory of pages is *)
(* what the code does access by access.                                        *)
ReadsAgree ==
  [][AccessPage /\ Head(todo).op = "read" => out'.data = Head(todo).img]_sessionVars

(* The first sync of a new file whose pages all fit in the cache leaves the    *)
(* map in the file, if the root's number is right, and there it stays, with    *)
(* every later call, and with a crash at any point of one, until a page of the *)
(* tree is written to the file again.                                          *)
DurableCopy == \A m \in saved : FileContents(disk) = m

(* The tree goes on as a map in a session that opened a file with an index of  *)
(* pages that are free no more, until a page in use is handed out again.       *)
ReopenedMap == ~twice => ContentsKept

(* mydb.h:37, of sync: "Sync cached pages with disk".  The file then has every *)
(* page of the database as the database has it.                                *)
SyncReachesDisk ==
  [][Sync => /\ \A n \in PageNums : page[n] # Blank => disk'[n] = page[n]
             /\ disk'[1] = Index(used)]_sessionVars

(* mydb.h:55, of dbcreate: "Open DB if it exists, otherwise create DB".  A new *)
(* database that was closed has the same contents when it is opened again,     *)
(* here one whose pages all fit in the cache.                                  *)
ReopenKeepsContents ==
  [][CloseAndOpen /\ plain => ContentsOf(page', root') = kv]_sessionVars
==============================================================================
