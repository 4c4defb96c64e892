# A TLA+ model of the B-tree database

The repository is a small embedded key-value store: a B+ tree of fixed-size
pages in one file, a page index that says which pages are in use, and a
write-back page cache between the two and the file.  It is single-threaded and
has no log.  These modules model it, TLC checks them on small instances, and
TLAPS proves the parts named below for all sizes.

    db_insert/db_delete/db_select      mydb.c       Session
        b_insert/b_delete/b_select     b-tree.c     BTree     implements KVStore
            loops over entries         b-tree.c     PageLayout, beside BTreeNode
            find_free_index/free_index storage.c    PageIndex implements PageAllocator
            read_page/write_page       storage.c \
                get_page               cache.c    } PageCache implements PageStore
    db_flush/db_close  flush_cache     cache.c   /
                lseek/read/write       the file

## Inventory

**Page cache** (`cache.c`).  State: `cache_size` slots of page bytes, and for
each an entry of `cache_id` (page number, alive, dirty, use count); the file.
Operations: `read_cache` and `write_cache` through `get_page` (a hit, a free
slot, or a victim: the slot with the fewest uses, written back first) and
`flush_cache`.  Correct when it is invisible (a memory of pages), when a page is
in one slot only, when a failing system call spoils no other page, and when a
sync brings the file up to date.  Hard: what happens to the dirty flag over a
sequence of hits and reuses, and failures half-way through a call.

**Page index** (`storage.c`).  State: bitmaps in the pages behind the meta
page.  `find_free_index` counts up to the first clear bit, `free_index` divides
to find the bit again.  Correct when the two agree on every page and numbers
are handed out once.  Hard: byte and index-page boundaries, a full index.

**B-tree** (`b-tree.c`).  State: the pages, `db->root` (a copy of the root page
in memory), the root's number in the meta page and in `db->meta`, the index.
`b_insert` splits leaves and climbs (`divide_intermediate_process`) while
parents are full; `b_delete` redistributes with a sibling or merges and climbs
(`handle_intermediate`) while parents underflow; both follow the parent numbers
stored in the pages.  Correct when it is a map, is ordered, half full and
balanced, has right parent numbers, marks exactly its pages, and when root, root
copy and meta page agree.  Hard: long sequences of calls that lead through
several shapes of the tree and back, and the many small copies of the same fact.

**Page layout** (`page.c`, `types.c`, the `fill_*` loops of `b-tree.c`).  State:
the bytes of a page: `begining`, `ending`, parent, number of keys, offsets of
the keys, keys with offsets of values or with links, values from the end of the
page.  A dozen loops copy entries from a page to its successor.  Correct when the
successor holds the entries of the old page, changed as asked, every reader
finds them, and nothing is written outside the page.  Hard: shifted starts of
the copying, links one more than keys, 16-bit fields, room.

**Key order** (`b-tree.c`).  `memcmp` over the shorter length, then the length.
Correct when it is one total order in all the places that spell it out.  Hard:
keys that are prefixes of one another, bytes from 128 on.

**Session** (`mydb.c`).  State: all of the above, and the file.  `dbopen` creates
or opens a file, `db_flush` syncs, `db_close` syncs and frees.  Correct when the
tree reads what it wrote whatever the cache does in between, and when a database
that is opened again has the contents it had.  Hard: the pages, the root's
number and the page index have to reach the file together, and there is no log.

Not part of the behaviour: `error.c` (codes nobody reads), `metadata.c/.h` (not
called), the Makefile.

`PROJECT.json` lists the hazards of each part with their lines and the property
that would catch each one going wrong, or the reason why none does.

## Modules

| module | what it is | source |
|---|---|---|
| `PageStore` | the memory of pages that the tree expects | `storage.h` |
| `PageCache` | the cache and the file | `cache.c` |
| `MCPageCache`, `MCPageCacheSync` | for TLC: use counts bounded; a history of the pages read | |
| `PageAllocator` | the set of numbers that the tree expects | `storage.h` |
| `PageIndex` | the bitmaps | `storage.c`, `dbopen` |
| `MCPageIndex` | for TLC: fragmentation bounded | |
| `KVStore` | the map that a user expects | `mydb.h` |
| `BTreeNode` | the contents of a page, what the loops do to them, and the properties of one page | `b-tree.c` |
| `BTree` | insert, delete, select, close and reopen | `b-tree.c`, `mydb.c` |
| `MCBTree` | for TLC: free calls on small trees; scripts that build tall trees first, then a few free calls | |
| `KeyOrder` | the comparison of keys | `b-tree.c` |
| `PageLayout` | the loops again, on the bytes of a page | `b-tree.c`, `page.c`, `types.c` |
| `PageEdits` | pages of bytes and their nodes through the same edits | `b-tree.c` |
| `MCPageEdits` | for TLC: scripts of insertions, then free edits | |
| `Session` | the tree over the cache over the file, access by access | `mydb.c`, all of the above |
| `MCSession` | for TLC: scripts, then free calls, syncs, crashes and openings | |
| `BTreeInvariant` | the inductive invariant of `BTree`, and its form for TLC | |
| `PageCache_proof`, `PageIndex_proof` | theorems | |
| `BTreeNode_proof` | what the operations on one node, or on two neighbours, compute | |
| `BTreePages_proof` | trees of pages: a page changed, cut in two, put together, a level more or less; the splits, redistributions and merges of the code on them; what searches find in such a tree, and that the invariant implies each property | |
| `BTree_proof` | each action keeps the invariant; the theorems on `BTree` | |
| `Session_proof` | the page accesses of each call, the cache and the file; the theorems on `Session` | |
| `PageLayout_proof` | the order of keys; that the items of a page do not overlap; what each loop writes | |
| `PageEdits_proof` | redistributions and merges on bytes; each step of `PageEdits`; the theorems on it | |

`BTree` EXTENDS `BTreeNode` and has `KVStore` as its abstract specification;
`BTreeInvariant` EXTENDS `BTree`, and so do, through it, `MCBTree` (which checks
the invariant) and the proof modules of the tree, each of which EXTENDS the one
above it in the table.  `Session` EXTENDS `BTree` and takes `PageCache` as an
INSTANCE whose page contents are the tree's nodes; `Session_proof` EXTENDS it and
`BTree_proof`.  `PageEdits` EXTENDS `BTreeNode` and takes
`PageLayout`, which EXTENDS `KeyOrder`; `PageLayout_proof`, and through it
`PageEdits_proof`, EXTENDS `PageEdits` and `BTreeNode_proof`, so that what is
proved of a node serves trees and bytes.

Definitions keep the source's names where TLA+ allows it.  Operators introduced
by a comment "Mutant of ..." are faulty forms of the definition that follows;
nothing refers to them.  They document which fault each property detects:
substituting the mutant makes the property fail (`PROJECT.json`, "mutants").

### PageCache

One action is one call of `read_cache`, `write_cache` or `flush_cache` along one
way through it: `ReadHit`, `ReadIntoFree`, `ReadByEviction`, the same for
writes, `EvictFails`, `FillFails`, `Flush`, `FlushFails`.  A slot is a record of
its `cache_id` entry and its bytes; a page's bytes are one value.  `read()` past
the end of the file returns 0 and leaves the buffer as it was, and a hole reads
as zeroes: `Loaded` says which.  Bytes fresh from `malloc` are an arbitrary
value in `Init`.  The store through `cache_id[-1]` on the reuse of a slot
(`cache.c:54`) is modelled by what it leaves undone: the slot keeps its flag
(`FlagOfReused`).  The set `Faults` says which system calls may fail.

### PageIndex

A set bit is a triple (index page, byte, bit).  `FindFree` takes the first clear
one in the order of the scan (`Before`) and answers with its number; `FreeIndex`
computes the bit from the number by the code's divisions (`BitOf`).  `held` is a
history variable, the numbers callers have and did not give back; callers give
back numbers they hold, which is what `merge_leaf` and `merge_intermediate` do.

### BTree

`page` is the memory of pages (justified by `PageCache!RefinesStore`), `used`
the allocated numbers (`PageIndex!RefinesAllocator`), `root` the page at
`db->root`, `meta` the root number in `db->meta`, `buffer` whether `db->root`
points to an object, `call` the pending activation of a climbing recursion,
`kv` the map that the calls so far describe (history), `proc` whether the
process still runs.  A node is the contents of a page, and the loops over its
entries are operations on sequences (`BTreeNode`; `PageEdits` shows that the
loops do that).  One action is one case of `b_insert` or `b_delete`, the climbs
take one step per level (`SplitNode`, `SplitRoot`, `RedistributeNode`,
`MergeNode`).

The process stops (`proc`) where the code does something no state can describe
or that is examined by a property of its own:

* `undefined`: a call through a dangling or never initialised `db->root`;
* `indexFull`: a split wrote to page 0 because no number was left;
* `stalePage`: a root with the number of a freed parent was split;
* `staleRoot`: `dbopen` loaded another page than the root, or (in `Session`) a
  file that no sync had left consistent.

In all of these the step that leads there is modelled, and the last three each
have a property over that step; the invariants speak about runs that have not
been there.  `Reopen` takes the file to hold every page as the cache shows it;
what the file really holds is the matter of `Session`.

### Session

A step of `BTree` comes first and leaves in `todo` the calls of `read_page` and
`write_page` that the code makes for it, in their order: the pages that
`bt_search` passes (`Path`), the index page (`Alloc`, `Free`), the children of a
divided or merged page, each read and written back with its new parent
(`Parents`), the parent and the candidates of `find_sibling` (`ReadSiblings`),
and what is written at the end.  Then `AccessPage`
makes them one at a time through `PageCache`, each with its hits, evictions and
fills; the tree goes on when `todo` is empty.  A read carries the page that the
step of the tree took to be there, and `ReadsAgree` compares it with what the
cache answers: that is what licenses `BTree` to treat a whole step as one change
of a memory of pages.  A merge that ends at the root writes its page twice, under
its old kind and as the root, and `MergedPage` is the first.  A division writes
the halves before it reads the parent (`SplitWritten`): when the parent field
names a free page, that page may be the half that was just made.

Page 1 is the one index page, its bitmap a set of numbers.  The file starts with
the meta page and the empty index, which `dbopen` writes past the cache.
`Sync`, `CloseAndOpen` and `CrashAndOpen` (the process ends at any point, also
within a call, and another opens the file) work on what the file really holds;
`Open` loads the root and the numbers in use from it.

History variables: `plain` says that the file was new and nothing has been synced or
evicted since, `saved` is the map that a sync has left in the file as long as
that is known ({} when it is not), `twice` that a page in use was handed out
again (`HandsOutUsed`: the new numbers of a step against a walk of the tree
before it).  `SavedBySync` is the condition under which the code's sync is complete:
the session is `plain`, so that every tree page entered the cache by a write, or
the sync changes nothing.  When `Open` finds a file without a known map, the new
process is not followed (`staleRoot`).

### KeyOrder, PageLayout and PageEdits

A page is a function from offsets to the items written at them: numbers of two
and four bytes, and byte strings behind their size (`Put` is `write32`,
`write16` and `memcpy`; an item that is overwritten in part is lost).  Each loop
of `b-tree.c` is a fold over the indexes it runs through, with the variables of
the loop (`begining`, `ending`, `new_offset`, `offset`) in a record.  Twins of the code
that differ only in types are one definition (`create_root` and
`create_intermediate`; `fill_fintermediate_delete` and
`fill_lintermediate_delete`).

`PageEdits` holds a page, its right sibling while one is looked at, and their
parent, each as bytes and as a node of `BTreeNode`, and does to both what a step of the
tree does: insertion, update, deletion, division, redistribution, merge.
`PageOf` writes down, without a loop, the bytes a page with given contents
should have.  `Fits` says that keys and values leave each other room, which the
code never tests; from a page that is too full no edit is followed.  `Readable`
adds, for inner pages, that the keys end below 2^16.

The properties about bytes speak of states in which all three pages fit
(`AllFit`).  One of them alone would not do: redistribution reads the key for
the parent from a page that it has just filled, and what that key is in a page
that is too full nobody knows.

## What is checked

| run | instance | shows |
|---|---|---|
| `page_cache` | 2 slots, 3 pages, 2 contents, any system call may fail | `TypeOK`, `UniqueOffsets`, `RefinesStore`, `DirtyUntilWritten` |
| `page_index` | 2 index pages of 2 bytes, up to 2 holes | `TypeOK`, `HeldExactlyMarked`, `RefinesAllocator` |
| `btree_small` | every history on 7 keys; 2 and 3 levels, 2 values, then any call | `TypeOK`, `ContentsKept`, `RootCopy`, `IndexExact`, `RefinesMap`, `CallReturns` |
| `btree_tall` | 3 levels built in four ways, then any 3 calls; 4 levels, shrunk and regrown in four ways, then any 2 | `TreeKept`, `ContentsKept`, `SearchOrder`, `ParentLinks`, `Occupancy`, `Balanced`, `IndexExact` |
| `session` | 12 slots; trees of 2 to 19 keys built in six ways, then up to 7 free calls, syncs, crashes and openings | `CacheShowsTree`, `ReadsAgree`, `DurableCopy`, `ReopenedMap` |
| `page_layout` | pages of 140 bytes, 13 keys, values of 0, 20 and 130 bytes; seven ways to fill a page, then any 3 edits | `TypeOK`, `InOrder`, `Canonical`, `SmallEntriesFit`, `ReadsBack` |

What the less obvious ones say:

* `RefinesStore`: the tree sees a memory of pages, whatever fails below it.  A
  read that fails spoils the page asked for (its slot is claimed with another
  page's bytes), a sync that fails spoils the page it could not write, and
  nothing else changes.  An eviction that fails changes nothing.
* `DirtyUntilWritten`: a dirty mark goes only when the bytes are in the file, or
  in a sync that could not write that page and does not return 0.  Which page
  that was is known to the model (`out.offset`): the code returns -1 or 1, and
  `db_flush` and `db_close` drop even that.
* `RefinesMap`: the first step of a call changes what searches find for one key
  at most, as `KVStore` has it, and the steps of the climb that may follow change
  it for none: a node that they divide, merge or redistribute loses no key of its
  own.
* `CallReturns`: every climb ends, by the fairness below.  In this run climbs have
  one level.  TLC evaluates ENABLED far too slowly to check it on tall trees, so
  `btree_tall` looks for deadlocks instead: `MCBTree!Rest` lets the model rest
  between calls and when the process has stopped, and what remains without a
  next step is a climb of several levels for which `handle_intermediate` has no
  case.  That a climb cannot go on for ever either is in the invariant: each step
  goes one level up.
* `TreeKept` is the inductive invariant of the proofs with its existential
  quantifier taken away: the bounds and heights are read off a walk from the
  root, in the middle of a climb as well.
* `CacheShowsTree`: page by page, and the index page too.  Together with
  `ReadsAgree` it says that the tree, the index and the cache fit together: the
  theorems on `BTree` are about the program that runs through the cache.
* `DurableCopy`: what the first sync of a new file has saved can be had back
  after a crash at any later point, until a page is evicted or another sync
  changes the file.  It rests on every page of that tree having entered the cache
  by a write, and on the meta page naming the root.
* `ReopenedMap`: after opening a file whose index page is old, the tree remains a
  map until `find_free_index` hands out a page that is in use.
* `InOrder`: two neighbours and their parent are what a tree has there: the
  parent's key separates them, its links differ, each child is behind the key it
  came with, and a root with links has a key.  The loops on bytes depend on this
  more than they show: they find the place of a key or a link by a search, which
  must meet it once, and `SiblingIsRight` reads the first and the last key.
* `Canonical`: after any sequence of edits, the bytes are those of `PageOf`: no
  gap, no stray byte, nothing left from the page before.  It speaks of pages
  that have room (`AllFit`) and says nothing of overruns.
* `SmallEntriesFit`: the code divides a page by the number of its keys and never
  looks at bytes.  That is enough as long as some key length k has no longer key
  and `EntryRoom` - k no longer value: then `AllFit` holds after any edits,
  nothing is written behind the end of a page, and no value of a leaf lies over
  its keys.  With the code's eight keys in a page, a page size of 4096 and the
  headers of 20 and 12 bytes, `EntryRoom` is 492 bytes.  The source names no such
  limit.
* `ReadsBack`: every reader of bytes (`bt_search`, `find_pos`, `b_select`,
  `find_links`) finds what `BTree` finds in the node.  Since the keys of nodes
  are numbers in the order of a dictionary (assumed of `Bytes`, and evaluated by
  TLC), this is also the correctness of `KeyOrder`.

Bounds.  Two slots and three pages give every case of `get_page`: a victim, a
choice between victims, a free slot in front of and behind an occupied one.  Use
counts are capped at 3 (2 in the counterexample runs), more than the two needed
for every order among two slots.  Index pages of two bytes cross both kinds of
boundary; `MaxHoles` keeps the reachable bitmaps to those with few gaps behind
the last page in use.  Trees have `NodesDown` = 2
and `NodesUp` = 4 in place of 4 and 8: the smallest sizes with all cases (with 2,
a redistribution can leave unequal halves, and an inner node loses a key and
stays an inner node).  Seven keys reach three leaves under a root and every way
back to one leaf; for taller trees the histories are too many, so scripts build
them first and a budget of free calls follows.  Between them the scripts fire
every case of the climbs: a split below a full and below a free parent, the
split of the root, a redistribution of inner nodes from either side, merges that
end at a root, at a node with keys to spare, at a collapsed root, and that climb
on.

Twelve slots in `session` hold all pages of thirteen keys and not those of
nineteen, so both sessions without and with evictions occur; evictions in the
middle of a call, crashes between any two accesses, opening twice in a row and
a page handed out twice were each confirmed to be reachable.  The free calls use
a few keys chosen so that each script's leaf has room, splits, merges or
redistributes.

Pages in `page_layout` take 140 bytes of data, so that six keys with values of
20 bytes do not fit and empty values do; `NodesDown` = 3 and `NodesUp` = 6 are
needed for redistributions of two turns.  2^16 is scaled to 112 (`HalfWord`), so that an
inner page of some of the keys ends behind it.  The keys include the empty one, prefixes of one
another, bytes on both sides of 128 and one long key.

Fairness.  The library runs a call to its end, so `BTree!Spec` has weak fairness
on `Climb`, the steps inside a call, and none on calls.

### What the code does otherwise than its documentation says

Six runs end in a counterexample; each has an entry under "findings".

* `sync_after_read` (of `Session`): the first insert into a new file reads the
  index page and then writes it; a sync leaves it out.
* `sync_after_reuse` (of the cache): nor does a sync write a page in a reused
  slot that was clean.
* `delete_root_leaf`: a deletion (and, by the same step, an update) in a tree of
  one page frees `db->root`.
* `split_after_collapse`: keys are lost when the tree has shrunk to fewer levels
  and its root splits again.
* `index_full`: with no page number left a split overwrites the meta page.
* `reopen` (of `Session`): once an inner root has split, the meta page names the
  old root.  (The same happens when a merge replaces the root.)

The four of the tree were reproduced with the compiled library, the last with a
cache of one page.  The tree model was compared with the library on fifty random
scripts of calls: page by page the trees were equal.  The layout `PageOf` was
compared with the pages of the library in long random scripts of insertions and
deletions with pages of 1 KB: every page of every tree was laid out that way.

## What is proved

`PageCache_proof`, for any number of pages and slots, from the assumptions named
in `PageCache` (page numbers are naturals, the hole marker is no content, at
least one slot):

* `TypeCorrect`: `Spec => []TypeOK`.
* `SlotsUnique`: `Spec => []UniqueOffsets`, whatever fails.  Inductive with
  `TypeOK`: a slot is claimed for a page only after the scan met it nowhere
  (`UniqueAfterClaim`), all other steps keep or drop pages (`UniqueAfterDrop`).
* `CacheIsMemory`: the cache implements `PageStore`, whatever fails.  The
  refinement mapping is `View`; it is well defined because of `SlotsUnique`.
  Each way through a call is one of three changes to the slots, and one lemma
  says what each does to `View` (`ViewAfterClaim`, `ViewAfterHit`,
  `ViewAfterFlush`); `CachedAskedFor`, that slots hold only pages callers asked
  for, makes the page that a failing sync drops one of the store.  The dirty
  flag does not enter: evictions write back unconditionally, which is why its
  errors do not show until the file is read by somebody else.
* `DirtyMarksKept`: `Spec => DirtyUntilWritten`, whatever fails.  An eviction
  writes what it takes the slot from, and a sync that comes past a dirty slot
  writes its bytes and no others (`FlushWrites`, again by `SlotsUnique`).

`PageIndex_proof`, for any file size and any page size above the header:

* `IndexTypeCorrect`: `Spec => []TypeOK`.
* `MarksAreHeld`: `Spec => []HeldExactlyMarked`.  It rests on `BitOfNumber`,
  that `free_index`'s divisions invert the count of `find_free_index`, proved
  from uniqueness of the quotient.
* `IndexIsAllocator`: the bitmap implements `PageAllocator`.  The scan visits
  numbers in ascending order (`ScanAscends`) and every number behind the index
  has a bit (`NumberHasBit`), so the first clear bit is the lowest free number.

`PageLayout_proof` begins with the order of keys, for byte strings of any length:

* `GreaterIsDictionaryOrder`, `BeforeIsDictionaryOrder`, `SameIsEquality`: the
  comparisons of the code, `memcmp` over the shorter length and then the length,
  are the order of a dictionary and equality.  All three rest on
  `MemcmpFindsFirst`, what the minimum of the differing places says of the bytes
  in front of it.
* `OrderIsTotal`, `OrderIsTransitive`.
* `KeysAreNumbers`: keys may be replaced by their places in that order.  `BTree`
  does so, and `PageEdits` assumes of its byte strings what the theorem assumes.

### The tree

`BTree_proof`, for any finite set of keys, any values, any finite set of page
numbers and any `NodesDown` of at least 2, where `NodesUp` is twice that
(`BTreeAssumption`, `BTreeNodeAssumption`; the code has 4 and 8):

| theorem | states |
|---|---|
| `TreeInvariant` | `Spec => []Inv` |
| `TreeTypeCorrect` | `Spec => []TypeOK` |
| `SearchFindsMap` | `Spec => []ContentsKept` |
| `RootIsCurrent` | `Spec => []RootCopy` |
| `IndexMarksTree` | `Spec => []IndexExact` |
| `KeysAscend` | `Spec => []SearchOrder` |
| `ParentsKnown` | `Spec => []ParentLinks` |
| `PagesHalfFull` | `Spec => []Occupancy` |
| `LeavesLevel` | `Spec => []Balanced` |
| `TreeImplementsMap` | `Spec => RefinesMap`: the tree implements `KVStore`, and climbs change no key |

Apart from types, nothing is said of a process that has run into one of the
defects listed under "findings" (`proc` is then not `"running"`): the code has
no tree there.  The steps that lead there are steps of the model, and the
theorems hold of every behaviour up to them.

*The invariant.*  The properties are stated over a walk from the root, and are
not inductive: a step that changes three pages says nothing of what a walk
finds.  `Inv` says the same page by page.  It asks for three functions that no
page holds: `lo[n]` and `hi[n]`, the bounds of the keys page n answers for, and
`ht[n]`, its height.  With them the shape of the tree is a conjunction over
pages (`PageOK`: keys ascend between the bounds; `ChildrenOK`: the bounds of a
child are the keys beside its link, its height is one less, its parent field is
right; `ParentOK`: the parent has the link; `Apart`: pages of one height answer
for different keys), and so is what it holds (`Holds`: between its bounds a leaf
has what the map has).  A split changes the bounds of one page and adds those of
another, and all other pages keep theirs.  In the middle of a climb the tree is
that of `View`, in which the page the climb is at has one key too many or one
too few (`Filled` exempts it) and `CallOK` says what the recursion has in hand.
`OrphanOK` and `PagesOK` speak of pages outside the tree: a root leaf left by a
merge names a freed page as its parent, and that page is still an inner one.

*The argument.*

1. Nodes (`BTreeNode_proof`).  Insertion and removal are described by places
   in sequences (`InsertIntoLeafUpdates`, `DeleteKeyLeafUpdates`, `InsertWidens`,
   `DeleteWidens`).  Everything that involves two pages is described by one
   relation: L and R are the *halves* of n at place c (`LeafHalves`,
   `InnerHalves`).  A division makes halves (`DivideLeafHalves`,
   `DivideIntermediateHalves`), a merge makes the page they are the halves of
   (`MergeLeavesHalves`, `MergeNodesHalves`), and a redistribution does one
   after the other (`RedistributeKeysLeafHalves`,
   `RedistributeKeysIntermediateHalves`).
2. Trees (`BTreePages_proof`).  Four changes keep a tree and what it holds: a
   page cut into halves (`TreeCut`, `HoldsCut`), two halves put together
   (`TreeJoin`, `HoldsJoin`), a new root with one child (`TreeGrow`), a root
   with one child gone (`TreeShrink`).
3. Edits (in the same module).  The calls of the code are sequences of these:
   the split of a root is a new root and then a cut (`RootLeafSplitTree`,
   `RootNodeSplitTree`), a redistribution is a merge and a cut elsewhere
   (`RejoinedTree`), a collapse is a merge and a root less (`LiftedTree`).
4. Actions (`BTree_proof`).  For each action one lemma (`InsertFirstKeeps` to
   `UndefinedKeeps`) shows that the pages after the writes, in the order of the
   code, are those of an edit; `NextKeeps` puts them together.
5. Searches (in the same module).  The page a search has come to at each level
   answers for its key and is one level lower (`StepDown`), so it ends at the
   leaf, after `Levels` steps at most: inner pages have two children at least,
   so that each level has twice the pages of the one above (`HeightDoubles`,
   `HeightInLevels`).  Then `SearchIs` and `Holds` give `ContentsKept`, and a
   walk from the root comes to the pages in use and their bounds
   (`FramesIs`), which gives the other properties.
6. The refinement.  `Inv` makes what searches find equal to the history `kv`,
   which a step changes for one key at most (`MapStep`), and a step of a climb
   not at all.

*Induction.*  The library's induction theorems take an operator as a parameter
and are out of reach.  Where induction over a number is needed, the proofs take
the least counterexample (`MinIsLeast`, from `NatLessThanWellFounded` and
`WFMin`).  So is `Pow2` shown to be what its recursive definition says
(`DoublesExist`, `DoublesAgree`, `Pow2Is`), and so are `Descent` and the levels
of the walk followed down.

The heights and bounds are existentially quantified in `Inv`.  TLC checks it as
`TreeKept`, where a walk from the root supplies them; `WalkShowsTree` says that
this is right for every size: the walk meets each page once (`FramesIs`), with
the bounds that `Inv` says there are, at a depth that its height determines.

### The session

`Session_proof`, for the same trees and any cache of at least one slot, from
`SessionAssumption` (page 1, the index, is no page of the tree; the hole marker
is no page):

| theorem | states |
|---|---|
| `SessionInvariant` | `SessionSpec => []SessionInv` |
| `CacheIsTree` | `SessionSpec => []CacheShowsTree` |
| `CallReadsItsPages` | `SessionSpec => ReadsAgree` |
| `SavedMapStays` | `SessionSpec => []DurableCopy` |
| `ReopenedKeepsMap` | `SessionSpec => []ReopenedMap` |

*The invariant.*  `SessionInv` has five parts.  `CacheOK`: no page is in two
slots, and cache and file have only images that belong at their numbers.
`Agrees`: if the accesses in `todo` are made one after the other on what the
cache shows, each read finds the page it names, and what is shown in the end is
the tree's memory, page by page, and its index (`Runs`, `ViewOf`).  `TreeThere`:
the pages are a tree that holds the map, as long as no page in use was handed
out again.  `PlainOK`: in a new file without sync and eviction the file has no
page of the tree, and every cached page but the index is marked dirty.  The
last part says of each map in `saved` that the file holds it (`FileMap`).

After a crash the index in the file is older than the tree, so the pages of the
tree are not the numbers in use.  `Inv` is therefore a case of `InvOf(U)`, where
U, the pages of the tree, is existentially quantified and need not be `used`;
all lemmas on actions are about `InvOf(U)`, under the condition that a number
that a step takes is not in U (`Fresh`).  `HandsOutUsed` is that condition, and
`CallKeeps` puts them together.

*The argument.*

1. The cache.  One lemma for each of read, write, sync and a fresh cache says
   what it does to what is shown (`CacheRead`, `CacheWrite`, `CacheFlush`,
   `CacheFresh`); evictions are inside the first two (`CacheClaim`).
2. Sequences of accesses.  `Does(P, U, t, Q, V)`: the accesses t, made on a cache
   that shows pages P and numbers U, make it show Q and V.  It composes
   (`DoesCat`), so each group of accesses has its lemma: `DoesAlloc`, `DoesFree`,
   `DoesParents`, `SiblingsDoes`, `PathDoes`, and for writes `DoesInOrder`, where
   several of them may go to one page and the last one counts.
3. Steps of the tree.  For each case of each call one lemma (`InsertFirstFollows`
   to `MergeNodeFollows`) shows that its accesses do what the step does, whether
   or not the numbers it takes are free.  They need the tree for what the code
   takes for granted: that the sibling has the parent, that the children are
   there, which writes go to one page.
4. `AccessFollows`: an access takes the first of `Runs` away.  `SyncKeeps`,
   `CloseKeeps` and `CrashKeeps` are about the file: `PlainFlush` shows that the
   sync of a new file writes every page, `MapOpens` that a process that opens a
   file with a map starts with `InvOf(U)`, U being the pages of that file.

### The bytes of pages

`PageEdits_proof`, for any byte strings as keys (numbered in the order of a
dictionary) and values, any page size, any header, any width of the 16-bit
fields, and any number of keys per page as above (`PageEditsAssumption`,
`BTreeNodeAssumption`):

| theorem | states |
|---|---|
| `PageTypes` | `Spec => []TypeOK` |
| `PagesInOrder` | `Spec => []InOrder` |
| `PagesAreCanonical` | `Spec => []Canonical` |
| `SmallPagesFit` | `Spec => []SmallEntriesFit` |
| `PagesReadBack` | `Spec => []ReadsBack` |

*The invariant* is `PagesInvariant`, the conjunction of `TypeOK`, `InOrder` and
`Canonical`; the other two properties follow from it.  `Canonical` is not
inductive without `InOrder`: `delete_key_leaf` drops every entry with the key it
is given, `delete_key_intermediate` every key behind the link, and the sibling
test of a redistribution decides rightly only if the keys of the two pages do
not interleave.

*The argument.*

1. Places (this and the next two in `PageLayout_proof`).  Where the i-th key and value start depends on the bytes in front of
   them (`FirstTotalStep`, `KeyStarts`, `ValueStarts`).  The header, the slots,
   the keys with what follows each, and the values are four zones one behind the
   other (`ItemsZone`), so that no item is written over another and each is
   readable at its offset (`HeaderReads`, `KeyReads`, `ValueReads`, `LinkReads`);
   from this `CanonicalReadsBack` follows with the order of keys.  Small entries
   leave the zones room (`RoomForEntries`, `SmallNodeFits`), and so does a page
   laid out by them (`LaidOutHasRoom`): `CanonicalSmallFits` is
   `SmallEntriesFit`, and discharges `AllFit` in the other theorems.
2. Loops.  A loop is a function of the number of turns, and its invariant says
   that it has written the first items of the page m it is meant to write
   (`LeafLoop`, `InnerLoop`); one turn adds the next item beside those that are
   there (`AddLeafIs`, `AddPairIs`, by `PutAdds`).  `ForIs` makes an induction of
   that, and each fill loop has a lemma on what m must be (`FillLeafIs`,
   `FillLeafSameIs`, `FillLeafDeleteIs`, `FillIntermediateIs` and so on).
3. Operations.  For each, a lemma `...Writes` says that on the bytes of n it
   writes the bytes of m, and a lemma `...Has` that `BTreeNode`'s result is such
   an m.  A part of a page that fits has room (`PartFits`, `SliceFits`), so both
   halves of a division do (`DivideLeafWrites`, `DivideIntermediateWrites`).
4. Two pages (`PageEdits_proof`).  A redistribution is told as one sequence of entries with a cut in
   it: each turn moves the cut by one (`LeafTurnIs`, `NodeTurnIs`), both pages
   fit at every cut on the way since they do at the first and at the last
   (`CutsHold`, `NodeCutsHold`), and the last cut is the one of `BTreeNode`
   (`RedistributeLeafWrites`, `RedistributeNodesWrites`).  A merge moves it to the
   end (`MergeLeafWrites`, `MergeNodesWrites`).
5. Steps.  For each action one lemma `...Keeps` for `TypeOK` and `InOrder`, by the
   lemmas of `BTreeNode_proof`, and one `...Writes` for `Canonical`.

### Only model-checked

* `CallReturns`: liveness under fairness is out of the prover's reach, as is
  ENABLED.  (That a climb goes up one level at a time to the root is in the
  invariant: the parent of a page is one level higher.)

## What is not modelled

* The tree under page reads that fail: `b-tree.c` and `storage.c` drop the
  answers of `read_page` and `write_page` and go on with a buffer that may be
  uninitialised, so nothing can be said of the tree; what the cache does then is
  modelled.
* Reads and writes of the file that transfer less than a page inside the file,
  and write-backs that reach the file in part when the system crashes.
* The memory behind a page that its entries overrun.
* What `dbopen` does when something fails.  `open` may be refused: a new file gets
  the mode 0x777 (`mydb.c:82`; hexadecimal, so its owner may not write it), and
  nobody tests `base` for -1.  A process may end before the meta page of a new
  file is written (`mydb.c:101`): `dbopen` then returns NULL (`mydb.c:47`) for
  this file for ever.  `SessionInit` starts behind that, and `Open` succeeds.
* A file in which evictions have left some pages newer than others, after a crash:
  no contents can be expected of it, and `Session` does not follow a process that
  opens it (`staleRoot`).  Nor is a tree followed after a page in use has been
  handed out (`twice`).
* That a file outgrows `db_size`: it follows from the rounding in
  `PageIndex!IndexCount`.
* The checks of `page_parse`: every page that the library writes passes them, and
  `error.c`, where they leave a code, is not read by anybody.
* `print_tree`, `metadata.c` (not called), the Makefile; the memory of keys and
  values handed to and from the user; `db->close`, which `dbopen` does not set.

## Plan

1. `PageCache`, `PageIndex`, `BTree`, their abstract specifications and runs; the
   theorems on cache and index.  (done)
2. `Session`, `KeyOrder`, `PageLayout`, `PageEdits`; all faults of the cache in the
   refinement and its theorem.  (done)
3. Theorems on key order and dirty marks.  (done)
4. The inductive invariant of `BTree`, its eight safety properties and the
   refinement of `KVStore`.  (done)
5. The inductive invariant of `Session` and its four properties.  (done)
6. The invariant of `PageEdits` and its five properties.  (done)
