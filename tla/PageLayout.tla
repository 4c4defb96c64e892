----------------------------- MODULE PageLayout -----------------------------
(***************************************************************************)
(* The bytes of the pages of the tree, and the loops of b-tree.c that read *)
(* a page and write its successor.                                         *)
(*                                                                         *)
(* The data of a page starts with begining and ending (16 bits each, where *)
(* the keys end and the values start), the number of the parent and the    *)
(* number of keys (32 bits each).  The offsets of the keys follow, then    *)
(* the keys: in a leaf each with the offset of its value behind it, in an  *)
(* inner page with a link on either side.  Values fill a leaf from its     *)
(* end.  Keys and values are byte strings behind their size.               *)
(*                                                                         *)
(* mem has an item, a number or a byte string, for each offset something   *)
(* was written at.  An item that is partly overwritten is lost.            *)
(***************************************************************************)
EXTENDS KeyOrder

CONSTANTS
  PageSize,     \* parameters.page_size
  Padding,      \* cPagePadding, the page header
  HalfWord      \* 2^16, what a number of 16 bits can hold

Room == PageSize - Padding

Word(n) == [len |-> 4, num |-> n, bytes |-> <<>>]
Short(n) == [len |-> 2, num |-> n % HalfWord, bytes |-> <<>>]
Entry(b) == [len |-> 4 + Len(b), num |-> Len(b), bytes |-> b]

(* cast32, cast16, and the source of a memcpy.  A new page is all zeroes.    *)
At(pg, offset) == IF offset \in DOMAIN pg.mem THEN pg.mem[offset] ELSE Word(0)

Cast(pg, offset) == At(pg, offset).num

(* write32, write16, and memcpy.                                             *)
Put(mem, offset, item) ==
  LET kept == {a \in DOMAIN mem : a + mem[a].len <= offset \/ offset + item.len <= a}
  IN  [a \in kept \union {offset} |-> IF a = offset THEN item ELSE mem[a]]

VertNum(pg) == Cast(pg, 8)

(* The offsets are numbered from 0, as in the code.                          *)
Slot(i) == 12 + 4 * i
KeyOffset(pg, i) == Cast(pg, Slot(i))
KeyAt(pg, i) == At(pg, KeyOffset(pg, i))
LinkBefore(pg, i) == Cast(pg, KeyOffset(pg, i) - 4)
LinkAfter(pg, i) == Cast(pg, KeyOffset(pg, i) + KeyAt(pg, i).len)
DataAt(pg, i) == At(pg, LinkAfter(pg, i))

(* page_create, with the number of keys and the parent filled in.            *)
Create(kind, number, parent, n) ==
  [kind |-> kind, number |-> number,
   mem |-> [a \in {4, 8} |-> Word(IF a = 4 THEN parent ELSE n)]]

(* page_create for the successor of a page.                                  *)
Successor(pg, n) == Create(pg.kind, pg.number, Cast(pg, 4), n)

-------------------------------------------------------------------------------
(* Reading *)

Indexes(pg) == 0 .. VertNum(pg) - 1

(* The first of some of the indexes, the number of keys if there is none.    *)
FirstOf(pg, indexes) == Min(indexes \union {VertNum(pg)})

FindPos(pg, key) ==
  FirstOf(pg, {i \in Indexes(pg) : Greater(KeyAt(pg, i).bytes, key)})

KeyIndex(pg, key) ==
  FirstOf(pg, {i \in Indexes(pg) : Same(KeyAt(pg, i).bytes, key)})

LinkIndex(pg, link) ==
  FirstOf(pg, {i \in Indexes(pg) : LinkBefore(pg, i) = link})

(* The last link is found through begining.                                  *)
LastLink(pg) == Cast(pg, Cast(pg, 0) - 4)

(* bt_search in an inner page.                                               *)
LinkFor(pg, key) ==
  LET i == FindPos(pg, key)
  IN  IF i < VertNum(pg) THEN LinkBefore(pg, i) ELSE LastLink(pg)

(* b_select in a leaf: no value or one.                                      *)
Select(pg, key) ==
  LET i == KeyIndex(pg, key)
  IN  IF i < VertNum(pg) THEN <<DataAt(pg, i).bytes>> ELSE <<>>

FindLinks(pg) ==
  [i \in 1 .. VertNum(pg) |-> LinkBefore(pg, i - 1)] \o <<LastLink(pg)>>

-------------------------------------------------------------------------------
(* Loops that fill a page t.  A loop has what is written so far, begining,   *)
(* ending, the slot the next offset goes to and the slot it reads from.      *)

Filled(mem, begining, ending, new, old) ==
  [mem |-> mem, begining |-> begining, ending |-> ending, new |-> new, old |-> old]

Loop(t, n, from) == Filled(t.mem, Slot(n), Room, 0, from)

Past(x) == [x EXCEPT !.old = @ + 1]

Finished(t, x, ending) ==
  [t EXCEPT !.mem = Put(Put(x.mem, 0, Short(x.begining)), 2, Short(ending))]

(* for (i = l; i < r; i++), with one turn for each i.                        *)
For(l, r, x, Turn(_, _)) ==
  LET after[i \in l .. r] == IF i = l THEN x ELSE Turn(after[i - 1], i - 1)
  IN  after[r]

(* Mutant of AddLeaf: a word is left free behind each entry.                 *)
AddLeafLoose(x, key, data) ==
  LET end == x.ending - data.len
      mem == Put(Put(x.mem, Slot(x.new), Word(x.begining)), x.begining, key)
  IN  Filled(Put(Put(mem, x.begining + key.len, Word(end)), end, data),
             x.begining + key.len + 8, end, x.new + 1, x.old)

AddLeaf(x, key, data) ==
  LET end == x.ending - data.len
      mem == Put(Put(x.mem, Slot(x.new), Word(x.begining)), x.begining, key)
  IN  Filled(Put(Put(mem, x.begining + key.len, Word(end)), end, data),
             x.begining + key.len + 4, end, x.new + 1, x.old)

AddLink(x, link) ==
  Filled(Put(x.mem, x.begining, Word(link)), x.begining + 4, x.ending, x.new, x.old)

AddKey(x, key) ==
  Filled(Put(Put(x.mem, Slot(x.new), Word(x.begining)), x.begining, key),
         x.begining + key.len, x.ending, x.new + 1, x.old)

CopyLeaf(x, p) ==
  Past(AddLeaf(x, KeyAt(p, x.old), DataAt(p, x.old)))

CopyKey(x, p) ==
  Past(AddLink(AddKey(x, KeyAt(p, x.old)), LinkAfter(p, x.old)))

(* Mutant of FillLeaf: it reads on from l even when the new key was before l.  *)
FillLeafSkipping(p, t, l, r, pos, key, data) ==
  LET Turn(x, i) == IF i = pos THEN AddLeaf(x, Entry(key), Entry(data)) ELSE CopyLeaf(x, p)
      x == For(l, r, Loop(t, r - l, l), Turn)
  IN  Finished(t, x, x.ending)

FillLeaf(p, t, l, r, pos, key, data) ==
  LET Turn(x, i) == IF i = pos THEN AddLeaf(x, Entry(key), Entry(data)) ELSE CopyLeaf(x, p)
      x == For(l, r, Loop(t, r - l, IF pos < l THEN l - 1 ELSE l), Turn)
  IN  Finished(t, x, x.ending)

FillLeafSame(p, t, key, data) ==
  LET Turn(x, i) ==
        IF Same(key, KeyAt(p, i).bytes)
        THEN Past(AddLeaf(x, KeyAt(p, i), Entry(data)))
        ELSE CopyLeaf(x, p)
      x == For(0, VertNum(p), Loop(t, VertNum(p), 0), Turn)
  IN  Finished(t, x, x.ending)

FillLeafDelete(p, t, key) ==
  LET Turn(x, i) ==
        IF Same(key, KeyAt(p, i).bytes) THEN Past(x) ELSE CopyLeaf(x, p)
      x == For(0, VertNum(p), Loop(t, VertNum(p) - 1, 0), Turn)
  IN  Finished(t, x, x.ending)

FillIntermediate(p, t, l, r, pos, key, link) ==
  LET Turn(x, i) ==
        IF i = pos THEN AddLink(AddKey(x, Entry(key)), link) ELSE CopyKey(x, p)
      x == AddLink(Loop(t, r - l, l), LinkBefore(p, l))
  IN  Finished(t, For(l, r, x, Turn), 0)

FillIntermediateDelete(p, t, link) ==
  LET Turn(x, i) ==
        IF LinkBefore(p, i) = link THEN Past(x) ELSE CopyKey(x, p)
      x == AddLink(Loop(t, VertNum(p) - 1, 0), LinkBefore(p, 0))
  IN  Finished(t, For(0, VertNum(p), x, Turn), 0)

(* fill_fintermediate_delete with l = 1, fill_lintermediate_delete with 0.   *)
FillWithout(p, t, l) ==
  LET n == VertNum(p) - 1
      x == AddLink(Loop(t, n, l), LinkBefore(p, l))
  IN  Finished(t, For(0, n, x, LAMBDA y, i : CopyKey(y, p)), 0)

FillFirstIntermediate(p, t, key, link) ==
  LET n == VertNum(p)
      x == AddKey(AddLink(Loop(t, n + 1, 0), link), Entry(key))
  IN  Finished(t, For(0, n, AddLink(x, LinkBefore(p, 0)), LAMBDA y, i : CopyKey(y, p)), 0)

-------------------------------------------------------------------------------
(* Pages *)

CreateRootLeaf(number, key, data) ==
  LET t == Create("RootLeaf", number, 0, 1)
      x == AddLeaf(Loop(t, 1, 0), Entry(key), Entry(data))
  IN  Finished(t, x, x.ending)

(* An inner page of one key, of create_root and create_intermediate.         *)
OfOneKey(t, key, l, r) ==
  Finished(t, AddLink(AddKey(AddLink(Loop(t, 1, 0), l), Entry(key)), r), 0)

CreateRoot(number, key, l, r) == OfOneKey(Create("Root", number, 0, 1), key, l, r)

CreateIntermediate(p, key, l, r) == OfOneKey(Successor(p, 1), key, l, r)

InsertIntoLeaf(p, key, data) ==
  LET n == VertNum(p) + 1
  IN  FillLeaf(p, Successor(p, n), 0, n, FindPos(p, key), key, data)

InsertSame(p, key, data) == FillLeafSame(p, Successor(p, VertNum(p)), key, data)

DeleteKeyLeaf(p, key) == FillLeafDelete(p, Successor(p, VertNum(p) - 1), key)

InsertAtPos(p, pos, key, link) ==
  LET n == VertNum(p) + 1
  IN  FillIntermediate(p, Successor(p, n), 0, n, pos, key, link)

InsertIntoIntermediate(p, key, link) == InsertAtPos(p, FindPos(p, key), key, link)

DeleteKeyIntermediate(p, link) ==
  FillIntermediateDelete(p, Successor(p, VertNum(p) - 1), link)

DeleteFirstIntermediate(p) == FillWithout(p, Successor(p, VertNum(p) - 1), 1)
DeleteLastIntermediate(p) == FillWithout(p, Successor(p, VertNum(p) - 1), 0)

InsertFirstIntoIntermediate(p, key, link) ==
  FillFirstIntermediate(p, Successor(p, VertNum(p) + 1), key, link)

(* The two pages of a divided leaf, the second under a new number.           *)
DivideLeaf(p, key, data, number) ==
  LET n   == VertNum(p)
      tn  == (n + 1) \div 2
      pos == FindPos(p, key)
  IN  [p |-> FillLeaf(p, Create("Leaf", p.number, Cast(p, 4), tn), 0, tn, pos, key, data),
       s |-> FillLeaf(p, Create("Leaf", number, Cast(p, 4), n - tn + 1), tn, n + 1,
                      pos, key, data)]

(* The two pages of a divided inner page, and the key between them.  A new   *)
(* key that is in the middle is in neither; its link starts the second page. *)
DivideIntermediate(p, key, link, number) ==
  LET n   == VertNum(p)
      tn  == (n + 1) \div 2
      sn  == n - tn
      pos == FindPos(p, key)
      l   == IF pos <= tn THEN tn ELSE tn + 1
      s   == FillIntermediate(p, Create("Intermediate", number, Cast(p, 4), sn),
                              l, l + sn, IF pos = tn THEN 0 ELSE pos, key, link)
  IN  [p   |-> FillIntermediate(p, Create("Intermediate", p.number, Cast(p, 4), tn),
                                0, tn, pos, key, link),
       s   |-> IF pos = tn
               THEN [s EXCEPT !.mem = Put(@, KeyOffset(s, 0) - 4, Word(link))] ELSE s,
       key |-> IF pos = tn THEN key
               ELSE KeyAt(p, IF pos < tn THEN tn - 1 ELSE tn).bytes]

SetParent(pg, number) == [pg EXCEPT !.mem = Put(@, 4, Word(number))]

(* n < 0: the sibling is the right one.                                      *)
SiblingIsRight(p, s) == Before(KeyAt(p, VertNum(p) - 1).bytes, KeyAt(s, 0).bytes)

(* The key of the parent between two pages is replaced.                      *)
Separate(parent, l, r, key) ==
  LET t == DeleteKeyIntermediate(parent, l)
  IN  IF VertNum(t) # 0 THEN InsertIntoIntermediate(t, key, r)
      ELSE CreateIntermediate(t, key, l, r)

Turns(p, s) == (VertNum(s) + VertNum(p)) \div 2 - VertNum(p)

(* <<p, s, parent>> of redistribute_keys_leaf.                               *)
RedistributeKeysLeaf(p, s, parent) ==
  LET right == SiblingIsRight(p, s)
      Turn(x, i) ==
        LET j == IF right THEN 0 ELSE VertNum(x[2]) - 1
            k == KeyAt(x[2], j).bytes
        IN  <<InsertIntoLeaf(x[1], k, DataAt(x[2], j).bytes), DeleteKeyLeaf(x[2], k)>>
      x == For(0, Turns(p, s), <<p, s>>, Turn)
  IN  x \o <<IF right THEN Separate(parent, p.number, s.number, KeyAt(x[2], 0).bytes)
             ELSE Separate(parent, s.number, p.number, KeyAt(x[1], 0).bytes)>>

(* The keys of redistribute_keys_intermediate go round through the parent.   *)
RedistributeKeysIntermediate(p, s, parent) ==
  LET right == SiblingIsRight(p, s)
      l == IF right THEN p.number ELSE s.number
      r == IF right THEN s.number ELSE p.number
      Turn(x, i) ==
        IF right
        THEN <<InsertAtPos(x[1], VertNum(x[1]), x[3], LinkBefore(x[2], 0)),
               DeleteFirstIntermediate(x[2]), KeyAt(x[2], 0).bytes>>
        ELSE LET last == VertNum(x[2]) - 1
             IN  <<InsertFirstIntoIntermediate(x[1], x[3], LinkAfter(x[2], last)),
                   DeleteLastIntermediate(x[2]), KeyAt(x[2], last).bytes>>
      pkey == KeyAt(parent, LinkIndex(parent, l)).bytes
      x == For(0, Turns(p, s), <<p, s, pkey>>, Turn)
  IN  <<x[1], x[2], Separate(parent, l, r, x[3])>>

(* The page left by merge_leaf: the keys of the right page go to the left.   *)
MergeLeaf(l, r) ==
  For(0, VertNum(r), l,
      LAMBDA x, i : InsertIntoLeaf(x, KeyAt(r, i).bytes, DataAt(r, i).bytes))

MergeIntermediate(l, r, parent) ==
  LET pkey == KeyAt(parent, LinkIndex(parent, l.number)).bytes
      x    == InsertAtPos(l, VertNum(l), pkey, LinkBefore(r, 0))
  IN  For(0, VertNum(r), x,
          LAMBDA y, i : InsertAtPos(y, VertNum(y), KeyAt(r, i).bytes, LinkAfter(r, i)))
=============================================================================
