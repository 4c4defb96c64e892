----------------------------- MODULE Session_proof -----------------------------
(***************************************************************************)
(* Proofs about sessions, for any number of keys, pages and cache slots:   *)
(* the page accesses of every call find the pages that the call's step in  *)
(* BTree takes them to be, and what a sync has saved stays in the file.    *)
(***************************************************************************)
EXTENDS Session, BTree_proof

(* What the file and the cache hold at a page number.                          *)
ImageOf(n) ==
  IF n = 1 THEN [kind : {"Index"}, used : SUBSET PageNums] ELSE Node \ {Blank}

(* A file with its index, and only images that belong at their numbers.       *)
FileOK(d) ==
  /\ d \in [FileNums -> Images \union {Hole}]
  /\ d[1] # Hole
  /\ \A n \in FileNums : d[n] # Hole => d[n] \in ImageOf(n)

(* A cache and a file with only such images, no page in two slots.            *)
CacheOK ==
  /\ slot \in [C!Slots -> C!Slot]
  /\ C!UniqueOffsets
  /\ \A i \in C!Slots : slot[i].alive =>
       slot[i].offset \in FileNums /\ slot[i].data \in ImageOf(slot[i].offset)
  /\ FileOK(disk)

(* Page numbers of the file, and the images at them.                           *)
LEMMA ImagesAre ==
  /\ 0 \in FileNums /\ 1 \in FileNums /\ 1 \notin Numbers /\ Numbers \subseteq FileNums
  /\ FileNums \subseteq Nat
  /\ \A n \in FileNums : n # 1 => n \in Numbers
  /\ \A n : ImageOf(n) \subseteq Images /\ Hole \notin ImageOf(n)
  /\ \A n \in Numbers : ImageOf(n) = Node \ {Blank}
  /\ Hole \notin Images
<1>1. PageNums \subseteq Nat \ {0} /\ 1 \notin PageNums /\ Hole \notin Images
  BY BTreeAssumption, BTreeNodeAssumption, SessionAssumption
<1> QED
  BY <1>1 DEF FileNums, Numbers, ImageOf, Images

(* A cached page is shown as its slot has it ...                               *)
LEMMA ShownCached ==
  ASSUME C!UniqueOffsets, NEW n \in FileNums, NEW i \in C!Slots, C!Holds(i, n)
  PROVE  Shown[n] = slot[i].data
  BY DEF C!UniqueOffsets, C!View, C!Holds, Shown

(* ... any other as the file has it.                                           *)
LEMMA ShownUncached ==
  ASSUME NEW n \in FileNums, C!Miss(n)
  PROVE  Shown[n] = disk[n]
  BY DEF C!View, C!Miss, Shown

(* The same after a step.                                                      *)
LEMMA ShownAfter ==
  ASSUME C!UniqueOffsets', NEW n \in FileNums
  PROVE  /\ \A i \in C!Slots : slot'[i].alive /\ slot'[i].offset = n
                                => Shown'[n] = slot'[i].data
         /\ (\A i \in C!Slots : ~(slot'[i].alive /\ slot'[i].offset = n))
             => Shown'[n] = disk'[n]
  BY DEF C!UniqueOffsets, C!View, C!Holds, Shown

(* A claimed slot is a slot.                                                   *)
LEMMA ClaimedIs ==
  ASSUME NEW i \in C!Slots, slot[i] \in C!Slot, NEW n \in FileNums,
         NEW d \in BOOLEAN, NEW c \in Images, NEW s, s = C!Claimed(i, n, d, c)
  PROVE  /\ s \in C!Slot /\ s.alive /\ s.dirty = d /\ s.offset = n /\ s.data = c
<1>1. n \in Nat
  BY ImagesAre
<1> QED
  BY <1>1 DEF C!Claimed, C!Slot

(* A page n gets the image c, in the cache or the file.                        *)
Stores(n, c) == CacheOK' /\ Shown' = [Shown EXCEPT ![n] = c]

(* Slot i is claimed for page n.                                               *)
Claims(i, n, d, c) ==
  /\ C!Miss(n) /\ slot' = [slot EXCEPT ![i] = C!Claimed(i, n, d, c)]
  /\ \/ ~slot[i].alive /\ disk' = disk
     \/ slot[i].alive /\ disk' = C!WrittenBack(i)

(* Slot i, which holds page n, becomes s.                                      *)
Hits(i, n, s) ==
  C!Holds(i, n) /\ disk' = disk /\ slot' = [slot EXCEPT ![i] = s]

(* Slot i is taken for page n, and the page that was in it, if any, is written *)
(* back: c is seen at n and everything else as before.                         *)
LEMMA CacheClaim ==
  ASSUME CacheOK, NEW i \in C!Slots, NEW n \in FileNums,
         NEW d \in BOOLEAN, NEW c \in ImageOf(n), Claims(i, n, d, c)
  PROVE  Stores(n, c)
<1> USE DEF Claims
<1>1. /\ slot \in [C!Slots -> C!Slot] /\ C!UniqueOffsets /\ c \in Images
      /\ \A j \in C!Slots : slot[j].alive =>
           slot[j].offset \in FileNums /\ slot[j].data \in ImageOf(slot[j].offset)
      /\ FileOK(disk)
  BY ImagesAre DEF CacheOK
<1>2. PICK s : s = C!Claimed(i, n, d, c)
  OBVIOUS
<1>3. s \in C!Slot /\ s.alive /\ s.offset = n /\ s.data = c
  BY <1>1, <1>2, ClaimedIs
<1>4. /\ slot' \in [C!Slots -> C!Slot] /\ slot'[i] = s
      /\ \A j \in C!Slots : j # i => slot'[j] = slot[j]
  BY <1>1, <1>2, <1>3
<1>5. \A j \in C!Slots : j # i /\ slot'[j].alive => slot'[j].offset # n
  BY <1>4 DEF C!Miss, C!Holds
<1>6. C!UniqueOffsets'
  <2> SUFFICES ASSUME NEW j \in C!Slots, NEW k \in C!Slots,
                      slot'[j].alive, slot'[k].alive, slot'[j].offset = slot'[k].offset
               PROVE  j = k
    BY DEF C!UniqueOffsets
  <2>1. CASE j # i /\ k # i
    BY <1>1, <1>4, <2>1 DEF C!UniqueOffsets
  <2>2. CASE j = i \/ k = i
    BY <1>3, <1>4, <1>5, <2>2
  <2> QED
    BY <2>1, <2>2
<1>7. slot[i].alive => /\ slot[i].offset \in FileNums
                       /\ disk' = [disk EXCEPT ![slot[i].offset] = slot[i].data]
  BY <1>1 DEF C!WrittenBack
<1>8. FileOK(disk')
  <2>1. CASE ~slot[i].alive
    BY <1>1, <2>1
  <2>2. CASE slot[i].alive
    <3>1. PICK o, b : o = slot[i].offset /\ b = slot[i].data
      OBVIOUS
    <3>2. o \in FileNums /\ b \in ImageOf(o) /\ disk' = [disk EXCEPT ![o] = b]
      BY <1>1, <1>7, <2>2, <3>1
    <3>3. b \in Images /\ b # Hole
      BY <3>2, ImagesAre
    <3> QED
      BY <1>1, <3>2, <3>3 DEF FileOK
  <2> QED
    BY <2>1, <2>2
<1>9. CacheOK'
  <2>1. \A j \in C!Slots : slot'[j].alive =>
          slot'[j].offset \in FileNums /\ slot'[j].data \in ImageOf(slot'[j].offset)
    BY <1>1, <1>3, <1>4
  <2> QED
    BY <1>4, <1>6, <1>8, <2>1 DEF CacheOK
<1>10. Shown'[n] = c
  BY <1>3, <1>4, <1>6, ShownAfter
<1>11. ASSUME NEW q \in FileNums, q # n PROVE Shown'[q] = Shown[q]
  <2>1. CASE \E j \in C!Slots : j # i /\ C!Holds(j, q)
    <3>1. PICK j \in C!Slots : j # i /\ C!Holds(j, q)
      BY <2>1
    <3>2. Shown[q] = slot[j].data
      BY <1>1, <3>1, ShownCached
    <3>3. Shown'[q] = slot'[j].data
      BY <1>4, <1>6, <3>1, ShownAfter DEF C!Holds
    <3> QED
      BY <1>4, <3>1, <3>2, <3>3
  <2>2. CASE (\A j \in C!Slots : j # i => ~C!Holds(j, q)) /\ C!Holds(i, q)
    <3>1. Shown[q] = slot[i].data
      BY <1>1, <2>2, ShownCached
    <3>2. Shown'[q] = disk'[q]
      BY <1>3, <1>4, <1>6, <1>11, <2>2, ShownAfter DEF C!Holds
    <3>3. disk'[q] = slot[i].data
      BY <1>1, <1>7, <2>2 DEF C!Holds, FileOK
    <3> QED
      BY <3>1, <3>2, <3>3
  <2>3. CASE C!Miss(q)
    <3>1. Shown[q] = disk[q]
      BY <2>3, ShownUncached
    <3>2. Shown'[q] = disk'[q]
      BY <1>3, <1>4, <1>6, <1>11, <2>3, ShownAfter DEF C!Miss, C!Holds
    <3>3. disk'[q] = disk[q]
      BY <1>1, <1>7, <2>3 DEF C!Miss, C!Holds, FileOK
    <3> QED
      BY <3>1, <3>2, <3>3
  <2> QED
    BY <2>1, <2>2, <2>3 DEF C!Miss
<1> QED
  BY <1>9, <1>10, <1>11 DEF Shown, Stores

(* A hit leaves c in the slot of page n.                                       *)
LEMMA CacheHit ==
  ASSUME CacheOK, NEW i \in C!Slots, NEW n \in FileNums, NEW c \in ImageOf(n),
         NEW s \in C!Slot, s.alive, s.offset = n, s.data = c, Hits(i, n, s)
  PROVE  Stores(n, c)
<1> USE DEF Hits
<1>0. /\ slot' \in [C!Slots -> C!Slot] /\ slot'[i] = s /\ c \in ImageOf(n)
      /\ \A j \in C!Slots : j # i => slot'[j] = slot[j]
  BY DEF CacheOK
<1>1. C!UniqueOffsets'
  BY <1>0 DEF C!UniqueOffsets, C!Holds, CacheOK
<1>2. CacheOK'
  <2>1. \A j \in C!Slots : slot'[j].alive =>
          slot'[j].offset \in FileNums /\ slot'[j].data \in ImageOf(slot'[j].offset)
    BY <1>0 DEF CacheOK
  <2> QED
    BY <1>0, <1>1, <2>1 DEF CacheOK
<1>3. Shown'[n] = c
  BY <1>0, <1>1, ShownAfter
<1>4. ASSUME NEW q \in FileNums, q # n PROVE Shown'[q] = Shown[q]
  <2>1. CASE C!Miss(q)
    <3>1. Shown'[q] = disk'[q]
      BY <1>0, <1>1, <1>4, <2>1, ShownAfter DEF C!Miss, C!Holds
    <3> QED
      BY <2>1, <3>1, ShownUncached
  <2>2. CASE ~C!Miss(q)
    <3>1. PICK j \in C!Slots : C!Holds(j, q)
      BY <2>2 DEF C!Miss
    <3>2. slot'[j] = slot[j]
      BY <1>0, <1>4, <3>1 DEF C!Holds
    <3>3. Shown'[q] = slot'[j].data
      BY <1>1, <3>1, <3>2, ShownAfter DEF C!Holds
    <3>4. Shown[q] = slot[j].data
      BY <3>1, ShownCached DEF CacheOK
    <3> QED
      BY <3>2, <3>3, <3>4
  <2> QED
    BY <2>1, <2>2
<1> QED
  BY <1>2, <1>3, <1>4 DEF Shown, Stores

(* The slot of a hit.                                                          *)
HitSlot(s, o, c) ==
  s \in C!Slot /\ s.alive = o.alive /\ s.dirty = o.dirty /\ s.offset = o.offset /\ s.data = c

(* A read that hits changes the use count.                                    *)
LEMMA ReadHitIs ==
  ASSUME NEW o \in C!Slot, NEW s, s = [o EXCEPT !.power = @ + 1]
  PROVE  HitSlot(s, o, o.data)
BY DEF C!Slot, HitSlot

(* A write that hits changes the bytes, too, but not the dirty flag.          *)
LEMMA WriteHitIs ==
  ASSUME NEW o \in C!Slot, NEW c \in Images, NEW s,
         s = [o EXCEPT !.power = @ + 1, !.data = c]
  PROVE  HitSlot(s, o, c)
<1>1. PICK p : p = o.power + 1 /\ p \in Nat
  BY DEF C!Slot
<1>2. s = [o EXCEPT !.power = p, !.data = c]
  BY <1>1
<1> QED
  BY <1>1, <1>2 DEF C!Slot, HitSlot

(* Something shown at a page was not loaded past the end of the file.          *)
LEMMA LoadedIs ==
  ASSUME NEW d, NEW n \in FileNums, NEW old, d[n] # Hole
  PROVE  C!Loaded(d, n, old) = d[n]
  BY DEF C!Loaded

(* read_page of a page that is shown delivers it and changes no other.         *)
LEMMA CacheRead ==
  ASSUME CacheOK, NEW n \in FileNums, NEW c \in ImageOf(n), Shown[n] = c, C!ReadCache(n)
  PROVE  CacheOK' /\ Shown' = Shown /\ out'.data = c
<1>0. c \in Images
  BY ImagesAre
<1>1. slot \in [C!Slots -> C!Slot] /\ C!UniqueOffsets /\ c # Hole
  BY ImagesAre DEF CacheOK
<1>2. Stores(n, c) => CacheOK' /\ Shown' = Shown
  BY DEF Shown, Stores
<1>3. CASE C!ReadHit(n)
  <2>1. PICK i \in C!Slots :
          /\ C!Holds(i, n) /\ slot' = [slot EXCEPT ![i].power = @ + 1]
          /\ out' = C!Answer("read", n, 0, slot[i].data) /\ disk' = disk
    BY <1>3 DEF C!ReadHit, C!FirstHit
  <2>2. slot[i].data = c
    BY <1>1, <2>1, ShownCached
  <2>3. slot[i] \in C!Slot /\ slot[i].alive /\ slot[i].offset = n
    BY <1>1, <2>1 DEF C!Holds
  <2>4. PICK s : s = [slot[i] EXCEPT !.power = @ + 1]
    OBVIOUS
  <2>5. s \in C!Slot /\ s.alive = slot[i].alive /\ s.offset = slot[i].offset /\ s.data = c
    <3>1. PICK o : o = slot[i]
      OBVIOUS
    <3>2. o \in C!Slot /\ s = [o EXCEPT !.power = @ + 1]
      BY <2>3, <2>4, <3>1
    <3>3. HitSlot(s, o, o.data)
      BY <3>2, ReadHitIs
    <3> QED
      BY <2>2, <3>1, <3>3 DEF HitSlot
  <2>6. Hits(i, n, s)
    BY <2>1, <2>4 DEF Hits
  <2>7. Stores(n, c)
    BY <2>3, <2>5, <2>6, CacheHit
  <2>8. out'.data = c
    BY <2>1, <2>2 DEF C!Answer
  <2> QED
    BY <1>2, <2>7, <2>8
<1>4. CASE C!ReadIntoFree(n)
  <2>1. PICK i \in C!Slots :
          /\ C!Miss(n) /\ ~slot[i].alive /\ disk' = disk
          /\ slot' = [slot EXCEPT ![i] = C!Claimed(i, n, FALSE, C!Loaded(disk, n, slot[i].data))]
          /\ out' = C!Answer("read", n, 0, slot'[i].data)
    BY <1>4 DEF C!ReadIntoFree, C!FirstFree
  <2>2. disk[n] = c
    BY <2>1, ShownUncached
  <2>3. C!Loaded(disk, n, slot[i].data) = c
    BY <1>1, <2>2, LoadedIs
  <2>4. PICK f : f = FALSE /\ f \in BOOLEAN
    OBVIOUS
  <2>5. Stores(n, c)
    <3>1. Claims(i, n, f, c)
      BY <2>1, <2>3, <2>4 DEF Claims
    <3> QED
      BY <2>4, <3>1, CacheClaim
  <2>6. slot'[i].data = c
    <3>1. PICK s : s = C!Claimed(i, n, f, c)
      OBVIOUS
    <3>2. s.data = c
      BY <1>0, <1>1, <2>4, <3>1, ClaimedIs
    <3> QED
      BY <1>1, <2>1, <2>3, <2>4, <3>1, <3>2
  <2>7. out'.data = c
    BY <2>1, <2>6 DEF C!Answer
  <2> QED
    BY <1>2, <2>5, <2>7
<1>5. CASE C!ReadByEviction(n)
  <2>1. PICK i \in C!Slots :
          /\ C!Miss(n) /\ slot[i].alive /\ disk' = C!WrittenBack(i)
          /\ slot' = [slot EXCEPT ![i] = C!Claimed(i, n, C!FlagOfReused(i),
                                           C!Loaded(C!WrittenBack(i), n, slot[i].data))]
          /\ out' = C!Answer("read", n, 0, slot'[i].data)
    BY <1>5 DEF C!ReadByEviction, C!Victim
  <2>2. disk[n] = c
    BY <2>1, ShownUncached
  <2>3. PICK d : d = C!WrittenBack(i)
    OBVIOUS
  <2>4. d[n] = c
    <3>1. slot[i].offset # n
      BY <2>1 DEF C!Miss, C!Holds
    <3>2. d = [disk EXCEPT ![slot[i].offset] = slot[i].data]
      BY <2>3 DEF C!WrittenBack
    <3>3. disk \in [FileNums -> Images \union {Hole}]
      BY DEF CacheOK, FileOK
    <3> QED
      BY <2>2, <3>1, <3>2, <3>3
  <2>5. C!Loaded(C!WrittenBack(i), n, slot[i].data) = c
    BY <1>1, <2>3, <2>4, LoadedIs
  <2>6. PICK f : f = C!FlagOfReused(i)
    OBVIOUS
  <2>7. f \in BOOLEAN /\ slot[i] \in C!Slot
    BY <1>1, <2>6 DEF C!FlagOfReused, C!Slot
  <2>8. slot' = [slot EXCEPT ![i] = C!Claimed(i, n, f, c)]
    BY <2>1, <2>5, <2>6
  <2>9. Stores(n, c)
    <3>1. Claims(i, n, f, c)
      BY <2>1, <2>8 DEF Claims
    <3> QED
      BY <2>7, <3>1, CacheClaim
  <2>10. slot'[i].data = c
    <3>1. PICK s : s = C!Claimed(i, n, f, c)
      OBVIOUS
    <3>2. s.data = c
      BY <1>0, <2>7, <3>1, ClaimedIs
    <3> QED
      BY <1>1, <2>8, <3>1, <3>2
  <2>11. out'.data = c
    BY <2>1, <2>10 DEF C!Answer
  <2> QED
    BY <1>2, <2>9, <2>11
<1> QED
  BY <1>3, <1>4, <1>5 DEF C!ReadCache

(* write_page leaves the image it was given and changes no other page.         *)
LEMMA CacheWrite ==
  ASSUME CacheOK, NEW n \in FileNums, NEW c \in ImageOf(n), C!WriteCache(n, c)
  PROVE  Stores(n, c)
<1>1. slot \in [C!Slots -> C!Slot] /\ c \in Images
  BY ImagesAre DEF CacheOK
<1>2. CASE C!WriteHit(n, c)
  <2>1. PICK i \in C!Slots :
          /\ C!Holds(i, n) /\ disk' = disk
          /\ slot' = [slot EXCEPT ![i].power = @ + 1, ![i].data = c]
    BY <1>2 DEF C!WriteHit, C!FirstHit
  <2>2. slot[i] \in C!Slot /\ slot[i].alive /\ slot[i].offset = n
    BY <1>1, <2>1 DEF C!Holds
  <2>3. PICK s : s = [slot[i] EXCEPT !.power = @ + 1, !.data = c]
    OBVIOUS
  <2>4. s \in C!Slot /\ s.alive = slot[i].alive /\ s.offset = slot[i].offset /\ s.data = c
    <3>1. PICK o : o = slot[i]
      OBVIOUS
    <3>2. o \in C!Slot /\ s = [o EXCEPT !.power = @ + 1, !.data = c]
      BY <2>2, <2>3, <3>1
    <3>3. HitSlot(s, o, c)
      BY <1>1, <3>2, WriteHitIs
    <3> QED
      BY <3>1, <3>3 DEF HitSlot
  <2>5. Hits(i, n, s)
    BY <2>1, <2>3 DEF Hits
  <2> QED
    BY <2>2, <2>4, <2>5, CacheHit
<1>3. CASE C!WriteIntoFree(n, c)
  <2>1. PICK i \in C!Slots :
          /\ C!Miss(n) /\ ~slot[i].alive /\ disk' = disk
          /\ slot' = [slot EXCEPT ![i] = C!Claimed(i, n, TRUE, c)]
    BY <1>3 DEF C!WriteIntoFree, C!FirstFree
  <2>2. Claims(i, n, TRUE, c)
    BY <2>1 DEF Claims
  <2> QED
    BY <2>2, CacheClaim
<1>4. CASE C!WriteByEviction(n, c)
  <2>1. PICK i \in C!Slots :
          /\ C!Miss(n) /\ slot[i].alive /\ disk' = C!WrittenBack(i)
          /\ slot' = [slot EXCEPT ![i] = C!Claimed(i, n, C!FlagOfReused(i), c)]
    BY <1>4 DEF C!WriteByEviction, C!Victim
  <2>2. PICK f : f = C!FlagOfReused(i)
    OBVIOUS
  <2>3. f \in BOOLEAN
    BY <1>1, <2>2 DEF C!FlagOfReused, C!Slot
  <2>4. Claims(i, n, f, c)
    BY <2>1, <2>2 DEF Claims
  <2> QED
    BY <2>3, <2>4, CacheClaim
<1> QED
  BY <1>2, <1>3, <1>4 DEF C!WriteCache

(* The file after a sync: what is shown, except of clean slots.                *)
LEMMA FlushedFile ==
  ASSUME CacheOK, NEW d, d = C!DiskAfterFlush(CacheSize)
  PROVE  /\ FileOK(d)
         /\ \A n \in FileNums :
              /\ \A i \in C!Slots : C!Flushed(i) /\ slot[i].offset = n => d[n] = slot[i].data
              /\ (\A i \in C!Slots : ~(C!Flushed(i) /\ slot[i].offset = n)) => d[n] = disk[n]
<1>1. /\ slot \in [C!Slots -> C!Slot] /\ C!UniqueOffsets /\ FileOK(disk)
      /\ \A i \in C!Slots : slot[i].alive =>
           slot[i].offset \in FileNums /\ slot[i].data \in ImageOf(slot[i].offset)
  BY DEF CacheOK
<1>2. \A i \in C!Slots : i < CacheSize
  BY SessionAssumption DEF C!Slots
<1>3. ASSUME NEW n \in FileNums
      PROVE  /\ \A i \in C!Slots : C!Flushed(i) /\ slot[i].offset = n => d[n] = slot[i].data
             /\ (\A i \in C!Slots : ~(C!Flushed(i) /\ slot[i].offset = n)) => d[n] = disk[n]
  <2>1. CASE \E i \in C!Slots : C!Flushed(i) /\ slot[i].offset = n
    <3>1. PICK j : j = CHOOSE i \in C!Slots :
                         i < CacheSize /\ C!Flushed(i) /\ slot[i].offset = n
      OBVIOUS
    <3>2. \E i \in C!Slots : i < CacheSize /\ C!Flushed(i) /\ slot[i].offset = n
      BY <1>2, <2>1
    <3>3. j \in C!Slots /\ C!Flushed(j) /\ slot[j].offset = n
      BY <3>1, <3>2
    <3>4. d[n] = slot[j].data
      BY <3>1, <3>2 DEF C!DiskAfterFlush
    <3>5. \A i \in C!Slots : C!Flushed(i) /\ slot[i].offset = n => i = j
      BY <1>1, <3>3 DEF C!Flushed, C!UniqueOffsets
    <3> QED
      BY <2>1, <3>4, <3>5
  <2>2. CASE \A i \in C!Slots : ~(C!Flushed(i) /\ slot[i].offset = n)
    BY <2>2 DEF C!DiskAfterFlush
  <2> QED
    BY <2>1, <2>2
<1>4. ASSUME NEW n \in FileNums
      PROVE  d[n] = disk[n] \/ d[n] \in ImageOf(n)
  <2>1. CASE \E i \in C!Slots : C!Flushed(i) /\ slot[i].offset = n
    BY <1>1, <1>3, <2>1 DEF C!Flushed
  <2>2. CASE \A i \in C!Slots : ~(C!Flushed(i) /\ slot[i].offset = n)
    BY <1>3, <2>2
  <2> QED
    BY <2>1, <2>2
<1>5. FileOK(d)
  <2>1. d = [n \in FileNums |-> d[n]]
    BY DEF C!DiskAfterFlush
  <2>2. ASSUME NEW n \in FileNums
        PROVE  /\ d[n] \in Images \union {Hole}
               /\ n = 1 => d[n] # Hole
               /\ d[n] # Hole => d[n] \in ImageOf(n)
    BY <1>1, <1>4, ImagesAre DEF FileOK
  <2>3. d \in [FileNums -> Images \union {Hole}]
    BY <2>1, <2>2
  <2> QED
    BY <2>2, <2>3, ImagesAre DEF FileOK
<1> QED
  BY <1>3, <1>5

(* A sync changes nothing that is shown.                                       *)
LEMMA CacheFlush ==
  ASSUME CacheOK, C!Flush
  PROVE  CacheOK' /\ Shown' = Shown
<1>1. slot \in [C!Slots -> C!Slot] /\ C!UniqueOffsets
  BY DEF CacheOK
<1>2. \A i \in C!Slots : i < CacheSize
  BY SessionAssumption DEF C!Slots
<1>3. slot' = [i \in C!Slots |-> IF C!Flushed(i) THEN [slot[i] EXCEPT !.alive = FALSE]
                                 ELSE slot[i]]
  BY <1>2 DEF C!Flush, C!SlotsAfterFlush
<1>4. ASSUME NEW i \in C!Slots
      PROVE  /\ slot'[i] \in C!Slot
             /\ C!Flushed(i) => ~slot'[i].alive
             /\ ~C!Flushed(i) => slot'[i] = slot[i]
  BY <1>1, <1>3 DEF C!Slot
<1>5. slot' \in [C!Slots -> C!Slot]
  BY <1>3, <1>4
<1>6. C!UniqueOffsets'
  BY <1>1, <1>4 DEF C!UniqueOffsets
<1>7. PICK d : d = C!DiskAfterFlush(CacheSize)
  OBVIOUS
<1>8. disk' = d
  BY <1>7 DEF C!Flush
<1>9. FileOK(d)
  BY <1>7, FlushedFile
<1>10. \A i \in C!Slots : slot'[i].alive =>
         slot'[i].offset \in FileNums /\ slot'[i].data \in ImageOf(slot'[i].offset)
  BY <1>4 DEF CacheOK
<1>11. CacheOK'
  BY <1>5, <1>6, <1>8, <1>9, <1>10 DEF CacheOK
<1>12. ASSUME NEW n \in FileNums PROVE Shown'[n] = Shown[n]
  <2>1. CASE \E i \in C!Slots : C!Flushed(i) /\ slot[i].offset = n
    <3>1. PICK i \in C!Slots : C!Flushed(i) /\ slot[i].offset = n
      BY <2>1
    <3>2. d[n] = slot[i].data
      BY <1>7, <3>1, FlushedFile
    <3>3. Shown[n] = slot[i].data
      BY <1>1, <3>1, ShownCached DEF C!Flushed, C!Holds
    <3>4. \A j \in C!Slots : ~(slot'[j].alive /\ slot'[j].offset = n)
      BY <1>1, <1>4, <3>1 DEF C!Flushed, C!UniqueOffsets
    <3>5. Shown'[n] = disk'[n]
      BY <1>6, <3>4, ShownAfter
    <3> QED
      BY <1>8, <3>2, <3>3, <3>5
  <2>2. CASE \A i \in C!Slots : ~(C!Flushed(i) /\ slot[i].offset = n)
    <3>1. d[n] = disk[n]
      BY <1>7, <2>2, FlushedFile
    <3>2. CASE C!Miss(n)
      <4>1. \A j \in C!Slots : ~(slot'[j].alive /\ slot'[j].offset = n)
        BY <1>4, <3>2 DEF C!Miss, C!Holds
      <4> QED
        BY <1>6, <1>8, <3>1, <3>2, <4>1, ShownAfter, ShownUncached
    <3>3. CASE ~C!Miss(n)
      <4>1. PICK j \in C!Slots : C!Holds(j, n)
        BY <3>3 DEF C!Miss
      <4>2. slot'[j] = slot[j]
        BY <1>4, <2>2, <4>1 DEF C!Holds
      <4>3. Shown'[n] = slot'[j].data
        BY <1>6, <4>1, <4>2, ShownAfter DEF C!Holds
      <4>4. Shown[n] = slot[j].data
        BY <1>1, <4>1, ShownCached
      <4> QED
        BY <4>2, <4>3, <4>4
    <3> QED
      BY <3>2, <3>3
  <2> QED
    BY <2>1, <2>2
<1> QED
  BY <1>11, <1>12 DEF Shown

(* An empty cache shows the file.                                              *)
LEMMA CacheFresh == slot = FreshSlots /\ FileOK(disk) => CacheOK /\ Shown = disk
<1> SUFFICES ASSUME slot = FreshSlots, FileOK(disk) PROVE CacheOK /\ Shown = disk
  OBVIOUS
<1>1. PICK s : s = [alive |-> FALSE, dirty |-> FALSE, offset |-> 0, power |-> 0,
                    data |-> Zeroes]
  OBVIOUS
<1>2. s \in C!Slot /\ s.alive = FALSE
  BY <1>1 DEF C!Slot, Images
<1>3. slot = [i \in C!Slots |-> s]
  BY <1>1 DEF FreshSlots
<1>4. slot \in [C!Slots -> C!Slot] /\ \A i \in C!Slots : ~slot[i].alive
  BY <1>2, <1>3
<1>5. CacheOK
  BY <1>4 DEF CacheOK, C!UniqueOffsets
<1>6. ASSUME NEW n \in FileNums PROVE Shown[n] = disk[n]
  <2>1. C!Miss(n)
    BY <1>4 DEF C!Miss, C!Holds
  <2> QED
    BY <2>1, ShownUncached
<1> QED
  BY <1>5, <1>6 DEF Shown, FileOK

(* It does so in the next state, too.                                          *)
LEMMA CacheFreshNext ==
  (slot = FreshSlots /\ FileOK(disk))' => (CacheOK /\ Shown = disk)'
  BY CacheFresh, PTL

-------------------------------------------------------------------------------
(* Page accesses on what the cache shows *)

(* The calls of read_page and write_page, with the page read or written.      *)
Accesses == [op : {"read", "write"}, at : FileNums, img : Images]

(* The access a finds the page it names in v, or leaves w.                     *)
Takes(v, a, w) ==
  /\ a \in Accesses /\ a.img \in ImageOf(a.at)
  /\ \/ a.op = "read" /\ a.at # 0 /\ v[a.at] = a.img /\ w = v
     \/ a.op = "write" /\ w = [v EXCEPT ![a.at] = a.img]

(* The accesses t, one after the other, turn v into w.                        *)
Runs(v, t, w) ==
  \E f : /\ f[0] = v /\ f[Len(t)] = w
         /\ \A i \in 1 .. Len(t) : Takes(f[i - 1], t[i], f[i])

(* What is shown when the tree has the pages pg, and U is marked.              *)
ViewOf(pg, U) ==
  [n \in FileNums |-> IF n = 1 THEN Index(U) ELSE IF pg[n] = Blank THEN Hole ELSE pg[n]]

(* No access, no change.                                                       *)
LEMMA RunsNil ==
  ASSUME NEW v, NEW w
  PROVE  Runs(v, <<>>, v) /\ (Runs(v, <<>>, w) => w = v)
<1>1. Runs(v, <<>>, v)
  <2> DEFINE f == [i \in {0} |-> v]
  <2>1. f[0] = v /\ f[Len(<<>>)] = v /\ \A i \in 1 .. Len(<<>>) : Takes(f[i - 1], <<>>[i], f[i])
    OBVIOUS
  <2> QED
    BY <2>1 DEF Runs
<1> QED
  BY <1>1 DEF Runs

(* A single access.                                                            *)
LEMMA RunsOne ==
  ASSUME NEW v, NEW a, NEW w, Takes(v, a, w)
  PROVE  <<a>> \in Seq(Accesses) /\ Runs(v, <<a>>, w)
<1>1. a \in Accesses
  BY DEF Takes
<1>2. Runs(v, <<a>>, w)
  <2> DEFINE f == [i \in 0 .. 1 |-> IF i = 0 THEN v ELSE w]
  <2>1. f[0] = v /\ f[Len(<<a>>)] = w /\ \A i \in 1 .. Len(<<a>>) : Takes(f[i - 1], <<a>>[i], f[i])
    OBVIOUS
  <2> QED
    BY <2>1 DEF Runs
<1> QED
  BY <1>1, <1>2

(* Accesses behind others.                                                     *)
LEMMA RunsCat ==
  ASSUME NEW s \in Seq(Accesses), NEW t \in Seq(Accesses), NEW u, NEW v, NEW w,
         Runs(v, s, u), Runs(u, t, w)
  PROVE  s \o t \in Seq(Accesses) /\ Runs(v, s \o t, w)
<1>1. PICK f : /\ f[0] = v /\ f[Len(s)] = u
               /\ \A i \in 1 .. Len(s) : Takes(f[i - 1], s[i], f[i])
  BY DEF Runs
<1>2. PICK g : /\ g[0] = u /\ g[Len(t)] = w
               /\ \A i \in 1 .. Len(t) : Takes(g[i - 1], t[i], g[i])
  BY DEF Runs
<1>3. PICK m \in Nat : m = Len(s)
  OBVIOUS
<1>4. PICK n \in Nat : n = Len(t)
  OBVIOUS
<1>5. m = Len(s) /\ n = Len(t) /\ m \in Nat /\ n \in Nat
  BY <1>3, <1>4
<1>6. PICK z : z = s \o t
  OBVIOUS
<1>7. /\ z \in Seq(Accesses) /\ Len(z) = m + n
      /\ \A i \in 1 .. m + n : z[i] = IF i <= m THEN s[i] ELSE t[i - m]
  BY <1>5, <1>6
<1> DEFINE h == [i \in 0 .. m + n |-> IF i <= m THEN f[i] ELSE g[i - m]]
<1>8. h[0] = v /\ h[Len(z)] = w
  BY <1>1, <1>2, <1>5, <1>7
<1>9. ASSUME NEW i \in 1 .. Len(z) PROVE Takes(h[i - 1], z[i], h[i])
  <2>1. CASE i <= m
    <3>1. i \in 1 .. Len(s) /\ z[i] = s[i] /\ h[i] = f[i] /\ h[i - 1] = f[i - 1]
      BY <1>5, <1>7, <2>1
    <3> QED
      BY <1>1, <3>1
  <2>2. CASE i > m
    <3>1. i - m \in 1 .. Len(t) /\ z[i] = t[i - m] /\ h[i] = g[i - m]
      BY SMTT(30), <1>5, <1>7, <2>2
    <3>2. h[i - 1] = g[(i - m) - 1]
      <4>1. CASE i - 1 <= m
        <5>1. i \in Nat /\ m \in Nat
          BY <1>5, <1>7
        <5>2. i - 1 = m /\ (i - m) - 1 = 0
          BY <2>2, <4>1, <5>1
        <5>3. h[m] = f[m] /\ f[m] = u /\ g[0] = u
          BY <1>1, <1>2, <1>5
        <5> QED
          BY <5>2, <5>3
      <4>2. CASE ~(i - 1 <= m)
        <5>1. h[i - 1] = g[(i - 1) - m] /\ (i - 1) - m = (i - m) - 1
          BY <1>5, <1>7, <2>2, <4>2
        <5> QED
          BY <5>1
      <4> QED
        BY <4>1, <4>2
    <3> QED
      BY <1>2, <3>1, <3>2
  <2> QED
    BY <1>5, <1>7, <2>1, <2>2
<1>10. Runs(v, z, w)
  BY <1>8, <1>9 DEF Runs
<1> QED
  BY <1>6, <1>7, <1>10

(* The first access of several.                                                *)
LEMMA RunsHead ==
  ASSUME NEW t \in Seq(Accesses), t # <<>>, NEW v, NEW w, Runs(v, t, w)
  PROVE  \E u : Takes(v, Head(t), u) /\ Runs(u, Tail(t), w)
<1>1. PICK f : /\ f[0] = v /\ f[Len(t)] = w
               /\ \A i \in 1 .. Len(t) : Takes(f[i - 1], t[i], f[i])
  BY DEF Runs
<1>2. PICK z : z = Tail(t)
  OBVIOUS
<1>3. PICK n \in Nat : n = Len(t)
  OBVIOUS
<1>4. z = Tail(t) /\ n = Len(t) /\ n \in Nat /\ n >= 1
  BY <1>2, <1>3
<1>5. Len(z) = n - 1 /\ Head(t) = t[1] /\ \A i \in 1 .. n - 1 : z[i] = t[i + 1]
  BY <1>4
<1>6. Takes(v, Head(t), f[1])
  BY <1>1, <1>4, <1>5
<1> DEFINE g == [i \in 0 .. n - 1 |-> f[i + 1]]
<1>7. g[0] = f[1] /\ g[Len(z)] = w
  BY <1>1, <1>4, <1>5
<1>8. ASSUME NEW i \in 1 .. Len(z) PROVE Takes(g[i - 1], z[i], g[i])
  <2>1. i + 1 \in 1 .. Len(t) /\ g[i - 1] = f[(i + 1) - 1] /\ g[i] = f[i + 1] /\ z[i] = t[i + 1]
    BY <1>4, <1>5
  <2> QED
    BY <1>1, <2>1
<1>9. Runs(f[1], z, w)
  BY <1>7, <1>8 DEF Runs
<1> QED
  BY <1>4, <1>6, <1>9

(* Reads leave everything as it is.                                            *)
LEMMA RunsReads ==
  ASSUME NEW t \in Seq(Accesses), NEW v, \A i \in 1 .. Len(t) : Takes(v, t[i], v)
  PROVE  Runs(v, t, v)
<1> DEFINE f == [i \in 0 .. Len(t) |-> v]
<1>1. f[0] = v /\ f[Len(t)] = v /\ \A i \in 1 .. Len(t) : f[i - 1] = v /\ f[i] = v
  OBVIOUS
<1> HIDE DEF f
<1> QED
  BY <1>1 DEF Runs

(* Pages and index are shown, or not.                                          *)
LEMMA ViewOfIs ==
  ASSUME NEW pg \in [Numbers -> Node], NEW U, U \subseteq PageNums
  PROVE  /\ FileOK(ViewOf(pg, U)) /\ ViewOf(pg, U)[1] = Index(U)
         /\ \A n \in Numbers : ViewOf(pg, U)[n] = IF pg[n] = Blank THEN Hole ELSE pg[n]
         /\ FilePages(ViewOf(pg, U)) = pg
<1>1. PICK v : v = ViewOf(pg, U)
  OBVIOUS
<1>2. /\ v = [n \in FileNums |-> v[n]] /\ v[1] = Index(U)
      /\ \A n \in Numbers : v[n] = IF pg[n] = Blank THEN Hole ELSE pg[n]
  BY <1>1, ImagesAre DEF ViewOf
<1>3. Index(U) \in ImageOf(1) /\ 1 \in FileNums
  BY ImagesAre DEF Index, ImageOf
<1>4. ASSUME NEW n \in FileNums
      PROVE  v[n] \in Images \union {Hole} /\ (v[n] # Hole => v[n] \in ImageOf(n))
  <2>1. CASE n = 1
    BY <1>2, <1>3, <2>1, ImagesAre
  <2>2. CASE n # 1
    <3>1. n \in Numbers /\ ImageOf(n) = Node \ {Blank}
      BY <2>2, ImagesAre
    <3>2. v[n] = Hole \/ v[n] \in ImageOf(n)
      BY <1>2, <3>1
    <3> QED
      BY <3>2, ImagesAre
  <2> QED
    BY <2>1, <2>2
<1>5. FileOK(v)
  <2>1. v \in [FileNums -> Images \union {Hole}]
    BY <1>2, <1>4
  <2>2. v[1] # Hole
    BY <1>2, <1>3, ImagesAre
  <2> QED
    BY <1>4, <2>1, <2>2 DEF FileOK
<1>6. FilePages(v) = pg
  <2>1. ASSUME NEW n \in Numbers PROVE (IF v[n] = Hole THEN Blank ELSE v[n]) = pg[n]
    <3>1. pg[n] \in Node /\ Hole \notin Node
      BY ImagesAre DEF Images
    <3> QED
      BY <1>2, <3>1
  <2>2. FilePages(v) = [n \in Numbers |-> IF v[n] = Hole THEN Blank ELSE v[n]]
    BY DEF FilePages, Numbers
  <2> QED
    BY <2>1, <2>2
<1> QED
  BY <1>1, <1>2, <1>5, <1>6

(* The file shows its pages and its index.                                     *)
LEMMA FileShows ==
  ASSUME NEW d, FileOK(d)
  PROVE  /\ FilePages(d) \in [Numbers -> Node] /\ d[1].used \subseteq PageNums
         /\ d = ViewOf(FilePages(d), d[1].used)
         /\ \A n \in Numbers : FilePages(d)[n] = IF d[n] = Hole THEN Blank ELSE d[n]
<1>1. FilePages(d) = [n \in Numbers |-> IF d[n] = Hole THEN Blank ELSE d[n]]
  BY DEF FilePages, Numbers
<1>2. PICK pg : pg = FilePages(d)
  OBVIOUS
<1>3. \A n \in Numbers : pg[n] = IF d[n] = Hole THEN Blank ELSE d[n]
  BY <1>1, <1>2
<1>4. \A n \in Numbers : d[n] = Hole \/ d[n] \in Node \ {Blank}
  BY ImagesAre DEF FileOK
<1>5. pg \in [Numbers -> Node]
  <2>1. \A n \in Numbers : pg[n] \in Node
    BY <1>3, <1>4, BlankIs
  <2>2. pg = [n \in Numbers |-> pg[n]]
    BY <1>1, <1>2
  <2> QED
    BY <2>1, <2>2
<1>6. PICK U : U = d[1].used
  OBVIOUS
<1>7. U \subseteq PageNums /\ d[1] = Index(U)
  BY <1>6, ImagesAre DEF FileOK, ImageOf, Index
<1>8. ASSUME NEW n \in FileNums
      PROVE  d[n] = IF n = 1 THEN Index(U) ELSE IF pg[n] = Blank THEN Hole ELSE pg[n]
  <2>1. CASE n = 1
    BY <1>7, <2>1
  <2>2. CASE n # 1
    <3>1. n \in Numbers
      BY <2>2, ImagesAre
    <3> QED
      BY <1>3, <1>4, <2>2, <3>1
  <2> QED
    BY <2>1, <2>2
<1>9. d = [n \in FileNums |-> d[n]]
  BY DEF FileOK
<1>10. d = ViewOf(pg, U)
  BY <1>8, <1>9 DEF ViewOf
<1> QED
  BY <1>2, <1>3, <1>5, <1>6, <1>7, <1>10

(* The accesses t turn the pages pg and the numbers U into pg2 and U2.         *)
Memory(pg, U) == pg \in [Numbers -> Node] /\ U \subseteq PageNums

(* For a tree whose pages and numbers are shown, t is what makes it the       *)
(* other.                                                                     *)
Does(pg, U, t, pg2, U2) ==
  /\ Memory(pg, U) /\ Memory(pg2, U2) /\ t \in Seq(Accesses)
  /\ Runs(ViewOf(pg, U), t, ViewOf(pg2, U2))

(* No access, no change.                                                      *)
LEMMA DoesNil ==
  ASSUME NEW pg, NEW U, Memory(pg, U)
  PROVE  Does(pg, U, <<>>, pg, U)
<1>1. <<>> \in Seq(Accesses)
  OBVIOUS
<1> QED
  BY <1>1, RunsNil DEF Does

(* One after the other.                                                        *)
LEMMA DoesCat ==
  ASSUME NEW pg, NEW U, NEW s, NEW pg1, NEW U1, NEW t, NEW pg2, NEW U2,
         Does(pg, U, s, pg1, U1), Does(pg1, U1, t, pg2, U2)
  PROVE  Does(pg, U, s \o t, pg2, U2)
<1>1. /\ s \in Seq(Accesses) /\ t \in Seq(Accesses)
      /\ Runs(ViewOf(pg, U), s, ViewOf(pg1, U1)) /\ Runs(ViewOf(pg1, U1), t, ViewOf(pg2, U2))
  BY DEF Does
<1>2. s \o t \in Seq(Accesses) /\ Runs(ViewOf(pg, U), s \o t, ViewOf(pg2, U2))
  BY <1>1, RunsCat
<1> QED
  BY <1>2 DEF Does

(* read_page of a page of the tree.                                            *)
LEMMA TakesRead ==
  ASSUME NEW pg, NEW U, Memory(pg, U), NEW n \in PageNums, pg[n] # Blank
  PROVE  Takes(ViewOf(pg, U), Read(pg, n), ViewOf(pg, U))
<1>1. n \in FileNums /\ n \in Numbers /\ n # 0 /\ ImageOf(n) = Node \ {Blank}
  BY ImagesAre, BTreeAssumption, BTreeNodeAssumption DEF Numbers
<1>2. pg[n] \in ImageOf(n) /\ ViewOf(pg, U)[n] = pg[n]
  BY <1>1, ViewOfIs DEF Memory
<1>3. pg[n] \in Images
  BY <1>2, ImagesAre
<1>4. PICK a : a = Read(pg, n)
  OBVIOUS
<1>5. a.op = "read" /\ a.at = n /\ a.img = pg[n] /\ a \in Accesses
  BY <1>1, <1>3, <1>4 DEF Read, Access, Accesses
<1>6. Takes(ViewOf(pg, U), a, ViewOf(pg, U))
  BY <1>1, <1>2, <1>5 DEF Takes
<1> QED
  BY <1>4, <1>6

(* A read of a page that is there.                                            *)
LEMMA DoesRead ==
  ASSUME NEW pg, NEW U, Memory(pg, U), NEW n \in PageNums, pg[n] # Blank
  PROVE  Does(pg, U, <<Read(pg, n)>>, pg, U)
BY TakesRead, RunsOne DEF Does

(* write_page of a page of the tree, or of the meta page.                      *)
LEMMA TakesWrite ==
  ASSUME NEW pg, NEW U, Memory(pg, U), NEW n \in Numbers, NEW c \in Node, c # Blank,
         NEW pg2, pg2 = [pg EXCEPT ![n] = c]
  PROVE  /\ Memory(pg2, U)
         /\ Takes(ViewOf(pg, U), Access("write", n, c), ViewOf(pg2, U))
<1>1. n \in FileNums /\ n # 1 /\ c \in ImageOf(n) /\ c \in Images
  BY ImagesAre
<1>2. Memory(pg2, U)
  BY DEF Memory
<1>3. PICK v, w : v = ViewOf(pg, U) /\ w = ViewOf(pg2, U)
  OBVIOUS
<1>4. v = [m \in FileNums |-> v[m]] /\ w = [m \in FileNums |-> w[m]]
  BY <1>3 DEF ViewOf
<1>5. ASSUME NEW m \in FileNums PROVE w[m] = IF m = n THEN c ELSE v[m]
  <2>1. CASE m = 1
    BY <1>1, <1>3, <2>1 DEF ViewOf
  <2>2. CASE m # 1
    <3>1. m \in Numbers /\ m \in DOMAIN pg
      BY <2>2, ImagesAre DEF Memory
    <3>2. /\ w[m] = IF pg2[m] = Blank THEN Hole ELSE pg2[m]
          /\ v[m] = IF pg[m] = Blank THEN Hole ELSE pg[m]
      BY <1>3, <2>2 DEF ViewOf
    <3>3. pg2[m] = IF m = n THEN c ELSE pg[m]
      BY <3>1
    <3> QED
      BY <3>2, <3>3
  <2> QED
    BY <2>1, <2>2
<1>6. w = [v EXCEPT ![n] = c]
  BY <1>1, <1>4, <1>5
<1>7. PICK a : a = Access("write", n, c)
  OBVIOUS
<1>8. a.op = "write" /\ a.at = n /\ a.img = c /\ a \in Accesses
  BY SMTT(30), <1>1, <1>7 DEF Access, Accesses
<1>9. Takes(v, a, w)
  BY SMTT(30), <1>1, <1>6, <1>8 DEF Takes
<1> QED
  BY <1>2, <1>3, <1>7, <1>9

(* A write of a page of the tree.                                             *)
LEMMA DoesWrite ==
  ASSUME NEW pg, NEW U, Memory(pg, U), NEW n \in Numbers, NEW c \in Node, c # Blank,
         NEW pg2, pg2 = [pg EXCEPT ![n] = c]
  PROVE  Does(pg, U, <<Access("write", n, c)>>, pg2, U)
<1>1. PICK a : a = Access("write", n, c)
  OBVIOUS
<1>2. Takes(ViewOf(pg, U), a, ViewOf(pg2, U)) /\ Memory(pg2, U)
  BY <1>1, TakesWrite
<1>3. <<a>> \in Seq(Accesses) /\ Runs(ViewOf(pg, U), <<a>>, ViewOf(pg2, U))
  BY <1>2, RunsOne
<1> QED
  BY <1>1, <1>2, <1>3 DEF Does

(* The index page.                                                             *)
LEMMA DoesReadIndex ==
  ASSUME NEW pg, NEW U, Memory(pg, U)
  PROVE  Does(pg, U, <<Access("read", 1, Index(U))>>, pg, U)
<1>1. /\ 1 \in FileNums /\ Index(U) \in ImageOf(1) /\ Index(U) \in Images
      /\ ViewOf(pg, U)[1] = Index(U)
  BY ImagesAre, ViewOfIs DEF Index, ImageOf, Memory
<1>2. PICK a : a = Access("read", 1, Index(U))
  OBVIOUS
<1>3. a.op = "read" /\ a.at = 1 /\ a.img = Index(U) /\ a \in Accesses
  BY <1>1, <1>2 DEF Access, Accesses
<1>4. Takes(ViewOf(pg, U), a, ViewOf(pg, U))
  BY <1>1, <1>3 DEF Takes
<1> QED
  BY <1>2, <1>4, RunsOne DEF Does

(* A write of the index page.                                                 *)
LEMMA DoesWriteIndex ==
  ASSUME NEW pg, NEW U, Memory(pg, U), NEW U2, U2 \subseteq PageNums
  PROVE  Does(pg, U, <<Access("write", 1, Index(U2))>>, pg, U2)
<1>1. 1 \in FileNums /\ Index(U2) \in ImageOf(1) /\ Index(U2) \in Images
  BY ImagesAre DEF Index, ImageOf
<1>2. PICK a : a = Access("write", 1, Index(U2))
  OBVIOUS
<1>3. a.op = "write" /\ a.at = 1 /\ a.img = Index(U2) /\ a \in Accesses
  BY <1>1, <1>2 DEF Access, Accesses
<1>4. ViewOf(pg, U2) = [ViewOf(pg, U) EXCEPT ![1] = Index(U2)]
  BY <1>1 DEF ViewOf
<1>5. Takes(ViewOf(pg, U), a, ViewOf(pg, U2))
  BY <1>1, <1>3, <1>4 DEF Takes
<1>6. Memory(pg, U2)
  BY DEF Memory
<1> QED
  BY <1>2, <1>5, <1>6, RunsOne DEF Does

(* find_free_index and free_index.                                             *)
LEMMA DoesAlloc ==
  ASSUME NEW pg, NEW U, Memory(pg, U)
  PROVE  Does(pg, U, Alloc(U), pg, Marked(U))
<1>1. Marked(U) \subseteq PageNums
  BY FreeIs DEF Memory
<1>2. Does(pg, U, <<Access("read", 1, Index(U))>>, pg, U)
  BY DoesReadIndex
<1>3. CASE U = PageNums
  <2>1. Alloc(U) = <<Access("read", 1, Index(U))>> \o <<>> /\ Marked(U) = U
    BY <1>3 DEF Alloc, Marked
  <2>2. Does(pg, U, <<>>, pg, U)
    BY DoesNil
  <2>3. Does(pg, U, <<Access("read", 1, Index(U))>> \o <<>>, pg, U)
    BY <1>2, <2>2, DoesCat
  <2> QED
    BY <2>1, <2>3
<1>4. CASE U # PageNums
  <2>1. Alloc(U) = <<Access("read", 1, Index(U))>> \o <<Access("write", 1, Index(Marked(U)))>>
    BY <1>4 DEF Alloc
  <2>2. Does(pg, U, <<Access("write", 1, Index(Marked(U)))>>, pg, Marked(U))
    BY <1>1, DoesWriteIndex
  <2>3. Does(pg, U, <<Access("read", 1, Index(U))>> \o <<Access("write", 1, Index(Marked(U)))>>,
             pg, Marked(U))
    BY <1>2, <2>2, DoesCat
  <2> QED
    BY <2>1, <2>3
<1> QED
  BY <1>3, <1>4

(* free_index.                                                                *)
LEMMA DoesFree ==
  ASSUME NEW pg, NEW U, Memory(pg, U), NEW n
  PROVE  Does(pg, U, Free(U, n), pg, U \ {n})
<1>1. PICK r, w : /\ r = Access("read", 1, Index(U)) /\ w = Access("write", 1, Index(U \ {n}))
  OBVIOUS
<1>2. Does(pg, U, <<r>>, pg, U)
  BY <1>1, DoesReadIndex
<1>3. Does(pg, U, <<w>>, pg, U \ {n})
  <2>1. U \ {n} \subseteq PageNums
    BY DEF Memory
  <2> QED
    BY <1>1, <2>1, DoesWriteIndex
<1>4. Does(pg, U, <<r>> \o <<w>>, pg, U \ {n})
  BY <1>2, <1>3, DoesCat
<1>5. Free(U, n) = <<r, w>> /\ <<r, w>> = <<r>> \o <<w>>
  BY <1>1 DEF Free
<1> QED
  BY <1>4, <1>5

(* Reads of pages of the tree.                                                 *)
LEMMA DoesReads ==
  ASSUME NEW pg, NEW U, Memory(pg, U), NEW N \in Nat, NEW t, t = [i \in 1 .. N |-> t[i]],
         \A i \in 1 .. N : \E n \in PageNums : pg[n] # Blank /\ t[i] = Read(pg, n)
  PROVE  Does(pg, U, t, pg, U)
<1>1. \A i \in 1 .. N : Takes(ViewOf(pg, U), t[i], ViewOf(pg, U))
  BY TakesRead
<1>2. \A i \in 1 .. N : t[i] \in Accesses
  BY <1>1 DEF Takes
<1>3. t \in Seq(Accesses) /\ Len(t) = N
  BY <1>2
<1>4. Runs(ViewOf(pg, U), t, ViewOf(pg, U))
  BY <1>1, <1>3, RunsReads
<1> QED
  BY <1>3, <1>4 DEF Does

(* write_page of several pages.                                                *)
LEMMA DoesWrites ==
  ASSUME NEW pg, NEW U, Memory(pg, U), NEW pg2 \in [Numbers -> Node], NEW ns \in Seq(Numbers),
         \A n \in Numbers : (\A i \in 1 .. Len(ns) : ns[i] # n) => pg2[n] = pg[n],
         \A i \in 1 .. Len(ns) : pg2[ns[i]] # Blank
  PROVE  Does(pg, U, Writes(pg2, ns), pg2, U)
<1> DEFINE P == [i \in 0 .. Len(ns) |->
                   [n \in Numbers |-> IF \E j \in 1 .. i : ns[j] = n THEN pg2[n] ELSE pg[n]]]
           f == [i \in 0 .. Len(ns) |-> ViewOf(P[i], U)]
<1>1. Len(ns) \in Nat /\ pg \in [Numbers -> Node] /\ U \subseteq PageNums
  BY DEF Memory
<1>2. P[0] = pg
  <2>1. \A n \in Numbers : P[0][n] = pg[n]
    BY <1>1
  <2> QED
    BY <1>1, <2>1
<1>3. P[Len(ns)] = pg2
  <2>1. \A n \in Numbers : P[Len(ns)][n] = pg2[n]
    BY <1>1
  <2> QED
    BY <1>1, <2>1
<1>4. \A i \in 0 .. Len(ns) : P[i] \in [Numbers -> Node]
  BY <1>1
<1>5. ASSUME NEW i \in 1 .. Len(ns)
      PROVE  P[i] = [P[i - 1] EXCEPT ![ns[i]] = pg2[ns[i]]]
  <2>1. i - 1 \in 0 .. Len(ns) /\ i \in 0 .. Len(ns) /\ ns[i] \in Numbers
    BY <1>1
  <2>2. ASSUME NEW n \in Numbers
        PROVE  P[i][n] = IF n = ns[i] THEN pg2[n] ELSE P[i - 1][n]
    <3>1. (\E j \in 1 .. i : ns[j] = n) <=> n = ns[i] \/ \E j \in 1 .. i - 1 : ns[j] = n
      <4>1. \A j \in 1 .. i : j = i \/ j \in 1 .. i - 1
        BY <1>1, <2>1
      <4>2. i \in 1 .. i /\ \A j \in 1 .. i - 1 : j \in 1 .. i
        BY <1>1, <2>1
      <4> QED
        BY <4>1, <4>2
    <3>2. /\ P[i][n] = IF \E j \in 1 .. i : ns[j] = n THEN pg2[n] ELSE pg[n]
          /\ P[i - 1][n] = IF \E j \in 1 .. i - 1 : ns[j] = n THEN pg2[n] ELSE pg[n]
      BY <2>1
    <3> HIDE DEF P
    <3> QED
      BY <3>1, <3>2
  <2> HIDE DEF P
  <2> QED
    BY <1>4, <2>1, <2>2
<1> HIDE DEF P
<1>6. PICK t : t = Writes(pg2, ns)
  OBVIOUS
<1>7. t = [i \in 1 .. Len(ns) |-> t[i]] /\ \A i \in 1 .. Len(ns) : t[i] = Access("write", ns[i], pg2[ns[i]])
  BY <1>1, <1>6 DEF Writes, Write
<1>8. ASSUME NEW i \in 1 .. Len(ns) PROVE Takes(f[i - 1], t[i], f[i])
  <2>1. i - 1 \in 0 .. Len(ns) /\ i \in 0 .. Len(ns) /\ ns[i] \in Numbers
    BY <1>1
  <2>2. Memory(P[i - 1], U) /\ pg2[ns[i]] \in Node /\ pg2[ns[i]] # Blank
    BY <1>1, <1>4, <2>1 DEF Memory
  <2>3. Takes(ViewOf(P[i - 1], U), Access("write", ns[i], pg2[ns[i]]), ViewOf(P[i], U))
    BY <1>5, <2>1, <2>2, TakesWrite
  <2> QED
    BY <1>7, <2>1, <2>3
<1>9. \A i \in 1 .. Len(ns) : t[i] \in Accesses
  BY <1>8 DEF Takes
<1>10. t \in Seq(Accesses) /\ Len(t) = Len(ns)
  BY <1>1, <1>7, <1>9
<1>11. f[0] = ViewOf(pg, U) /\ f[Len(t)] = ViewOf(pg2, U)
  BY <1>1, <1>2, <1>3, <1>10
<1> HIDE DEF f
<1>12. Runs(ViewOf(pg, U), t, ViewOf(pg2, U))
  BY <1>8, <1>10, <1>11 DEF Runs
<1>13. Memory(pg2, U)
  BY <1>1 DEF Memory
<1> QED
  BY <1>6, <1>10, <1>12, <1>13 DEF Does

(* A page that is there.                                                       *)
Actual(a) == a \in Node /\ a # Blank

(* ... as a step of the tree has them.                                         *)
LEMMA DoesWritten ==
  ASSUME NEW pg, NEW U, Memory(pg, U), NEW nodes, Len(nodes) \in Nat,
         \A i \in 1 .. Len(nodes) : Actual(nodes[i]),
         NEW ns \in Seq(Numbers),
         \A i \in 1 .. Len(nodes) : \E j \in 1 .. Len(ns) : ns[j] = nodes[i].number,
         \A j \in 1 .. Len(ns) :
           pg[ns[j]] # Blank \/ \E i \in 1 .. Len(nodes) : ns[j] = nodes[i].number,
         NEW pg2, pg2 = Written(pg, nodes)
  PROVE  Does(pg, U, Writes(pg2, ns), pg2, U)
<1>0. \A i \in 1 .. Len(nodes) : nodes[i] \in Node
  BY DEF Actual
<1>1. pg \in [Numbers -> Node] /\ DOMAIN pg = Numbers
  BY DEF Memory
<1>2. /\ pg2 \in [Numbers -> Node]
      /\ \A n \in Numbers : \/ pg2[n] = pg[n]
                            \/ \E i \in 1 .. Len(nodes) : nodes[i].number = n /\ pg2[n] = nodes[i]
  <2>1. /\ Written(pg, nodes) \in [Numbers -> Node]
        /\ \A n \in Numbers :
             \/ Written(pg, nodes)[n] = pg[n]
             \/ \E i \in 1 .. Len(nodes) :
                  nodes[i].number = n /\ Written(pg, nodes)[n] = nodes[i]
    BY ONLY <1>0, <1>1, Len(nodes) \in Nat, WrittenKeeps
  <2> QED
    BY <2>1
<1>3. \A n \in Numbers : (\A i \in 1 .. Len(ns) : ns[i] # n) => pg2[n] = pg[n]
  BY <1>2
<1>4. ASSUME NEW j \in 1 .. Len(ns) PROVE pg2[ns[j]] # Blank
  <2>1. ns[j] \in Numbers
    OBVIOUS
  <2>2. CASE \E i \in 1 .. Len(nodes) : nodes[i].number = ns[j] /\ pg2[ns[j]] = nodes[i]
    BY <2>2 DEF Actual
  <2>3. CASE ~\E i \in 1 .. Len(nodes) : nodes[i].number = ns[j] /\ pg2[ns[j]] = nodes[i]
    <3>1. pg2[ns[j]] = pg[ns[j]]
      BY <1>2, <2>1, <2>3
    <3>2. ASSUME NEW m \in 1 .. Len(nodes), nodes[m].number = ns[j] PROVE FALSE
      <4> DEFINE S == {i \in 1 .. Len(nodes) : nodes[i].number = ns[j]}
      <4>1. IsFiniteSet(S) /\ S # {} /\ S \in SUBSET Nat
        <5>1. IsFiniteSet(1 .. Len(nodes))
          BY FS_Interval
        <5>2. S \subseteq 1 .. Len(nodes) /\ S # {} /\ S \in SUBSET Nat
          BY SMTT(30), <3>2
        <5> QED
          BY <5>1, <5>2, FS_Subset
      <4>2. PICK i \in S : \A x \in S : x <= i
        BY <4>1, GreatestOfFinite
      <4>3. /\ nodes[i].number = ns[j] /\ i \in 1 .. Len(nodes)
            /\ \A x \in 1 .. Len(nodes) : x > i => nodes[x].number # ns[j]
        BY <4>2
      <4>4. pg2[ns[j]] = nodes[i]
        <5>1. PICK n \in DOMAIN pg : n = ns[j]
          BY <1>1, <2>1
        <5>2. nodes[i].number = n /\ \A x \in 1 .. Len(nodes) : x > i => nodes[x].number # n
          BY <4>3, <5>1
        <5>3. Written(pg, nodes)[n] = nodes[i]
          BY <4>3, <5>2, WrittenIs
        <5> QED
          BY <5>1, <5>3
      <4> QED
        BY <2>3, <4>3, <4>4
    <3> QED
      BY <3>1, <3>2
  <2> QED
    BY <2>2, <2>3
<1> QED
  BY <1>2, <1>3, <1>4, DoesWrites

(* The children of a node, none of which is linked twice.                      *)
Children(node) ==
  /\ node.links \in Seq(Numbers) /\ node.number \in Numbers
  /\ \A i \in 1 .. Len(node.links) :
       LET c == node.links[i]
       IN  c \in PageNums /\ page[c] # Blank /\ page[c].number = c
  /\ \A i, j \in 1 .. Len(node.links) : node.links[i] = node.links[j] => i = j

(* write_parents.                                                              *)
LEMMA DoesParents ==
  ASSUME NEW U, Memory(page, U), NEW node, Children(node)
  PROVE  Does(page, U, Parents(node), WriteParents(page, node), U)
<1>1. PICK L, q : L = node.links /\ q = node.number
  OBVIOUS
<1>2. /\ L \in Seq(Numbers) /\ q \in Numbers /\ page \in [Numbers -> Node] /\ U \subseteq PageNums
      /\ \A i \in 1 .. Len(L) : L[i] \in PageNums /\ page[L[i]] # Blank /\ page[L[i]].number = L[i]
      /\ \A i, j \in 1 .. Len(L) : L[i] = L[j] => i = j
  BY <1>1 DEF Children, Memory
<1>3. PICK K \in Nat : K = Len(L)
  BY <1>2
<1>4. \A n \in Numbers : [page[n] EXCEPT !.parent = q] \in Node
  BY <1>2 DEF Node
<1> DEFINE P == [j \in 0 .. K |->
                   [n \in Numbers |-> IF \E a \in 1 .. j : L[a] = n
                                      THEN [page[n] EXCEPT !.parent = q] ELSE page[n]]]
           f == [i \in 0 .. 2 * K |-> ViewOf(P[i \div 2], U)]
<1>5. P[0] = page
  <2>1. \A n \in Numbers : P[0][n] = page[n]
    BY <1>3
  <2> QED
    BY <1>2, <1>3, <2>1
<1>6. P[K] = WriteParents(page, node)
  <2>1. ToSet(L) = {L[a] : a \in 1 .. K}
    BY <1>2, <1>3 DEF ToSet
  <2>2. WriteParents(page, node) =
          [n \in Numbers |-> IF n \in ToSet(L) THEN [page[n] EXCEPT !.parent = q] ELSE page[n]]
    BY <1>1, <1>2 DEF WriteParents
  <2>3. \A n \in Numbers : n \in ToSet(L) <=> \E a \in 1 .. K : L[a] = n
    BY <2>1
  <2>4. P[K] = [n \in Numbers |-> IF \E a \in 1 .. K : L[a] = n
                                  THEN [page[n] EXCEPT !.parent = q] ELSE page[n]]
    BY <1>3
  <2> HIDE DEF P
  <2> QED
    BY <2>2, <2>3, <2>4
<1>7. ASSUME NEW j \in 0 .. K
      PROVE  /\ P[j] \in [Numbers -> Node]
             /\ \A n \in Numbers : P[j][n] = IF \E a \in 1 .. j : L[a] = n
                                             THEN [page[n] EXCEPT !.parent = q] ELSE page[n]
  BY <1>2, <1>4
<1> HIDE DEF P
<1>8. ASSUME NEW j \in 1 .. K
      PROVE  P[j - 1][L[j]] = page[L[j]] /\ Memory(P[j - 1], U)
  <2>1. j - 1 \in 0 .. K /\ L[j] \in Numbers
    BY <1>2, <1>3 DEF Numbers
  <2>2. ~\E a \in 1 .. j - 1 : L[a] = L[j]
    BY <1>2, <1>3
  <2>3. P[j - 1][L[j]] = IF \E a \in 1 .. j - 1 : L[a] = L[j]
                         THEN [page[L[j]] EXCEPT !.parent = q] ELSE page[L[j]]
    BY <1>7, <2>1
  <2>4. P[j - 1] \in [Numbers -> Node]
    BY <1>7, <2>1
  <2> QED
    BY <1>2, <2>2, <2>3, <2>4 DEF Memory
<1>9. ASSUME NEW j \in 1 .. K
      PROVE  P[j] = [P[j - 1] EXCEPT ![L[j]] = [page[L[j]] EXCEPT !.parent = q]]
  <2>1. j - 1 \in 0 .. K /\ j \in 0 .. K /\ L[j] \in Numbers
    BY <1>2, <1>3 DEF Numbers
  <2>2. ASSUME NEW n \in Numbers
        PROVE  P[j][n] = IF n = L[j] THEN [page[n] EXCEPT !.parent = q] ELSE P[j - 1][n]
    <3>1. (\E a \in 1 .. j : L[a] = n) <=> n = L[j] \/ \E a \in 1 .. j - 1 : L[a] = n
      <4>1. \A a \in 1 .. j : a = j \/ a \in 1 .. j - 1
        BY <1>3
      <4>2. j \in 1 .. j /\ \A a \in 1 .. j - 1 : a \in 1 .. j
        BY <1>3
      <4> QED
        BY <4>1, <4>2
    <3> QED
      BY <1>7, <2>1, <3>1
  <2>3. PICK A, B, m, x : /\ A = P[j] /\ B = P[j - 1] /\ m = L[j]
                          /\ x = [page[m] EXCEPT !.parent = q]
    OBVIOUS
  <2>4. A \in [Numbers -> Node] /\ B \in [Numbers -> Node] /\ m \in Numbers
    BY <1>7, <2>1, <2>3
  <2>5. \A n \in Numbers : A[n] = IF n = m THEN x ELSE B[n]
    BY <2>2, <2>3
  <2>6. A = [B EXCEPT ![m] = x]
    BY <2>4, <2>5
  <2> QED
    BY <2>3, <2>6
<1>10. PICK t : t = Parents(node)
  OBVIOUS
<1>11. /\ t = [i \in 1 .. 2 * K |-> t[i]]
       /\ \A i \in 1 .. 2 * K :
            t[i] = IF i % 2 = 1 THEN Read(page, L[(i + 1) \div 2])
                   ELSE Access("write", L[(i + 1) \div 2], [page[L[(i + 1) \div 2]] EXCEPT !.parent = q])
  BY <1>1, <1>3, <1>10 DEF Parents
<1>12. ASSUME NEW j \in 1 .. K
       PROVE  Takes(f[2 * j - 2], t[2 * j - 1], f[2 * j - 1])
  <2>1. /\ 2 * j - 1 \in 1 .. 2 * K /\ 2 * j - 2 \in 0 .. 2 * K /\ 2 * j - 1 \in 0 .. 2 * K
        /\ (2 * j - 1) % 2 = 1 /\ ((2 * j - 1) + 1) \div 2 = j
        /\ (2 * j - 2) \div 2 = j - 1 /\ (2 * j - 1) \div 2 = j - 1
    BY <1>3
  <2>2. t[2 * j - 1] = Read(page, L[j])
    BY <1>11, <2>1
  <2>3. Read(page, L[j]) = Read(P[j - 1], L[j])
    BY <1>8 DEF Read
  <2>4. Takes(ViewOf(P[j - 1], U), Read(P[j - 1], L[j]), ViewOf(P[j - 1], U))
    <3>1. L[j] \in PageNums /\ P[j - 1][L[j]] # Blank
      BY <1>2, <1>3, <1>8
    <3> QED
      BY <1>8, <3>1, TakesRead
  <2> QED
    BY <2>1, <2>2, <2>3, <2>4
<1>13. ASSUME NEW j \in 1 .. K
       PROVE  Takes(f[2 * j - 1], t[2 * j], f[2 * j])
  <2>1. /\ 2 * j \in 1 .. 2 * K /\ 2 * j - 1 \in 0 .. 2 * K /\ 2 * j \in 0 .. 2 * K
        /\ (2 * j) % 2 = 0 /\ (2 * j + 1) \div 2 = j
        /\ (2 * j) \div 2 = j /\ (2 * j - 1) \div 2 = j - 1
    BY <1>3
  <2>2. PICK c : c = [page[L[j]] EXCEPT !.parent = q]
    OBVIOUS
  <2>3. t[2 * j] = Access("write", L[j], c)
    <3>1. PICK i : i = 2 * j
      OBVIOUS
    <3>2. i \in 1 .. 2 * K /\ i % 2 # 1 /\ (i + 1) \div 2 = j
      BY <2>1, <3>1
    <3>3. t[i] = Access("write", L[j], [page[L[j]] EXCEPT !.parent = q])
      BY <1>11, <3>2
    <3> QED
      BY <2>2, <3>1, <3>3
  <2>4. L[j] \in Numbers /\ L[j] # 0
    BY <1>2, <1>3, BTreeAssumption, BTreeNodeAssumption DEF Numbers
  <2>5. c \in Node /\ c # Blank
    <3>1. c.number = L[j] /\ c \in Node
      BY <1>2, <1>3, <1>4, <2>2, <2>4 DEF Node
    <3> QED
      BY <2>4, <3>1, BlankIs
  <2>6. Takes(ViewOf(P[j - 1], U), Access("write", L[j], c), ViewOf(P[j], U))
    BY <1>8, <1>9, <2>2, <2>4, <2>5, TakesWrite
  <2> QED
    BY <2>1, <2>3, <2>6
<1>14. ASSUME NEW i \in 1 .. 2 * K PROVE Takes(f[i - 1], t[i], f[i])
  <2>1. \E j \in 1 .. K : i = 2 * j - 1 \/ i = 2 * j
    <3>1. CASE i % 2 = 1
      <4>1. (i + 1) \div 2 \in 1 .. K /\ i = 2 * ((i + 1) \div 2) - 1
        BY <1>3, <3>1
      <4> QED
        BY <4>1
    <3>2. CASE i % 2 # 1
      <4>1. i \div 2 \in 1 .. K /\ i = 2 * (i \div 2)
        BY <1>3, <3>2
      <4> QED
        BY <4>1
    <3> QED
      BY <3>1, <3>2
  <2>2. PICK j \in 1 .. K : i = 2 * j - 1 \/ i = 2 * j
    BY <2>1
  <2>3. CASE i = 2 * j - 1
    <3>1. i - 1 = 2 * j - 2
      BY <1>3, <2>3
    <3> QED
      BY <1>12, <2>3, <3>1
  <2>4. CASE i = 2 * j
    BY <1>13, <2>4
  <2> QED
    BY <2>2, <2>3, <2>4
<1>15. \A i \in 1 .. 2 * K : t[i] \in Accesses
  BY <1>14 DEF Takes
<1>16. t \in Seq(Accesses) /\ Len(t) = 2 * K
  BY <1>3, <1>11, <1>15
<1>17. f[0] = ViewOf(page, U) /\ f[2 * K] = ViewOf(WriteParents(page, node), U)
  <2>1. 0 \in 0 .. 2 * K /\ 2 * K \in 0 .. 2 * K /\ 0 \div 2 = 0 /\ (2 * K) \div 2 = K
    BY <1>3
  <2> QED
    BY <1>5, <1>6, <2>1
<1> HIDE DEF f
<1>18. Runs(ViewOf(page, U), t, ViewOf(WriteParents(page, node), U))
  BY <1>14, <1>16, <1>17 DEF Runs
<1>19. Memory(WriteParents(page, node), U)
  <2>1. K \in 0 .. K
    BY <1>3
  <2> QED
    BY <1>2, <1>6, <1>7, <2>1 DEF Memory
<1> QED
  BY <1>10, <1>16, <1>18, <1>19 DEF Does

-----------------------------------------------------------------------------
(* The accesses of each step of the tree do what the step does to the pages  *)
(* and to the index, whether the numbers that it takes are free or not.      *)

(* Two lemmas: the pages that a search reads are pages of the tree, which a  *)
(* step finds as InvOf says.                                                 *)
LEMMA InvMemory ==
  ASSUME NEW U, InvOf(U)
  PROVE  Memory(page, used) /\ TypeOK
BY DEF InvOf, TypeOK, Memory

(* The reads of bt_search.                                                    *)
LEMMA PathDoes ==
  ASSUME NEW U, InvOf(U), Called, NEW k \in Keys
  PROVE  Does(page, used, Path(k), page, used)
<1>1. Memory(page, used) /\ Pages(page)
  BY InvMemory, CalledStanding
<1>2. PICK lo, hi, ht : Standing(U, lo, hi, ht)
  BY CalledStanding
<1>3. PICK r : r = root.number
  OBVIOUS
<1>4. Tree(page, U, r, lo, hi, ht) /\ Wide(page, U) /\ root = page[r]
  BY <1>2, <1>3 DEF Standing
<1>5. PICK at : at = Descent(page, root, k)
  OBVIOUS
<1>6. \A h \in 0 .. Levels : \E n \in U : at[h] = page[n]
  BY <1>4, <1>5, DescentIs
<1>7. PICK below : below = {h \in 1 .. Levels : at[h - 1].kind \in Interiors}
  OBVIOUS
<1>8. Path(k) = [h \in 1 .. Cardinality(below) |-> Read(page, at[h].number)]
  BY <1>5, <1>7 DEF Path
<1>9. Cardinality(below) \in Nat /\ Cardinality(below) <= Levels
  <2>1. Levels \in Nat
    BY LevelsIs
  <2>2. below \subseteq 1 .. Levels
    BY <1>7
  <2>3. IsFiniteSet(1 .. Levels) /\ Cardinality(1 .. Levels) = Levels
    BY <2>1, FS_Interval
  <2>4. IsFiniteSet(below) /\ Cardinality(below) <= Cardinality(1 .. Levels)
    BY <2>2, <2>3, FS_Subset
  <2> QED
    BY <2>3, <2>4, FS_CardinalityType
<1>10. PICK t : t = Path(k)
  OBVIOUS
<1>11. PICK N \in Nat : N = Cardinality(below)
  BY <1>9
<1>12. t = [h \in 1 .. N |-> Read(page, at[h].number)]
  BY <1>8, <1>10, <1>11
<1>13. ASSUME NEW i \in 1 .. N
       PROVE  \E n \in PageNums : page[n] # Blank /\ t[i] = Read(page, n)
  <2>1. i \in 0 .. Levels
    BY <1>9, <1>11, LevelsIs
  <2>2. PICK n \in U : at[i] = page[n]
    BY <1>6, <2>1
  <2>3. page[n].number = n /\ n \in PageNums /\ n \in Numbers
    BY <1>4, TreePage
  <2>4. page[n] # Blank
    BY <1>1, <2>3, NotBlank
  <2>5. t[i] = Read(page, n)
    BY <1>12, <2>2, <2>3
  <2> QED
    BY <2>3, <2>4, <2>5
<1>14. t = [i \in 1 .. N |-> t[i]]
  BY <1>12
<1> QED
  BY <1>1, <1>10, <1>13, <1>14, DoesReads

(* A page that can be written.                                               *)
Proper(a) == a \in Node /\ a.kind # "None"

(* Written pages under their own numbers, for as many pages as a step has.   *)
LEMMA DoesInOrder ==
  ASSUME NEW pg, NEW U, Memory(pg, U), NEW nodes, Len(nodes) \in Nat,
         \A i \in 1 .. Len(nodes) : Proper(nodes[i]),
         NEW ns, ns \in Seq(Numbers), Len(ns) = Len(nodes),
         \A i \in 1 .. Len(nodes) : ns[i] = nodes[i].number,
         NEW pg2, pg2 = Written(pg, nodes)
  PROVE  Does(pg, U, Writes(pg2, ns), pg2, U)
<1>1. \A i \in 1 .. Len(nodes) : Actual(nodes[i])
  BY BlankIs DEF Proper, Actual
<1>2. \A i \in 1 .. Len(nodes) : \E j \in 1 .. Len(ns) : ns[j] = nodes[i].number
  OBVIOUS
<1>3. \A j \in 1 .. Len(ns) :
        pg[ns[j]] # Blank \/ \E i \in 1 .. Len(nodes) : ns[j] = nodes[i].number
  OBVIOUS
<1> QED
  BY <1>1, <1>2, <1>3, DoesWritten

(* The writes at the end of a step: a single page,                            *)
LEMMA DoesWritten1 ==
  ASSUME NEW pg, NEW U, Memory(pg, U), NEW a, Proper(a), NEW n, n = a.number,
         NEW pg2, pg2 = Written(pg, <<a>>)
  PROVE  Does(pg, U, Writes(pg2, <<n>>), pg2, U)
<1> DEFINE nodes == <<a>>
           ns    == <<n>>
<1>1. Len(nodes) = 1 /\ nodes[1] = a /\ Len(ns) = 1 /\ ns[1] = n
  OBVIOUS
<1>2. ns \in Seq(Numbers)
  BY DEF Proper, Node
<1>3. pg2 = Written(pg, nodes)
  OBVIOUS
<1>4. Does(pg, U, Writes(pg2, ns), pg2, U)
  <2> HIDE DEF nodes, ns
  <2>1. Len(nodes) \in Nat /\ Len(ns) = Len(nodes) /\ 1 .. Len(nodes) = {1}
    BY <1>1
  <2>2. \A i \in 1 .. Len(nodes) : Proper(nodes[i]) /\ ns[i] = nodes[i].number
    BY <1>1, <2>1
  <2> QED
    BY <1>2, <1>3, <2>1, <2>2, DoesInOrder
<1> QED
  BY <1>4

(* two pages,                                                                 *)
LEMMA DoesWritten2 ==
  ASSUME NEW pg, NEW U, Memory(pg, U), NEW a, Proper(a), NEW b, Proper(b),
         NEW m, m = a.number, NEW n, n = b.number,
         NEW pg2, pg2 = Written(pg, <<a, b>>)
  PROVE  Does(pg, U, Writes(pg2, <<m, n>>), pg2, U)
<1> DEFINE nodes == <<a, b>>
           ns    == <<m, n>>
<1>1. /\ Len(nodes) = 2 /\ nodes[1] = a /\ nodes[2] = b
      /\ Len(ns) = 2 /\ ns[1] = m /\ ns[2] = n
  OBVIOUS
<1>2. ns \in Seq(Numbers)
  BY DEF Proper, Node
<1>3. pg2 = Written(pg, nodes)
  OBVIOUS
<1>4. Does(pg, U, Writes(pg2, ns), pg2, U)
  <2> HIDE DEF nodes, ns
  <2>1. Len(nodes) \in Nat /\ Len(ns) = Len(nodes) /\ 1 .. Len(nodes) = {1, 2}
    BY <1>1
  <2>2. \A i \in 1 .. Len(nodes) : Proper(nodes[i]) /\ ns[i] = nodes[i].number
    BY <1>1, <2>1
  <2> QED
    BY <1>2, <1>3, <2>1, <2>2, DoesInOrder
<1> QED
  BY <1>4

(* three,                                                                     *)
LEMMA DoesWritten3 ==
  ASSUME NEW pg, NEW U, Memory(pg, U), NEW a, Proper(a), NEW b, Proper(b), NEW c, Proper(c),
         NEW l, l = a.number, NEW m, m = b.number, NEW n, n = c.number,
         NEW pg2, pg2 = Written(pg, <<a, b, c>>)
  PROVE  Does(pg, U, Writes(pg2, <<l, m, n>>), pg2, U)
<1> DEFINE nodes == <<a, b, c>>
           ns    == <<l, m, n>>
<1>1. /\ Len(nodes) = 3 /\ nodes[1] = a /\ nodes[2] = b /\ nodes[3] = c
      /\ Len(ns) = 3 /\ ns[1] = l /\ ns[2] = m /\ ns[3] = n
  OBVIOUS
<1>2. ns \in Seq(Numbers)
  BY DEF Proper, Node
<1>3. pg2 = Written(pg, nodes)
  OBVIOUS
<1>4. Does(pg, U, Writes(pg2, ns), pg2, U)
  <2> HIDE DEF nodes, ns
  <2>1. Len(nodes) \in Nat /\ Len(ns) = Len(nodes) /\ 1 .. Len(nodes) = {1, 2, 3}
    BY <1>1
  <2>2. \A i \in 1 .. Len(nodes) : Proper(nodes[i]) /\ ns[i] = nodes[i].number
    BY <1>1, <2>1
  <2> QED
    BY <1>2, <1>3, <2>1, <2>2, DoesInOrder
<1> QED
  BY <1>4

(* and four.                                                                  *)
LEMMA DoesWritten4 ==
  ASSUME NEW pg, NEW U, Memory(pg, U), NEW a, Proper(a), NEW b, Proper(b), NEW c, Proper(c),
         NEW d, Proper(d),
         NEW l, l = a.number, NEW m, m = b.number, NEW n, n = c.number, NEW o, o = d.number,
         NEW pg2, pg2 = Written(pg, <<a, b, c, d>>)
  PROVE  Does(pg, U, Writes(pg2, <<l, m, n, o>>), pg2, U)
<1> DEFINE nodes == <<a, b, c, d>>
           ns    == <<l, m, n, o>>
<1>1. /\ Len(nodes) = 4 /\ nodes[1] = a /\ nodes[2] = b /\ nodes[3] = c /\ nodes[4] = d
      /\ Len(ns) = 4 /\ ns[1] = l /\ ns[2] = m /\ ns[3] = n /\ ns[4] = o
  OBVIOUS
<1>2. ns \in Seq(Numbers)
  BY DEF Proper, Node
<1>3. pg2 = Written(pg, nodes)
  OBVIOUS
<1>4. Does(pg, U, Writes(pg2, ns), pg2, U)
  <2> HIDE DEF nodes, ns
  <2>1. Len(nodes) \in Nat /\ Len(ns) = Len(nodes) /\ 1 .. Len(nodes) = {1, 2, 3, 4}
    BY <1>1
  <2>2. \A i \in 1 .. Len(nodes) : Proper(nodes[i]) /\ ns[i] = nodes[i].number
    BY <1>1, <2>1
  <2> QED
    BY <1>2, <1>3, <2>1, <2>2, DoesInOrder
<1> QED
  BY <1>4

(* The meta page holds the root's number that db->meta points to.            *)
MetaKept ==
  proc' = "running" /\ page[0] = MetaPage(meta) => page'[0] = MetaPage(meta')

(* The accesses that a step of the tree leaves do the step.                  *)
Follows == Does(page, used, todo', page', used') /\ MetaKept

(* A step that writes the leaf that a search found, and nothing else.        *)
LEMMA LeafFollows ==
  ASSUME NEW U, InvOf(U), Called, NEW k \in Keys, NEW p, Proper(p), p.number = Leaf(k).number,
         page' = Written(page, <<p>>), used' = used, meta' = meta,
         todo' = Path(k) \o Writes(page', <<Leaf(k).number>>)
  PROVE  Follows
<1>1. Memory(page, used)
  BY InvMemory
<1>2. PICK n : n = Leaf(k).number
  OBVIOUS
<1>3. Does(page, used, Writes(page', <<n>>), page', used)
  BY <1>1, <1>2, DoesWritten1
<1>4. Does(page, used, Path(k), page, used)
  BY PathDoes
<1>5. Does(page, used, todo', page', used')
  BY <1>2, <1>3, <1>4, DoesCat
<1>6. n # 0
  <2>1. PICK lo, hi, ht : Standing(U, lo, hi, ht)
    BY CalledStanding
  <2>2. PICK x : LeafOf(U, x, lo, hi, k)
    BY <2>1, LeafIs
  <2>3. Leaf(k) = page[x] /\ page[x].number = x /\ x \in U
    BY <2>1, <2>2, StandingLeaf
  <2>4. 0 \notin U
    BY <2>1, TreeNumbers DEF Standing
  <2> QED
    BY <1>2, <2>3, <2>4
<1>7. page'[0] = page[0]
  <2>1. 0 \in DOMAIN page
    BY <1>1 DEF Memory, Numbers
  <2> QED
    BY <1>2, <1>6, <2>1, Written1
<1> QED
  BY <1>5, <1>7 DEF Follows, MetaKept

(* The meta page is a page to be written at 0.                                *)
LEMMA MetaProper ==
  ASSUME NEW m \in Numbers
  PROVE  Proper(MetaPage(m)) /\ MetaPage(m).number = 0
<1>1. MetaPage(m).kind = "Meta"
  BY DEF MetaPage, Blank
<1> QED
  BY <1>1, MetaIs DEF Proper

(* The first page of a tree.                                                 *)
LEMMA InsertFirstFollows ==
  ASSUME NEW U, InvOf(U), NEW k \in Keys, NEW v \in Values, InsertFirst(k, v),
         todo' = Alloc(used) \o Writes(page', <<FindFree(used), 0>>)
  PROVE  Follows
<1>1. Memory(page, used)
  BY InvMemory
<1>2. PICK m : m = FindFree(used)
  OBVIOUS
<1>3. m \in Numbers
  BY <1>1, <1>2, FreeIs DEF Memory
<1>4. PICK n, e : n = FirstLeaf(m, k, v) /\ e = MetaPage(m)
  OBVIOUS
<1>5. Proper(n) /\ n.number = m /\ Proper(e) /\ e.number = 0
  BY <1>3, <1>4, FirstLeafIs, MetaProper DEF Proper
<1>6. /\ meta' = m /\ page' = Written(page, <<n, e>>) /\ used' = Marked(used)
      /\ proc' = IF m = 0 THEN "indexFull" ELSE "running"
  BY <1>2, <1>4 DEF InsertFirst, FirstLeaf
<1>7. Does(page, used, Alloc(used), page, used')
  BY <1>1, <1>6, DoesAlloc
<1>8. Memory(page, used')
  BY <1>7 DEF Does
<1>9. Does(page, used', Writes(page', <<m, 0>>), page', used')
  BY <1>5, <1>6, <1>8, DoesWritten2
<1>10. Does(page, used, todo', page', used')
  BY <1>2, <1>7, <1>9, DoesCat
<1>11. page'[0] = e
  <2>1. 0 \in DOMAIN page
    BY <1>1 DEF Memory, Numbers
  <2> QED
    BY <1>5, <1>6, <2>1, Written2
<1> QED
  BY <1>4, <1>6, <1>10, <1>11 DEF Follows, MetaKept

(* Insertions and deletions that change one leaf.                            *)
LEMMA UpdatedProper ==
  ASSUME NEW n, NEW p, NEW k, NEW v, NEW d, NEW l, NEW h, Updated(n, p, k, v, d, l, h)
  PROVE  Proper(p) /\ p.number = n.number
BY Kinds DEF Updated, Shape, Proper

(* An update in a leaf.                                                       *)
LEMMA InsertExistingFollows ==
  ASSUME NEW U, InvOf(U), NEW k \in Keys, NEW v \in Values, InsertExisting(k, v),
         todo' = Path(k) \o Writes(page', <<Leaf(k).number>>)
  PROVE  Follows
<1>1. PICK p : p = InsertSame(Leaf(k), k, v)
  OBVIOUS
<1>2. /\ Called /\ Present(k) /\ page' = Written(page, <<p>>)
      /\ used' = used /\ meta' = meta
  BY <1>1 DEF InsertExisting
<1>3. PICK lo, hi, ht : Standing(U, lo, hi, ht)
  BY <1>2, CalledStanding
<1>4. PICK x : LeafOf(U, x, lo, hi, k)
  BY <1>3, LeafIs
<1>5. /\ Leaf(k) = page[x] /\ page[x] \in Node /\ Shape(page[x])
      /\ page[x].kind \in Leaves /\ Ordered(page[x], lo[x], hi[x])
      /\ lo[x] \in Nat /\ hi[x] \in Nat
      /\ Present(k) = ~Misses(page[x], k)
  BY <1>3, <1>4, StandingLeaf
<1>6. PICK i \in 1 .. Size(page[x]) : page[x].keys[i] = k
  BY <1>2, <1>5 DEF Misses
<1>7. Updated(page[x], p, k, v, 0, lo[x], hi[x])
  BY <1>1, <1>5, <1>6, InsertSameUpdates
<1>8. Proper(p) /\ p.number = Leaf(k).number
  BY <1>5, <1>7, UpdatedProper
<1> QED
  BY <1>2, <1>8, LeafFollows

(* An insertion into a leaf with room.                                        *)
LEMMA InsertWithRoomFollows ==
  ASSUME NEW U, InvOf(U), NEW k \in Keys, NEW v \in Values, InsertWithRoom(k, v),
         todo' = Path(k) \o Writes(page', <<Leaf(k).number>>)
  PROVE  Follows
<1>1. PICK p : p = InsertIntoLeaf(Leaf(k), k, v)
  OBVIOUS
<1>2. /\ Called /\ ~Present(k) /\ page' = Written(page, <<p>>)
      /\ used' = used /\ meta' = meta
  BY <1>1 DEF InsertWithRoom
<1>3. PICK lo, hi, ht : Standing(U, lo, hi, ht)
  BY <1>2, CalledStanding
<1>4. PICK x : LeafOf(U, x, lo, hi, k)
  BY <1>3, LeafIs
<1>5. /\ Leaf(k) = page[x] /\ page[x] \in Node /\ Shape(page[x])
      /\ page[x].kind \in Leaves /\ Ordered(page[x], lo[x], hi[x])
      /\ lo[x] \in Nat /\ hi[x] \in Nat /\ lo[x] <= k /\ k < hi[x]
      /\ Present(k) = ~Misses(page[x], k)
  BY <1>3, <1>4, StandingLeaf
<1>6. \A i \in 1 .. Size(page[x]) : page[x].keys[i] # k
  BY <1>2, <1>5 DEF Misses
<1>7. Updated(page[x], p, k, v, 1, lo[x], hi[x])
  BY <1>1, <1>5, <1>6, InsertIntoLeafUpdates
<1>8. Proper(p) /\ p.number = Leaf(k).number
  BY <1>5, <1>7, UpdatedProper
<1> QED
  BY <1>2, <1>8, LeafFollows

(* A deletion from a leaf with keys to spare.                                 *)
LEMMA DeleteFromLeafFollows ==
  ASSUME NEW U, InvOf(U), NEW k \in Keys, DeleteFromLeaf(k),
         todo' = Path(k) \o Writes(page', <<Leaf(k).number>>)
  PROVE  Follows
<1>1. PICK p : p = DeleteKeyLeaf(Leaf(k), k)
  OBVIOUS
<1>2. /\ Called /\ Present(k) /\ page' = Written(page, <<p>>)
      /\ used' = used /\ meta' = meta
  BY <1>1 DEF DeleteFromLeaf
<1>3. PICK lo, hi, ht : Standing(U, lo, hi, ht)
  BY <1>2, CalledStanding
<1>4. PICK x : LeafOf(U, x, lo, hi, k)
  BY <1>3, LeafIs
<1>5. /\ Leaf(k) = page[x] /\ page[x] \in Node /\ Shape(page[x])
      /\ page[x].kind \in Leaves /\ Ordered(page[x], lo[x], hi[x])
      /\ lo[x] \in Nat /\ hi[x] \in Nat
      /\ Present(k) = ~Misses(page[x], k)
  BY <1>3, <1>4, StandingLeaf
<1>6. PICK i \in 1 .. Size(page[x]) : page[x].keys[i] = k
  BY <1>2, <1>5 DEF Misses
<1>7. Updated(page[x], p, k, Absent, -1, lo[x], hi[x])
  BY <1>1, <1>5, <1>6, DeleteKeyLeafUpdates
<1>8. Proper(p) /\ p.number = Leaf(k).number
  BY <1>5, <1>7, UpdatedProper
<1> QED
  BY <1>2, <1>8, LeafFollows

(* Insertions that divide a leaf.                                            *)
LEMMA DividedProper ==
  ASSUME NEW L, NEW R, NEW x, NEW m, NEW kind, NEW a, NEW b, Divided(L, R, x, m, kind, a, b)
  PROVE  Proper(L) /\ Proper(R) /\ L.number = x /\ R.number = m
BY Kinds DEF Divided, Shape, Proper

(* Two numbers are taken.                                                    *)
LEMMA DoesAllocTwo ==
  ASSUME NEW pg, NEW U, Memory(pg, U), NEW W, W = Marked(U), NEW U2, U2 = Marked(W)
  PROVE  /\ Does(pg, U, Alloc(U), pg, W) /\ Does(pg, W, Alloc(W), pg, U2)
         /\ FindFree(U) \in Numbers /\ FindFree(W) \in Numbers
<1>1. Does(pg, U, Alloc(U), pg, W)
  BY DoesAlloc
<1>2. Memory(pg, W)
  BY <1>1 DEF Does
<1>3. Does(pg, W, Alloc(W), pg, U2)
  BY <1>2, DoesAlloc
<1>4. U \subseteq PageNums /\ W \subseteq PageNums
  BY <1>2 DEF Memory
<1> QED
  BY <1>1, <1>3, <1>4, FreeIs

(* The split of a root that is a leaf, which takes two numbers.               *)
LEMMA SplittingRootLeafFollows ==
  ASSUME NEW U, InvOf(U), NEW k \in Keys, NEW v \in Values, InsertSplittingRootLeaf(k, v),
         todo' = Path(k) \o Alloc(used) \o Alloc(Marked(used))
                   \o Writes(page', <<Leaf(k).number, FindFree(used), FindFree(Marked(used)), 0>>)
  PROVE  Follows
<1>1. PICK W : W = Marked(used)
  OBVIOUS
<1>2. PICK m, s : m = FindFree(used) /\ s = FindFree(W)
  OBVIOUS
<1>3. PICK d : d = DivideLeaf(Leaf(k), k, v, m)
  OBVIOUS
<1>4. PICK p, q : p = Given(d.p, s) /\ q = Given(d.s, s)
  OBVIOUS
<1>5. PICK top, e : top = CreateRoot(s, Head(q.keys), p.number, m) /\ e = MetaPage(s)
  OBVIOUS
<1>6. /\ NeedsSplit(k) /\ meta' = s /\ page' = Written(page, <<p, q, top, e>>)
      /\ used' = Marked(W)
  BY <1>1, <1>2, <1>3, <1>4, <1>5 DEF InsertSplittingRootLeaf, Given
<1>7. Called
  BY <1>6 DEF NeedsSplit
<1>8. PICK lo, hi, ht : Standing(U, lo, hi, ht)
  BY <1>7, CalledStanding
<1>9. PICK x : LeafOf(U, x, lo, hi, k)
  BY <1>8, LeafIs
<1>10. /\ Leaf(k) = page[x] /\ page[x] \in Node /\ page[x].number = x /\ Shape(page[x])
       /\ page[x].kind \in Leaves /\ Size(page[x]) = NodesUp
       /\ lo[x] \in Nat /\ hi[x] \in Nat /\ Ordered(page[x], lo[x], hi[x])
       /\ lo[x] <= k /\ k < hi[x] /\ Misses(page[x], k) /\ x \in Numbers
  BY <1>6, <1>8, <1>9, SplitLeafIs
<1>11. Memory(page, used)
  BY InvMemory
<1>12. /\ Does(page, used, Alloc(used), page, W) /\ Does(page, W, Alloc(W), page, used')
       /\ m \in Numbers /\ s \in Numbers
  BY <1>1, <1>2, <1>6, <1>11, DoesAllocTwo
<1>13. /\ Divided(d.p, d.s, x, m, "Leaf", NodesDown, NodesDown + 1)
       /\ Head(d.s.keys) \in Keys
  BY <1>3, <1>10, <1>12, DivideLeafTyped
<1>14. /\ p \in Node /\ Shape(p) /\ p.number = x /\ q \in Node /\ Shape(q) /\ q.number = m
       /\ q.keys = d.s.keys
  BY <1>4, <1>12, <1>13, GivenIs DEF Divided
<1>15. top \in Node /\ Shape(top) /\ top.number = s
  BY <1>5, <1>10, <1>12, <1>13, <1>14, CreateRootTyped
<1>16. Proper(p) /\ Proper(q) /\ Proper(top)
  BY <1>14, <1>15, Kinds DEF Shape, Proper
<1>17. Proper(e) /\ e.number = 0
  BY <1>5, <1>12, MetaProper
<1>18. Memory(page, used')
  BY <1>12 DEF Does
<1>19. Does(page, used', Writes(page', <<x, m, s, 0>>), page', used')
  BY <1>6, <1>14, <1>15, <1>16, <1>17, <1>18, DoesWritten4
<1>20. Does(page, used, Path(k), page, used)
  BY <1>7, PathDoes
<1>21. todo' = ((Path(k) \o Alloc(used)) \o Alloc(W)) \o Writes(page', <<x, m, s, 0>>)
  BY <1>1, <1>2, <1>10
<1>22. Does(page, used, Path(k) \o Alloc(used), page, W)
  BY <1>12, <1>20, DoesCat
<1>23. Does(page, used, (Path(k) \o Alloc(used)) \o Alloc(W), page, used')
  BY <1>12, <1>22, DoesCat
<1>24. Does(page, used, todo', page', used')
  <2>1. PICK t1, t2 :
          /\ t1 = (Path(k) \o Alloc(used)) \o Alloc(W) /\ t2 = Writes(page', <<x, m, s, 0>>)
    OBVIOUS
  <2>2. todo' = t1 \o t2
    BY <1>21, <2>1
  <2>3. Does(page, used, t1, page, used') /\ Does(page, used', t2, page', used')
    BY <1>19, <1>23, <2>1
  <2>4. Does(page, used, t1 \o t2, page', used')
    BY <2>3, DoesCat
  <2> QED
    BY <2>2, <2>4
<1>25. page'[0] = e
  <2>1. 0 \in DOMAIN page
    BY <1>11 DEF Memory, Numbers
  <2> QED
    BY <1>6, <1>17, <2>1, Written4
<1> QED
  BY <1>5, <1>6, <1>24, <1>25 DEF Follows, MetaKept

(* What the two steps that divide a leaf below an inner page have in common: *)
(* the reads, the new number and the pages.                                  *)
SplitsUnder(k, x, P, m, d) ==
  /\ Proper(d.p) /\ d.p.number = x /\ Proper(d.s) /\ d.s.number = m
  /\ Head(d.s.keys) \in Keys /\ m \in Numbers
  /\ Leaf(k).number = x /\ Leaf(k).parent = P /\ x # 0 /\ P # 0
  /\ page[P] \in Node /\ Shape(page[P]) /\ page[P].kind \in Interiors /\ page[P].number = P
  /\ 0 \in DOMAIN page /\ Memory(page, used')
  /\ Does(page, used, (Path(k) \o <<Read(page, P)>>) \o Alloc(used), page, used')

(* A full leaf below a parent, and what its split makes of it.                *)
LEMMA SplittingUnderParent ==
  ASSUME NEW U, InvOf(U), NEW k \in Keys, NEW v \in Values, NeedsSplit(k), Leaf(k).parent # 0,
         NEW m, m = FindFree(used), NEW d, d = DivideLeaf(Leaf(k), k, v, m),
         used' = Marked(used)
  PROVE  \E x, P : SplitsUnder(k, x, P, m, d)
<1>1. Called
  BY DEF NeedsSplit
<1>2. PICK lo, hi, ht : Standing(U, lo, hi, ht)
  BY <1>1, CalledStanding
<1>3. PICK x : LeafOf(U, x, lo, hi, k)
  BY <1>2, LeafIs
<1>4. /\ Leaf(k) = page[x] /\ page[x] \in Node /\ page[x].number = x /\ Shape(page[x])
      /\ page[x].kind \in Leaves /\ Size(page[x]) = NodesUp
      /\ lo[x] \in Nat /\ hi[x] \in Nat /\ Ordered(page[x], lo[x], hi[x])
      /\ lo[x] <= k /\ k < hi[x] /\ Misses(page[x], k) /\ x \in Numbers /\ x \in PageNums
  BY <1>2, <1>3, SplitLeafIs
<1>5. PICK P : P = Leaf(k).parent
  OBVIOUS
<1>6. P = page[x].parent /\ P # 0
  BY <1>4, <1>5
<1>7. P \in Numbers /\ page[P] \in Node /\ Shape(page[P]) /\ page[P].kind \in Interiors
  BY <1>2, <1>3, <1>6, SplitParentIs
<1>8. Memory(page, used) /\ Pages(page) /\ 0 \in DOMAIN page
  BY <1>1, InvMemory, CalledStanding DEF Memory, Numbers
<1>9. page[P] # Blank
  BY <1>7, BlankIs, Kinds
<1>10. page[P].number = P
  BY <1>7, <1>8, <1>9 DEF Pages
<1>11. m \in Numbers
  BY <1>8, FreeIs DEF Memory
<1>12. Divided(d.p, d.s, x, m, "Leaf", NodesDown, NodesDown + 1) /\ Head(d.s.keys) \in Keys
  BY <1>4, <1>11, DivideLeafTyped
<1>13. Proper(d.p) /\ d.p.number = x /\ Proper(d.s) /\ d.s.number = m
  BY <1>12, DividedProper
<1>14. Does(page, used, <<Read(page, P)>>, page, used)
  <2>1. P \in PageNums
    BY <1>6, <1>7 DEF Numbers
  <2> QED
    BY <1>8, <1>9, <2>1, DoesRead
<1>15. Does(page, used, Path(k) \o <<Read(page, P)>>, page, used)
  BY <1>1, <1>14, PathDoes, DoesCat
<1>16. Does(page, used, Alloc(used), page, used')
  BY <1>8, DoesAlloc
<1>17. Memory(page, used')
  BY <1>16 DEF Does
<1>18. Does(page, used, (Path(k) \o <<Read(page, P)>>) \o Alloc(used), page, used')
  BY <1>15, <1>16, DoesCat
<1>19. x # 0
  BY <1>4, BTreeAssumption, BTreeNodeAssumption
<1> QED
  BY <1>4, <1>5, <1>6, <1>7, <1>8, <1>10, <1>11, <1>12, <1>13, <1>17, <1>18, <1>19 DEF SplitsUnder

(* The split of a leaf below a node with room.                                *)
LEMMA SplittingLeafFollows ==
  ASSUME NEW U, InvOf(U), NEW k \in Keys, NEW v \in Values, InsertSplittingLeaf(k, v),
         todo' = Path(k) \o <<Read(page, Leaf(k).parent)>> \o Alloc(used)
                   \o Writes(page', <<Leaf(k).number, FindFree(used), Leaf(k).parent>>)
  PROVE  Follows
<1>1. PICK m : m = FindFree(used)
  OBVIOUS
<1>2. PICK d : d = DivideLeaf(Leaf(k), k, v, m)
  OBVIOUS
<1>3. /\ NeedsSplit(k) /\ Leaf(k).parent # 0 /\ meta' = meta /\ used' = Marked(used)
      /\ page' = Written(page, <<d.p, d.s,
                   InsertIntoIntermediate(page[Leaf(k).parent], Head(d.s.keys), m)>>)
      /\ proc' = After(Leaf(k), {m})
  BY <1>1, <1>2 DEF InsertSplittingLeaf
<1>4. PICK x, P : SplitsUnder(k, x, P, m, d)
  BY <1>1, <1>2, <1>3, SplittingUnderParent
<1>5. /\ Proper(d.p) /\ d.p.number = x /\ Proper(d.s) /\ d.s.number = m
      /\ Head(d.s.keys) \in Keys /\ m \in Numbers
      /\ Leaf(k).number = x /\ Leaf(k).parent = P /\ x # 0 /\ P # 0
      /\ page[P] \in Node /\ Shape(page[P]) /\ page[P].kind \in Interiors /\ page[P].number = P
      /\ 0 \in DOMAIN page /\ Memory(page, used')
      /\ Does(page, used, (Path(k) \o <<Read(page, P)>>) \o Alloc(used), page, used')
  BY <1>4 DEF SplitsUnder
<1>6. PICK n2 : n2 = InsertIntoIntermediate(page[P], Head(d.s.keys), m)
  OBVIOUS
<1>7. Proper(n2) /\ n2.number = P
  BY <1>5, <1>6, InsertTyped, Kinds DEF Proper
<1>8. page' = Written(page, <<d.p, d.s, n2>>)
  BY <1>3, <1>5, <1>6
<1>9. Does(page, used', Writes(page', <<x, m, P>>), page', used')
  BY <1>5, <1>7, <1>8, DoesWritten3
<1>10. Does(page, used, todo', page', used')
  <2>1. PICK t1, t2 :
          /\ t1 = (Path(k) \o <<Read(page, P)>>) \o Alloc(used)
          /\ t2 = Writes(page', <<x, m, P>>)
    OBVIOUS
  <2>2. todo' = t1 \o t2
    BY <1>1, <1>5, <2>1
  <2>3. Does(page, used, t1, page, used') /\ Does(page, used', t2, page', used')
    BY <1>5, <1>9, <2>1
  <2>4. Does(page, used, t1 \o t2, page', used')
    BY <2>3, DoesCat
  <2> QED
    BY <2>2, <2>4
<1>11. m # 0 => page'[0] = page[0]
  BY <1>5, <1>7, <1>8, Written3
<1>12. proc' = "running" => m # 0
  BY <1>3 DEF After
<1> QED
  BY <1>3, <1>10, <1>11, <1>12 DEF Follows, MetaKept

(* The split of a leaf below a full node, which is left to the climb.         *)
LEMMA SplittingDeepFollows ==
  ASSUME NEW U, InvOf(U), NEW k \in Keys, NEW v \in Values, InsertSplittingDeep(k, v),
         todo' = Path(k) \o <<Read(page, Leaf(k).parent)>> \o Alloc(used)
                   \o Writes(page', <<Leaf(k).number, FindFree(used)>>)
  PROVE  Follows
<1>1. PICK m : m = FindFree(used)
  OBVIOUS
<1>2. PICK d : d = DivideLeaf(Leaf(k), k, v, m)
  OBVIOUS
<1>3. /\ NeedsSplit(k) /\ Leaf(k).parent # 0 /\ meta' = meta /\ used' = Marked(used)
      /\ page' = Written(page, <<d.p, d.s>>)
      /\ proc' = After(Leaf(k), {m})
  BY <1>1, <1>2 DEF InsertSplittingDeep
<1>4. PICK x, P : SplitsUnder(k, x, P, m, d)
  BY <1>1, <1>2, <1>3, SplittingUnderParent
<1>5. /\ Proper(d.p) /\ d.p.number = x /\ Proper(d.s) /\ d.s.number = m
      /\ Leaf(k).number = x /\ Leaf(k).parent = P /\ x # 0
      /\ 0 \in DOMAIN page /\ Memory(page, used')
      /\ Does(page, used, (Path(k) \o <<Read(page, P)>>) \o Alloc(used), page, used')
  BY <1>4 DEF SplitsUnder
<1>6. Does(page, used', Writes(page', <<x, m>>), page', used')
  BY <1>3, <1>5, DoesWritten2
<1>7. Does(page, used, todo', page', used')
  <2>1. PICK t1, t2 :
          /\ t1 = (Path(k) \o <<Read(page, P)>>) \o Alloc(used)
          /\ t2 = Writes(page', <<x, m>>)
    OBVIOUS
  <2>2. todo' = t1 \o t2
    BY <1>1, <1>5, <2>1
  <2>3. Does(page, used, t1, page, used') /\ Does(page, used', t2, page', used')
    BY <1>5, <1>6, <2>1
  <2>4. Does(page, used, t1 \o t2, page', used')
    BY <2>3, DoesCat
  <2> QED
    BY <2>2, <2>4
<1>8. m # 0 => page'[0] = page[0]
  BY <1>3, <1>5, Written2
<1>9. proc' = "running" => m # 0
  BY <1>3 DEF After
<1> QED
  BY <1>3, <1>7, <1>8, <1>9 DEF Follows, MetaKept

(* Splits of inner pages.  The children that move to the new page are        *)
(* different pages of the tree.                                              *)
LEMMA SplittingChildren ==
  ASSUME NEW U, InvOf(U), Pending("split"), NEW m \in Numbers, NEW d, d = SplitOf(m),
         NEW q \in Node, q.links = d.s.links, q.number = m
  PROVE  Children(q)
<1>1. PICK x, b : x = call.node.number /\ b = d.s
  OBVIOUS
<1>2. proc = "running" /\ call # Idle
  BY DEF Pending, Idle
<1>3. PICK lo, hi, ht : Climbing(U, lo, hi, ht)
  BY <1>2, PendingClimbing
<1>4. Pages(page)
  BY <1>2, PendingClimbing
<1>5. PICK n, V, r : n = call.node /\ V = View /\ r = root.number
  OBVIOUS
<1>6. Tree(V, U, r, lo, hi, ht)
  BY <1>3, <1>5 DEF Climbing
<1>7. /\ n \in Node /\ Shape(n) /\ n.kind \in Interiors /\ Size(n) = NodesUp
      /\ call.key \in Keys /\ call.link \in Numbers
      /\ d = DivideIntermediate(n, call.key, call.link, m)
      /\ V[x] = InsertIntoIntermediate(n, call.key, call.link)
      /\ V[x].kind = n.kind /\ Size(V[x]) = NodesUp + 1 /\ x \in U
      /\ Divided(d.p, d.s, x, m, "Intermediate", NodesDown, NodesDown)
  BY <1>1, <1>5, SplittingIs
<1>8. Shape(b) /\ b.kind \in Interiors /\ Size(b) = NodesDown
  BY <1>1, <1>7, Kinds DEF Divided
<1>9. Len(b.links) = NodesDown + 1
  BY <1>8 DEF Shape
<1>10. \A i \in 1 .. NodesDown + 1 : b.links[i] = V[x].links[NodesDown + 1 + i]
  BY <1>1, <1>7, UpperLinks
<1>11. \A c \in Under(b) : c \in U /\ page[c].number = c
  BY <1>1, SplittingUnder
<1>12. ASSUME NEW i \in 1 .. Len(q.links)
       PROVE  LET c == q.links[i]
              IN  c \in PageNums /\ page[c] # Blank /\ page[c].number = c
  <2>1. PICK c : c = q.links[i]
    OBVIOUS
  <2>2. c \in Under(b)
    BY <1>1, <1>8, <1>9, <2>1 DEF Under
  <2>3. c \in U /\ page[c].number = c
    BY <1>11, <2>2
  <2>4. c \in PageNums /\ c \in Numbers
    BY <1>6, <2>3, TreePage
  <2> QED
    BY <1>4, <2>1, <2>3, <2>4, NotBlank
<1>13. ASSUME NEW i \in 1 .. Len(q.links), NEW j \in 1 .. Len(q.links), q.links[i] = q.links[j]
       PROVE  i = j
  <2>1. PICK i2, j2 : i2 = NodesDown + 1 + i /\ j2 = NodesDown + 1 + j
    OBVIOUS
  <2>2. i \in 1 .. NodesDown + 1 /\ j \in 1 .. NodesDown + 1
    BY <1>1, <1>9
  <2>3. V[x].links[i2] = V[x].links[j2]
    BY <1>1, <1>10, <1>13, <2>1, <2>2
  <2>4. i2 \in 1 .. Size(V[x]) + 1 /\ j2 \in 1 .. Size(V[x]) + 1
    <3>1. PICK D, e : D = NodesDown /\ e = Size(V[x])
      OBVIOUS
    <3>2. D \in Nat /\ e = 2 * D + 1
      BY <1>7, <3>1, NodesDownIs
    <3>3. i \in 1 .. D + 1 /\ j \in 1 .. D + 1 /\ i2 = D + 1 + i /\ j2 = D + 1 + j
      BY <2>1, <2>2, <3>1
    <3>4. i2 \in 1 .. e + 1 /\ j2 \in 1 .. e + 1
      BY <3>2, <3>3
    <3> QED
      BY <3>1, <3>4
  <2>5. V[x].kind \in Interiors
    BY <1>7
  <2>6. i2 = j2
    BY <1>6, <1>7, <2>3, <2>4, <2>5, LinksDiffer
  <2> QED
    BY <2>1, <2>2, <2>6, NodesDownIs
<1>14. q.links \in Seq(Numbers)
  BY NodeFields
<1> QED
  BY <1>12, <1>13, <1>14 DEF Children

(* The accesses to the children depend on their numbers only.                *)
LEMMA ParentsAlike ==
  ASSUME NEW node, NEW q, q.links = node.links, q.number = node.number
  PROVE  Parents(q) = Parents(node)
BY DEF Parents

(* The split of an inner root.                                                *)
LEMMA SplitRootFollows ==
  ASSUME NEW U, InvOf(U), SplitRoot,
         todo' = Alloc(used) \o Parents(SplitOf(FindFree(used)).s) \o Alloc(Marked(used))
                   \o Writes(page', <<call.node.number, FindFree(used),
                                      FindFree(Marked(used)), 0>>)
  PROVE  Follows
<1>1. PICK W : W = Marked(used)
  OBVIOUS
<1>2. PICK m, s, x : m = FindFree(used) /\ s = FindFree(W) /\ x = call.node.number
  OBVIOUS
<1>3. PICK d : d = SplitOf(m)
  OBVIOUS
<1>4. PICK p, q : p = Given(d.p, s) /\ q = Given(d.s, s)
  OBVIOUS
<1>5. PICK top, wp, e : /\ top = CreateRoot(s, d.key, p.number, m)
                        /\ wp = WriteParents(page, q) /\ e = MetaPage(meta)
  OBVIOUS
<1>6. /\ Pending("split") /\ page' = Written(wp, <<p, q, top, e>>)
      /\ used' = Marked(W) /\ meta' = meta
  BY <1>1, <1>2, <1>3, <1>4, <1>5 DEF SplitRoot, Given
<1>7. Memory(page, used) /\ TypeOK
  BY InvMemory
<1>8. /\ Does(page, used, Alloc(used), page, W) /\ Does(page, W, Alloc(W), page, used')
      /\ m \in Numbers /\ s \in Numbers
  BY <1>1, <1>2, <1>6, <1>7, DoesAllocTwo
<1>9. /\ x \in Numbers /\ d.key \in Keys
      /\ Divided(d.p, d.s, x, m, "Intermediate", NodesDown, NodesDown)
  BY <1>2, <1>3, <1>6, <1>8, SplittingIs
<1>10. /\ p \in Node /\ Shape(p) /\ p.number = x /\ q \in Node /\ Shape(q) /\ q.number = m
       /\ q.links = d.s.links /\ d.s.number = m
  <2>1. PICK a, b : a = d.p /\ b = d.s
    OBVIOUS
  <2>2. /\ a \in Node /\ Shape(a) /\ a.number = x /\ b \in Node /\ Shape(b) /\ b.number = m
        /\ p = Given(a, s) /\ q = Given(b, s)
    BY <1>4, <1>9, <2>1 DEF Divided
  <2>3. q.links = b.links
    BY <2>2 DEF Given, Node
  <2> QED
    BY <1>8, <2>1, <2>2, <2>3, GivenIs
<1>11. top \in Node /\ Shape(top) /\ top.number = s
  BY <1>5, <1>8, <1>9, <1>10, CreateRootTyped
<1>12. Proper(p) /\ Proper(q) /\ Proper(top)
  BY <1>10, <1>11, Kinds DEF Shape, Proper
<1>13. Proper(e) /\ e.number = 0
  BY <1>5, <1>7, MetaProper DEF TypeOK
<1>14. Children(q)
  BY <1>3, <1>6, <1>8, <1>10, SplittingChildren
<1>15. Parents(d.s) = Parents(q)
  BY <1>10, ParentsAlike
<1>16. Memory(page, W) /\ Memory(page, used')
  BY <1>8 DEF Does
<1>17. Does(page, W, Parents(q), wp, W)
  BY <1>5, <1>14, <1>16, DoesParents
<1>18. Does(wp, W, Alloc(W), wp, used')
  <2>1. Memory(wp, W)
    BY <1>17 DEF Does
  <2> QED
    BY <1>6, <2>1, DoesAlloc
<1>19. Does(wp, used', Writes(page', <<x, m, s, 0>>), page', used')
  <2>1. Memory(wp, used')
    BY <1>18 DEF Does
  <2> QED
    BY <1>6, <1>10, <1>11, <1>12, <1>13, <2>1, DoesWritten4
<1>20. PICK t1, t2, t3, t4 :
         /\ t1 = Alloc(used) /\ t2 = Parents(q) /\ t3 = Alloc(W)
         /\ t4 = Writes(page', <<x, m, s, 0>>)
  OBVIOUS
<1>21. todo' = ((t1 \o t2) \o t3) \o t4
  BY <1>1, <1>2, <1>3, <1>15, <1>20
<1>22. Does(page, used, t1 \o t2, wp, W)
  BY <1>8, <1>17, <1>20, DoesCat
<1>23. Does(page, used, (t1 \o t2) \o t3, wp, used')
  BY <1>18, <1>20, <1>22, DoesCat
<1>24. Does(page, used, ((t1 \o t2) \o t3) \o t4, page', used')
  BY <1>19, <1>20, <1>23, DoesCat
<1>25. Does(page, used, todo', page', used')
  BY <1>21, <1>24
<1>26. page'[0] = e
  <2>1. 0 \in DOMAIN wp
    BY <1>17 DEF Does, Memory, Numbers
  <2> QED
    BY <1>6, <1>13, <2>1, Written4
<1> QED
  BY <1>5, <1>6, <1>25, <1>26 DEF Follows, MetaKept

(* The page that a pending split names as its parent is there.               *)
LEMMA SplittingParent ==
  ASSUME NEW U, InvOf(U), Pending("split"), NEW P, P = call.node.parent, P # 0
  PROVE  P \in PageNums /\ page[P] # Blank /\ page[P].number = P
<1>1. PICK x, m : x = call.node.number /\ m = FindFree(used)
  OBVIOUS
<1>2. proc = "running" /\ call # Idle
  BY DEF Pending, Idle
<1>3. PICK lo, hi, ht : Climbing(U, lo, hi, ht)
  BY <1>2, PendingClimbing
<1>4. /\ TypeOK /\ Pages(page)
      /\ \A n \in Numbers : View[n] = IF n = x THEN PendingNode ELSE page[n]
  BY <1>1, <1>2, PendingClimbing
<1>5. PICK V, r : V = View /\ r = root.number
  OBVIOUS
<1>6. Tree(V, U, r, lo, hi, ht) /\ root = page[r] /\ OrphanOK
  BY <1>3, <1>5 DEF Climbing
<1>7. m \in Numbers
  BY <1>1, <1>4, FreeIs DEF TypeOK
<1>8. /\ x \in U /\ page[x] = call.node /\ call.node \in Node /\ V[x].parent = call.node.parent
  <2>1. PICK d : d = SplitOf(m)
    OBVIOUS
  <2> QED
    BY <1>1, <1>5, <1>7, <2>1, SplittingIs
<1>9. P \in PageNums /\ P \in Numbers
  BY <1>8, NodeFields DEF Numbers
<1>10. CASE x = r
  BY <1>4, <1>6, <1>8, <1>9, <1>10 DEF OrphanOK, Pages
<1>11. CASE x # r
  <2>1. P \in U /\ P # x
    BY <1>6, <1>8, <1>11, TreeParent
  <2>2. V[P].number = P
    BY <1>6, <2>1, TreePage
  <2>3. page[P].number = P
    BY <1>4, <1>5, <1>9, <2>1, <2>2
  <2> QED
    BY <1>4, <1>9, <2>3, NotBlank
<1> QED
  BY <1>10, <1>11

(* The split of an inner page below another. The halves are written before    *)
(* the parent is read, for it may be the page that was just taken.            *)
LEMMA SplitNodeFollows ==
  ASSUME NEW U, InvOf(U), SplitNode, todo' = SplitAccesses
  PROVE  Follows
<1>1. PICK m, x, P : m = FindFree(used) /\ x = call.node.number /\ P = call.node.parent
  OBVIOUS
<1>2. PICK d : d = SplitOf(m)
  OBVIOUS
<1>3. PICK a, b : a = d.p /\ b = d.s
  OBVIOUS
<1>4. PICK wp, pg : wp = WriteParents(page, b) /\ pg = Written(wp, <<a, b>>)
  OBVIOUS
<1>5. pg = SplitWritten(m)
  BY <1>2, <1>3, <1>4 DEF SplitWritten
<1>6. PICK parent, taken : /\ parent = pg[a.parent]
                           /\ taken = IF parent.kind \in Interiors
                                      THEN InsertIntoIntermediate(parent, d.key, m)
                                      ELSE parent
  OBVIOUS
<1>7. /\ Pending("split") /\ P # 0
      /\ used' = Marked(used) /\ proc' = After(call.node, {m}) /\ meta' = meta
      /\ IF ~Full(parent)
         THEN page' = Written(pg, <<taken>>) /\ call' = Idle
         ELSE page' = pg /\ call' # Idle
  BY <1>1, <1>2, <1>3, <1>5, <1>6 DEF SplitNode, Idle
<1>8. TypeOK /\ Memory(page, used)
  BY InvMemory
<1>9. Pages(page)
  BY <1>7, PendingClimbing DEF Pending, Idle
<1>10. m \in Numbers
  BY <1>1, <1>8, FreeIs DEF TypeOK
<1>11. /\ x \in Numbers /\ x # 0 /\ d.key \in Keys
       /\ Divided(a, b, x, m, "Intermediate", NodesDown, NodesDown) /\ a.parent = P
  BY <1>1, <1>2, <1>3, <1>7, <1>10, SplittingIs
<1>12. /\ a \in Node /\ Shape(a) /\ a.number = x
       /\ b \in Node /\ Shape(b) /\ b.number = m /\ b.kind \in Interiors
  BY <1>11, Kinds DEF Divided
<1>13. Proper(a) /\ Proper(b)
  BY <1>11, DividedProper
<1>14. \A c \in Under(b) : c \in U /\ page[c].number = c
  BY <1>2, <1>3, <1>7, <1>10, SplittingUnder
<1>15. /\ Pages(wp) /\ Lasting(page, wp)
       /\ \A n \in Numbers :
            wp[n] = IF n \in Under(b) THEN [page[n] EXCEPT !.parent = m] ELSE page[n]
  BY <1>4, <1>8, <1>9, <1>12, <1>14, WriteParentsPages, WriteParentsIs DEF Memory
<1>16. \A n \in Numbers : pg[n] = IF n = m THEN b ELSE IF n = x THEN a ELSE wp[n]
  BY <1>4, <1>12, <1>15, Written2 DEF Pages
<1>17. P \in PageNums /\ P \in Numbers /\ page[P] # Blank /\ page[P].number = P
  BY <1>1, <1>7, SplittingParent DEF Numbers
<1>18. pg[P] # Blank /\ pg[P].number = P /\ pg[P] \in Node /\ ShapeOK(pg[P])
  <2>1. wp[P] # Blank /\ wp[P].number = P /\ wp[P] \in Node /\ ShapeOK(wp[P])
    BY <1>15, <1>17 DEF Lasting, Pages
  <2>2. a # Blank /\ b # Blank /\ ShapeOK(a) /\ ShapeOK(b)
    BY <1>12, <1>13, BlankIs DEF Proper, ShapeOK
  <2> QED
    BY <1>12, <1>16, <1>17, <2>1, <2>2
<1>19. 0 \in Numbers /\ pg[0] # Blank
  <2>1. 0 \in Numbers
    BY DEF Numbers
  <2>2. page[0] # Blank
    BY <1>9, <2>1, NotBlank
  <2>3. wp[0] # Blank
    BY <1>15, <2>1, <2>2 DEF Lasting
  <2>4. b # Blank
    BY <1>13, BlankIs DEF Proper
  <2> QED
    BY <1>11, <1>16, <2>1, <2>3, <2>4
<1>20. Does(page, used, Alloc(used), page, used')
  BY <1>7, <1>8, DoesAlloc
<1>21. Does(page, used', Parents(b), wp, used')
  <2>1. Children(b)
    BY <1>2, <1>3, <1>7, <1>10, <1>12, SplittingChildren
  <2>2. Memory(page, used')
    BY <1>20 DEF Does
  <2> QED
    BY <1>4, <2>1, <2>2, DoesParents
<1>22. Does(wp, used', Writes(pg, <<x, m>>), pg, used')
  <2>1. Memory(wp, used')
    BY <1>21 DEF Does
  <2> QED
    BY <1>4, <1>12, <1>13, <2>1, DoesWritten2
<1>23. Does(pg, used', <<Read(pg, P)>>, pg, used')
  <2>1. Memory(pg, used')
    BY <1>22 DEF Does
  <2> QED
    BY <1>17, <1>18, <2>1, DoesRead
<1>24. PICK t1, t2, t3, t4, t5 :
         /\ t1 = Alloc(used) /\ t2 = Parents(b) /\ t3 = Writes(pg, <<x, m>>)
         /\ t4 = <<Read(pg, P)>>
         /\ t5 = IF call' = Idle THEN Writes(page', <<P, 0>>) ELSE <<>>
  OBVIOUS
<1>25. Does(pg, used', t5, page', used')
  <2>1. Memory(pg, used')
    BY <1>22 DEF Does
  <2>2. CASE call' = Idle
    <3>1. page' = Written(pg, <<taken>>)
      BY <1>7, <2>2
    <3>2. Actual(taken) /\ taken.number = P
      <4>1. CASE parent.kind \in Interiors
        BY <1>6, <1>10, <1>11, <1>18, <4>1, InsertTyped, BlankIs, Kinds DEF Actual, ShapeOK
      <4>2. CASE parent.kind \notin Interiors
        BY <1>6, <1>11, <1>18, <4>2 DEF Actual
      <4> QED
        BY <4>1, <4>2
    <3> DEFINE nodes == <<taken>>
               ns    == <<P, 0>>
    <3>3. /\ Len(nodes) = 1 /\ nodes[1] = taken
          /\ Len(ns) = 2 /\ ns[1] = P /\ ns[2] = 0 /\ ns \in Seq(Numbers)
      BY <1>17, <1>19
    <3>4. page' = Written(pg, nodes)
      BY <3>1
    <3>5. t5 = Writes(page', ns)
      BY <1>24, <2>2
    <3> HIDE DEF nodes, ns
    <3>6. Len(nodes) \in Nat /\ 1 .. Len(nodes) = {1} /\ 1 .. Len(ns) = {1, 2}
      BY <3>3
    <3>7. \A i \in 1 .. Len(nodes) : Actual(nodes[i])
      BY <3>2, <3>3, <3>6
    <3>8. \A i \in 1 .. Len(nodes) : \E j \in 1 .. Len(ns) : ns[j] = nodes[i].number
      BY <3>2, <3>3, <3>6
    <3>9. \A j \in 1 .. Len(ns) :
            pg[ns[j]] # Blank \/ \E i \in 1 .. Len(nodes) : ns[j] = nodes[i].number
      BY <1>18, <1>19, <3>3, <3>6
    <3> QED
      BY <2>1, <3>3, <3>4, <3>5, <3>6, <3>7, <3>8, <3>9, DoesWritten
  <2>3. CASE call' # Idle
    BY <1>7, <1>24, <2>1, <2>3, DoesNil
  <2> QED
    BY <2>2, <2>3
<1>26. todo' = (((t1 \o t2) \o t3) \o t4) \o t5
  BY <1>1, <1>2, <1>3, <1>5, <1>24 DEF SplitAccesses
<1>27. Does(page, used, t1 \o t2, wp, used')
  BY <1>20, <1>21, <1>24, DoesCat
<1>28. Does(page, used, (t1 \o t2) \o t3, pg, used')
  BY <1>22, <1>24, <1>27, DoesCat
<1>29. Does(page, used, ((t1 \o t2) \o t3) \o t4, pg, used')
  BY <1>23, <1>24, <1>28, DoesCat
<1>30. Does(page, used, (((t1 \o t2) \o t3) \o t4) \o t5, page', used')
  BY <1>25, <1>29, DoesCat
<1>31. m # 0 => page'[0] = page[0]
  <2>1. 0 \notin Under(b)
    <3>1. \A c \in U : c # 0
      <4>1. PICK lo, hi, ht : Climbing(U, lo, hi, ht)
        BY <1>7, PendingClimbing DEF Pending, Idle
      <4> QED
        BY <4>1, TreeNumbers DEF Climbing
    <3> QED
      BY <1>14, <3>1
  <2>2. m # 0 => pg[0] = page[0]
    BY <1>11, <1>15, <1>16, <1>19, <2>1
  <2>3. Written(pg, <<taken>>)[0] = pg[0]
    <3>1. taken.number = P
      BY <1>6, <1>10, <1>11, <1>18, InsertTyped DEF ShapeOK
    <3>2. 0 \in DOMAIN pg
      BY <1>19, <1>22 DEF Does, Memory
    <3> QED
      BY <1>7, <3>1, <3>2, Written1
  <2> QED
    BY <1>7, <2>2, <2>3
<1>32. proc' = "running" => m # 0
  BY <1>7 DEF After
<1> QED
  BY <1>7, <1>26, <1>30, <1>31, <1>32 DEF Follows, MetaKept

(* Underflows.  The parent and the pages next to the one that underflows are *)
(* pages of the tree.                                                        *)
LEMMA SiblingsDoes ==
  ASSUME Memory(page, used), Pages(page),
         NEW V, NEW U, NEW r, NEW lo, NEW hi, NEW ht, NEW x, NEW P, NEW map,
         Lacking(V, U, r, lo, hi, ht, x, P, map), \A y \in U \ {x} : V[y] = page[y],
         NEW n, n.number = x, n.parent = P
  PROVE  Does(page, used, ReadSiblings(n), page, used)
<1>1. /\ Tree(V, U, r, lo, hi, ht) /\ x \in U /\ x # r /\ P \in U /\ P # x /\ V[x].parent = P
  BY DEF Lacking
<1>2. ASSUME NEW y \in U, y # x
      PROVE  y \in PageNums /\ page[y] # Blank
  <2>1. V[y].number = y /\ y \in PageNums /\ y \in Numbers
    BY <1>1, TreePage
  <2>2. page[y].number = y
    BY <1>2, <2>1
  <2> QED
    BY <2>1, <2>2, NotBlank
<1>3. PICK p, z : p = page[P] /\ z = Size(p)
  OBVIOUS
<1>4. V[P] = p /\ ParentOf(n) = p
  BY <1>1, <1>3 DEF ParentOf
<1>5. p.kind \in Interiors /\ \E j \in 1 .. z + 1 : p.links[j] = x
  BY <1>1, <1>3, <1>4, TreeParent
<1>6. p \in Node /\ Shape(p) /\ z \in Nat
  BY <1>1, <1>3, <1>4, TreePage
<1>7. p.links \in Seq(Numbers) /\ Len(p.links) = z + 1
  BY <1>3, <1>5, <1>6, NodeFields DEF Shape
<1>8. PICK j \in 1 .. z + 1 : p.links[j] = x
  BY <1>5
<1>9. ASSUME NEW i \in 1 .. z + 1 PROVE p.links[i] \in U /\ (i # j => p.links[i] # x)
  <2>1. PICK c : c = p.links[i]
    OBVIOUS
  <2>2. c \in U
    BY <1>1, <1>3, <1>4, <1>5, <2>1, TreeChild
  <2>3. ASSUME c = x PROVE i = j
    <3>1. /\ Tree(V, U, r, lo, hi, ht) /\ P \in U /\ V[P].kind \in Interiors
          /\ i \in 1 .. Size(V[P]) + 1 /\ j \in 1 .. Size(V[P]) + 1
      BY <1>1, <1>3, <1>4, <1>5, <1>8
    <3>2. V[P].links[i] = V[P].links[j]
      BY <1>4, <1>8, <2>1, <2>3
    <3> QED
      BY <3>1, <3>2, LinksDiffer
  <2> QED
    BY <2>1, <2>2, <2>3
<1>10. IndexIn(p.links, x) = j
  <2>1. \A i \in 1 .. Len(p.links) : p.links[i] = p.links[j] => i = j
    BY <1>7, <1>8, <1>9
  <2>2. j \in 1 .. Len(p.links)
    BY <1>7, <1>8
  <2> QED
    BY <1>7, <1>8, <2>1, <2>2, IndexInIs
<1>11. PICK s : s = FindSibling(page, p, x)
  OBVIOUS
<1>12. s \in U /\ s # x
  <2>1. s = FindSibling(page, V[P], x)
    BY <1>4, <1>11
  <2> QED
    BY <2>1, UnderflowSibling DEF Neighboured
<1>13. PICK t1, t2, t3, t4 :
         /\ t1 = <<Read(page, P)>>
         /\ t2 = IF j > 1 THEN <<Read(page, p.links[j - 1])>> ELSE <<>>
         /\ t3 = IF j < z + 1 THEN <<Read(page, p.links[j + 1])>> ELSE <<>>
         /\ t4 = <<Read(page, s)>>
  OBVIOUS
<1>14. ReadSiblings(n) = ((t1 \o t2) \o t3) \o t4
  <2>1. ReadSiblings(n) =
          LET i == IndexIn(p.links, x)
          IN  <<Read(page, P)>>
                \o (IF i > 1 THEN <<Read(page, p.links[i - 1])>> ELSE <<>>)
                \o (IF i < Len(p.links) THEN <<Read(page, p.links[i + 1])>> ELSE <<>>)
                \o <<Read(page, s)>>
    BY <1>4, <1>11 DEF ReadSiblings, SelectInSeq, IndexIn
  <2> QED
    BY <1>7, <1>10, <1>13, <2>1
<1>15. Does(page, used, t1, page, used)
  BY <1>1, <1>2, <1>13, DoesRead
<1>16. Does(page, used, t2, page, used)
  <2>1. CASE j > 1
    <3>1. PICK i : i = j - 1
      OBVIOUS
    <3>2. i \in 1 .. z + 1 /\ i # j
      BY <1>6, <1>8, <2>1, <3>1
    <3>3. PICK c : c = p.links[i]
      OBVIOUS
    <3>4. c \in PageNums /\ page[c] # Blank
      BY <1>2, <1>9, <3>2, <3>3
    <3>5. t2 = <<Read(page, c)>>
      BY <1>13, <2>1, <3>1, <3>3
    <3> QED
      BY <3>4, <3>5, DoesRead
  <2>2. CASE ~(j > 1)
    BY <1>13, <2>2, DoesNil
  <2> QED
    BY <2>1, <2>2
<1>17. Does(page, used, t3, page, used)
  <2>1. CASE j < z + 1
    <3>1. PICK i : i = j + 1
      OBVIOUS
    <3>2. i \in 1 .. z + 1 /\ i # j
      BY <1>6, <1>8, <2>1, <3>1
    <3>3. PICK c : c = p.links[i]
      OBVIOUS
    <3>4. c \in PageNums /\ page[c] # Blank
      BY <1>2, <1>9, <3>2, <3>3
    <3>5. t3 = <<Read(page, c)>>
      BY <1>13, <2>1, <3>1, <3>3
    <3> QED
      BY <3>4, <3>5, DoesRead
  <2>2. CASE ~(j < z + 1)
    BY <1>13, <2>2, DoesNil
  <2> QED
    BY <2>1, <2>2
<1>18. Does(page, used, t4, page, used)
  BY <1>2, <1>12, <1>13, DoesRead
<1>19. Does(page, used, t1 \o t2, page, used)
  BY <1>15, <1>16, DoesCat
<1>20. Does(page, used, (t1 \o t2) \o t3, page, used)
  BY <1>17, <1>19, DoesCat
<1>21. Does(page, used, ((t1 \o t2) \o t3) \o t4, page, used)
  BY <1>18, <1>20, DoesCat
<1> QED
  BY <1>14, <1>21

(* The page that lacks a key, its sibling and their parent.                  *)
LEMMA LacksIs ==
  ASSUME NEW U, NEW n, NEW map, NEW V, NEW r, NEW x, NEW t, NEW P, NEW a, NEW b,
         Lacks(U, n, map, V, r, x, t, P, a, b), NEW o, o.number = x, o.parent = P
  PROVE  /\ U \subseteq PageNums /\ x \in U /\ t \in U /\ P \in U /\ a \in U /\ b \in U
         /\ a # b /\ a # P /\ b # P /\ Siblings(x, t, a, b)
         /\ \A y \in U : V[y].number = y /\ V[y] \in Node /\ V[y].kind # "None"
         /\ \A y \in U \ {x} : V[y] = page[y]
         /\ ParentOf(o) = V[P] /\ SiblingOf(o) = V[t] /\ V[P].kind \in Interiors
<1>1. PICK lo, hi, ht : Lacking(V, U, r, lo, hi, ht, x, P, map)
  BY DEF Lacks
<1>2. PICK c : Beside(V, U, P, c, a, b) /\ Siblings(x, t, a, b)
  BY DEF Lacks
<1>3. Tree(V, U, r, lo, hi, ht) /\ x \in U /\ P \in U /\ P # x
  BY <1>1 DEF Lacking
<1>4. a \in U /\ b \in U /\ a # b /\ a # P /\ b # P
  BY <1>2, <1>3, BesideAre
<1>5. \A y \in U : V[y].number = y /\ V[y] \in Node /\ V[y].kind # "None"
  BY <1>3, TreePage, Kinds
<1>6. \A y \in U \ {x} : V[y] = page[y]
  BY DEF Lacks
<1>7. t \in U /\ t # x
  BY <1>2, <1>4 DEF Siblings
<1>8. U \subseteq PageNums
  BY <1>3, TreePage
<1>9. ParentOf(o) = V[P]
  BY <1>3, <1>6 DEF ParentOf
<1>10. SiblingOf(o) = V[t]
  <2>1. t = FindSibling(page, ParentOf(o), o.number)
    BY <1>9 DEF Lacks
  <2> QED
    BY <1>6, <1>7, <2>1 DEF SiblingOf
<1>11. V[P].kind \in Interiors
  BY <1>2 DEF Beside
<1> QED
  BY <1>2, <1>3, <1>4, <1>5, <1>6, <1>7, <1>8, <1>9, <1>10, <1>11

(* Its reads.                                                                *)
LEMMA LacksReads ==
  ASSUME Memory(page, used), Pages(page), NEW U, NEW n, NEW map, NEW V, NEW r, NEW x,
         NEW t, NEW P, NEW a, NEW b, Lacks(U, n, map, V, r, x, t, P, a, b),
         NEW o, o.number = x, o.parent = P
  PROVE  Does(page, used, ReadSiblings(o), page, used)
<1>1. PICK lo, hi, ht : Lacking(V, U, r, lo, hi, ht, x, P, map)
  BY DEF Lacks
<1>2. \A y \in U \ {x} : V[y] = page[y]
  BY DEF Lacks
<1> QED
  BY <1>1, <1>2, SiblingsDoes

(* The writes of a redistribution.                                           *)
LEMMA SharesDoes ==
  ASSUME NEW U, NEW n, NEW pg, NEW map, NEW V, NEW W, NEW r, NEW x, NEW t, NEW P,
         NEW a, NEW b, NEW q, Shares(U, n, pg, map, V, W, r, x, t, P, a, b, q),
         Memory(pg, used)
  PROVE  /\ Does(pg, used, Writes(page', <<x, t, P>>), page', used)
         /\ page'[0] = pg[0]
<1>1. Lacks(U, n, map, V, r, x, t, P, a, b) /\ page' = Written(pg, q)
  BY DEF Shares
<1>2. /\ U \subseteq PageNums /\ x \in U /\ t \in U /\ P \in U /\ a \in U /\ b \in U
      /\ Siblings(x, t, a, b)
      /\ \A y \in U : V[y].kind # "None"
  <2>1. PICK o : o = [number |-> x, parent |-> P]
    OBVIOUS
  <2>2. o.number = x /\ o.parent = P
    BY <2>1
  <2> QED
    BY <1>1, <2>2, LacksIs
<1>3. /\ SharedPages(V, W, P, a, b)
      /\ Triple(q) /\ W[a] = q[1] /\ W[b] = q[2] /\ W[P] = q[3]
  BY DEF Shares, Shared
<1>4. /\ Proper(q[1]) /\ q[1].number = a /\ Proper(q[2]) /\ q[2].number = b
      /\ Proper(q[3]) /\ q[3].number = P
  BY <1>2, <1>3 DEF SharedPages, Proper
<1>5. PICK q1, q2, q3 : q1 = q[1] /\ q2 = q[2] /\ q3 = q[3]
  OBVIOUS
<1>6. /\ Proper(q1) /\ q1.number = a /\ Proper(q2) /\ q2.number = b
      /\ Proper(q3) /\ q3.number = P /\ page' = Written(pg, <<q1, q2, q3>>)
  BY <1>1, <1>3, <1>4, <1>5 DEF Triple
<1>7. a \in Numbers /\ b \in Numbers /\ P \in Numbers /\ a # 0 /\ b # 0 /\ P # 0
  BY <1>2, BTreeAssumption, BTreeNodeAssumption DEF Numbers
<1>8. Does(pg, used, Writes(page', <<a, b, P>>), page', used)
  BY <1>6, DoesWritten3
<1>9. Does(pg, used, Writes(page', <<b, a, P>>), page', used)
  <2> DEFINE w == <<q1, q2, q3>>
             ns == <<b, a, P>>
  <2>1. Len(w) = 3 /\ w[1] = q1 /\ w[2] = q2 /\ w[3] = q3
    OBVIOUS
  <2>2. Len(ns) = 3 /\ ns[1] = b /\ ns[2] = a /\ ns[3] = P /\ ns \in Seq(Numbers)
    BY <1>7
  <2>3. page' = Written(pg, w)
    BY <1>6
  <2>4. Writes(page', <<b, a, P>>) = Writes(page', ns)
    OBVIOUS
  <2> HIDE DEF w, ns
  <2>5. 1 .. Len(w) = {1, 2, 3} /\ Len(w) \in Nat /\ 1 .. Len(ns) = {1, 2, 3}
    BY <2>1, <2>2
  <2>6. \A i \in 1 .. Len(w) : Actual(w[i])
    BY <1>6, <2>1, <2>5, BlankIs DEF Proper, Actual
  <2>7. \A i \in 1 .. Len(w) : \E j \in 1 .. Len(ns) : ns[j] = w[i].number
    BY <1>6, <2>1, <2>2, <2>5
  <2>8. \A j \in 1 .. Len(ns) :
          pg[ns[j]] # Blank \/ \E i \in 1 .. Len(w) : ns[j] = w[i].number
    BY <1>6, <2>1, <2>2, <2>5
  <2> QED
    BY <2>2, <2>3, <2>4, <2>5, <2>6, <2>7, <2>8, DoesWritten
<1>10. page'[0] = pg[0]
  <2>1. 0 \in DOMAIN pg
    BY DEF Memory, Numbers
  <2> QED
    BY <1>6, <1>7, <2>1, Written3
<1> QED
  BY <1>2, <1>8, <1>9, <1>10 DEF Siblings

(* Deletion that takes entries from a sibling leaf.                          *)
LEMMA DeleteRedistributingFollows ==
  ASSUME NEW U, InvOf(U), NEW k \in Keys, DeleteRedistributing(k),
         NEW n, n = Leaf(k),
         todo' = Path(k) \o ReadSiblings(n)
                   \o Writes(page', <<n.number, SiblingOf(n).number, n.parent>>)
  PROVE  Follows
<1>1. PICK m, map : m = DeleteKeyLeaf(Leaf(k), k) /\ map = With(kv, k, Absent)
  OBVIOUS
<1>2. PICK V, W, r, x, t, P, a, b, q :
        /\ Shares(U, m, page, map, V, W, r, x, t, P, a, b, q)
        /\ Leaf(k) = page[x] /\ page[x].number = x /\ page[x].parent = P
  BY <1>1, DeleteRedistributingIs
<1>3. n.number = x /\ n.parent = P
  BY <1>2
<1>4. Lacks(U, m, map, V, r, x, t, P, a, b) /\ Pages(page) /\ used' = used /\ meta' = meta
  BY <1>2 DEF Shares
<1>5. SiblingOf(n).number = t
  BY <1>3, <1>4, LacksIs
<1>6. Memory(page, used) /\ Called
  BY InvMemory DEF DeleteRedistributing, Underflows
<1>7. PICK t1, t2, t3 : t1 = Path(k) /\ t2 = ReadSiblings(n) /\ t3 = Writes(page', <<x, t, P>>)
  OBVIOUS
<1>8. /\ Does(page, used, t1, page, used) /\ Does(page, used, t2, page, used)
      /\ Does(page, used, t3, page', used) /\ page'[0] = page[0]
  BY <1>2, <1>3, <1>4, <1>6, <1>7, PathDoes, LacksReads, SharesDoes
<1>9. Does(page, used, t1 \o t2, page, used)
  BY <1>8, DoesCat
<1>10. Does(page, used, (t1 \o t2) \o t3, page', used)
  BY <1>8, <1>9, DoesCat
<1>11. todo' = (t1 \o t2) \o t3
  BY <1>3, <1>5, <1>7
<1> QED
  BY <1>4, <1>8, <1>10, <1>11 DEF Follows, MetaKept

(* The children of a page of a tree are pages.                               *)
LEMMA TreeChildren ==
  ASSUME Pages(page), NEW W, NEW U, NEW r, NEW lo, NEW hi, NEW ht, Tree(W, U, r, lo, hi, ht),
         NEW y \in U, W[y].kind \in Interiors, \A c \in U \ {y} : page[c].number = c,
         NEW p, p = W[y]
  PROVE  Children(p)
<1>1. /\ p \in Node /\ p.number = y /\ Shape(p) /\ y \in Numbers /\ U \subseteq PageNums
  BY TreePage, TreeNumbers
<1>2. PICK z : z = Size(p)
  OBVIOUS
<1>3. p.links \in Seq(Numbers) /\ Len(p.links) = z + 1 /\ z \in Nat
  BY <1>1, <1>2, NodeFields DEF Shape
<1>4. ASSUME NEW i \in 1 .. Len(p.links), NEW c, c = p.links[i]
      PROVE  c \in PageNums /\ page[c] # Blank /\ page[c].number = c
  <2>1. i \in 1 .. Size(W[y]) + 1 /\ c = W[y].links[i]
    BY <1>2, <1>3, <1>4
  <2>2. c \in U /\ c # y
    BY <2>1, TreeChild
  <2>3. page[c].number = c /\ c \in PageNums /\ c \in Numbers
    BY <1>1, <2>2 DEF Numbers
  <2> QED
    BY <2>3, NotBlank
<1>5. ASSUME NEW i \in 1 .. Len(p.links), NEW j \in 1 .. Len(p.links), p.links[i] = p.links[j]
      PROVE  i = j
  <2>1. i \in 1 .. Size(W[y]) + 1 /\ j \in 1 .. Size(W[y]) + 1 /\ W[y].links[i] = W[y].links[j]
    BY <1>2, <1>3, <1>5
  <2> QED
    BY <2>1, LinksDiffer
<1> QED
  BY <1>1, <1>3, <1>4, <1>5 DEF Children

(* Redistribution of inner pages.                                            *)
LEMMA RedistributeNodeFollows ==
  ASSUME NEW U, InvOf(U), RedistributeNode, NEW n, n = call.node,
         todo' = ReadSiblings(n) \o Parents(Receiver(SharedNodes(n), n))
                   \o Writes(page', <<n.number, SiblingOf(n).number, n.parent>>)
  PROVE  Follows
<1>0. PICK V, W, r, x, t, P, a, b, q, wp :
        /\ Shares(U, call.node, wp, kv, V, W, r, x, t, P, a, b, q)
        /\ q = SharedNodes(call.node) /\ Receiver(q, call.node) = W[x]
        /\ wp = WriteParents(page, W[x]) /\ W[x].kind \in Interiors
  BY RedistributeNodeIs
<1>1. /\ Shares(U, n, wp, kv, V, W, r, x, t, P, a, b, q)
      /\ q = SharedNodes(n) /\ Receiver(q, n) = W[x]
      /\ wp = WriteParents(page, W[x]) /\ W[x].kind \in Interiors
  BY <1>0
<1>2. /\ Lacks(U, n, kv, V, r, x, t, P, a, b) /\ used' = used /\ meta' = meta
      /\ TreeOf(W, U, r, kv)
  BY <1>1 DEF Shares
<1>3. n.number = x /\ n.parent = P
  BY <1>2 DEF Lacks, Lacking
<1>4. /\ U \subseteq PageNums /\ x \in U
      /\ \A y \in U : V[y].number = y
      /\ \A y \in U \ {x} : V[y] = page[y]
      /\ SiblingOf(n) = V[t] /\ t \in U
  BY <1>2, <1>3, LacksIs
<1>5. SiblingOf(n).number = t
  BY <1>4
<1>6. Memory(page, used)
  BY InvMemory
<1>7. Pages(page)
  BY PendingClimbing DEF RedistributeNode, Pending, Idle
<1>8. PICK p : p = W[x]
  OBVIOUS
<1>9. Children(p)
  <2>1. PICK lo, hi, ht \in [Numbers -> Nat] : Tree(W, U, r, lo, hi, ht)
    BY <1>2 DEF TreeOf
  <2>2. \A c \in U \ {x} : page[c].number = c
    BY <1>4
  <2> QED
    BY <1>1, <1>4, <1>7, <1>8, <2>1, <2>2, TreeChildren
<1>10. PICK t1, t2, t3 :
         t1 = ReadSiblings(n) /\ t2 = Parents(p) /\ t3 = Writes(page', <<x, t, P>>)
  OBVIOUS
<1>11. Does(page, used, t1, page, used)
  BY <1>2, <1>3, <1>6, <1>7, <1>10, LacksReads
<1>12. Does(page, used, t2, wp, used)
  BY <1>1, <1>6, <1>8, <1>9, <1>10, DoesParents
<1>13. Does(wp, used, t3, page', used) /\ page'[0] = wp[0]
  <2>1. Memory(wp, used)
    BY <1>12 DEF Does
  <2> QED
    BY <1>1, <1>10, <2>1, SharesDoes
<1>14. wp[0] = page[0]
  <2>1. 0 \notin ToSet(p.links)
    <3>1. \A i \in 1 .. Len(p.links) : p.links[i] # 0
      BY <1>9, BTreeAssumption, BTreeNodeAssumption DEF Children
    <3> QED
      BY <1>9, <3>1 DEF Children, ToSet
  <2>2. 0 \in DOMAIN page
    BY <1>6 DEF Memory, Numbers
  <2> QED
    BY <1>1, <1>8, <2>1, <2>2 DEF WriteParents
<1>15. Does(page, used, t1 \o t2, wp, used)
  BY <1>11, <1>12, DoesCat
<1>16. Does(page, used, (t1 \o t2) \o t3, page', used)
  BY <1>13, <1>15, DoesCat
<1>17. todo' = (t1 \o t2) \o t3
  BY <1>1, <1>3, <1>5, <1>8, <1>10
<1> QED
  BY <1>2, <1>13, <1>14, <1>16, <1>17 DEF Follows, MetaKept

(* The accesses of a merge from the write of the merged page on.             *)
MergeDone(pg, n, s, b, mp) ==
  /\ \E pg1 : /\ Does(pg, used \ {b}, <<MergedPage(mp)>>, pg1, used \ {b})
              /\ Does(pg1, used \ {b}, AfterMerge(n, s), page', used')
  /\ page'[0] = pg[0] /\ meta' = meta /\ RightOf(n, s) = b

(* The writes of a merge, and the parent that it gives back.                 *)
LEMMA CombinesDoes ==
  ASSUME NEW U, NEW n, NEW pg, NEW map, NEW V, NEW W, NEW r, NEW x, NEW t, NEW P,
         NEW a, NEW b, NEW mp, Combines(U, n, pg, map, V, W, r, x, t, P, a, b, mp),
         NEW s, s = V[t], Memory(pg, used)
  PROVE  MergeDone(pg, n, s, b, mp)
<1>1. /\ Lacks(U, n, map, V, r, x, t, P, a, b) /\ n = V[x]
      /\ Inorder(n, s) = <<V[a], V[b]>> /\ W[a] = mp
      /\ Combined(V, W, U, pg, P, a, b) /\ Merges(V, W, pg, P, a, b, map)
  BY DEF Combines, Lacks
<1>2. n.number = x /\ n.parent = P
  BY <1>1 DEF Lacks, Lacking
<1>3. /\ U \subseteq PageNums /\ P \in U /\ a \in U /\ b \in U
      /\ \A y \in U : V[y].number = y /\ V[y] \in Node /\ V[y].kind # "None"
      /\ ParentOf(n) = V[P] /\ V[P].kind \in Interiors /\ a # P
  BY <1>1, <1>2, LacksIs
<1>4. a \in Numbers /\ P \in Numbers /\ a # 0 /\ P # 0
  BY <1>3, BTreeAssumption, BTreeNodeAssumption DEF Numbers
<1>5. RightOf(n, s) = b /\ LeftOf(n, s) = a
  <2>1. Inorder(n, s)[1] = V[a] /\ Inorder(n, s)[2] = V[b]
    BY <1>1
  <2> QED
    BY <1>3, <2>1 DEF RightOf, LeftOf
<1>6. PICK less : less = W[P]
  OBVIOUS
<1>7. /\ mp \in Node /\ mp.kind = V[a].kind /\ mp.number = a /\ mp # Blank
      /\ less \in Node /\ less.kind = V[P].kind /\ less.number = P /\ less # Blank
      /\ less = DeleteKeyIntermediate(V[P], a)
  BY <1>1, <1>3, <1>6 DEF Combined, MergedPages, Blank
<1>8. PICK ms, parent, kind :
        /\ ms = V[b] /\ parent = V[P] /\ kind \in {"RootLeaf", "Root"}
        /\ Merged(pg, mp, ms, parent, kind)
  BY <1>1 DEF Merges
<1>9. /\ \/ Size(parent) = 1 /\ used' = used \ {b, P} /\ Collapses(pg, mp, P, kind)
         \/ Size(parent) # 1 /\ used' = used \ {b} /\ Shortens(pg, mp, less)
         \/ Size(parent) # 1 /\ used' = used \ {b} /\ Passes(pg, mp, less)
  <2>1. /\ a = mp.number /\ b = ms.number /\ P = parent.number
        /\ less = DeleteKeyIntermediate(parent, a)
    BY <1>3, <1>7, <1>8
  <2>2. Merged(pg, mp, ms, parent, kind)
    BY <1>8
  <2>3. \/ Size(parent) = 1 /\ used' = used \ {b, P} /\ Collapses(pg, mp, P, kind)
        \/ /\ Size(parent) # 1 /\ (Size(parent) > NodesDown \/ parent.kind = "Root")
           /\ used' = used \ {b} /\ Shortens(pg, mp, less)
        \/ /\ Size(parent) # 1 /\ Size(parent) <= NodesDown /\ parent.kind # "Root"
           /\ used' = used \ {b} /\ Passes(pg, mp, less)
    BY <2>1, <2>2, MergedEnds
  <2> QED
    BY <2>3
<1>10. PICK Ub, pg1, t1 :
         Ub = used \ {b} /\ pg1 = [pg EXCEPT ![a] = mp] /\ t1 = <<Access("write", a, mp)>>
  OBVIOUS
<1>11. Memory(pg, Ub) /\ pg \in [Numbers -> Node]
  BY <1>10 DEF Memory
<1>12. Does(pg, Ub, t1, pg1, Ub) /\ Memory(pg1, Ub)
  <2>1. Does(pg, Ub, t1, pg1, Ub)
    BY <1>4, <1>7, <1>10, <1>11, DoesWrite
  <2> QED
    BY <2>1 DEF Does
<1>13. PICK t2 : t2 = AfterMerge(n, s)
  OBVIOUS
<1>14. /\ pg1[0] = pg[0] /\ 0 \in Numbers
       /\ pg1 = [y \in Numbers |-> IF y = a THEN mp ELSE pg[y]]
  <2>1. pg1 = [y \in Numbers |-> IF y = a THEN mp ELSE pg[y]]
    BY <1>4, <1>10, <1>11
  <2>2. 0 \in Numbers
    BY DEF Numbers
  <2> QED
    BY <1>4, <2>1, <2>2
<1>15. meta' = meta
  BY <1>1 DEF Merges
<1>16. Does(pg1, Ub, t2, page', used') /\ page'[0] = pg[0]
  <2>1. CASE Size(parent) = 1 /\ used' = used \ {b, P} /\ Collapses(pg, mp, P, kind)
    <3>1. PICK top : top = Raised(mp, kind)
      OBVIOUS
    <3>2. page' = Written(pg, <<top>>)
      BY <2>1, <3>1 DEF Collapses
    <3>3. top \in Node /\ top.number = a /\ top.kind = kind /\ top # Blank
      <4>1. top \in Node /\ top.number = mp.number /\ top.kind = kind
        BY <1>7, <1>8, <3>1, Kinds DEF Raised, Node
      <4> QED
        BY <1>7, <1>8, <4>1 DEF Blank
    <3>4. page' = [pg1 EXCEPT ![a] = top]
      <4>1. page' = [y \in Numbers |-> page'[y]]
        BY <1>11, <3>2, WrittenDomain
      <4>2. \A y \in Numbers : page'[y] = IF y = a THEN top ELSE pg[y]
        BY <1>11, <3>2, <3>3, Written1
      <4> QED
        BY <1>14, <4>1, <4>2
    <3>5. PICK t3, t4 : t3 = <<Access("write", a, top)>> /\ t4 = Free(Ub, P)
      OBVIOUS
    <3>6. t2 = t3 \o t4
      <4>1. page'[a] = top
        BY <1>4, <1>14, <3>4
      <4>2. t2 = <<Write(page', a)>> \o Free(used \ {b}, P)
        BY <1>2, <1>3, <1>5, <1>8, <1>13, <2>1 DEF AfterMerge
      <4> QED
        BY <1>10, <3>5, <4>1, <4>2 DEF Write
    <3>7. Does(pg1, Ub, t3, page', Ub) /\ Memory(page', Ub)
      <4>1. Does(pg1, Ub, t3, page', Ub)
        BY <1>4, <1>12, <3>3, <3>4, <3>5, DoesWrite
      <4> QED
        BY <4>1 DEF Does
    <3>8. Does(page', Ub, t4, page', used')
      <4>1. used' = Ub \ {P}
        BY <1>10, <2>1
      <4> QED
        BY <3>5, <3>7, <4>1, DoesFree
    <3>9. Does(pg1, Ub, t3 \o t4, page', used')
      BY <3>7, <3>8, DoesCat
    <3>10. page'[0] = pg[0]
      BY <1>4, <1>14, <3>4
    <3> QED
      BY <3>6, <3>9, <3>10
  <2>2. CASE Size(parent) # 1 /\ used' = used \ {b} /\ Shortens(pg, mp, less)
    <3>1. page' = Written(pg, <<mp, less>>) /\ call' = Idle
      BY <2>2 DEF Shortens
    <3>2. page' = [pg1 EXCEPT ![P] = less]
      <4>1. page' = [y \in Numbers |-> page'[y]]
        BY <1>11, <3>1, WrittenDomain
      <4>2. \A y \in Numbers : page'[y] = IF y = P THEN less ELSE IF y = a THEN mp ELSE pg[y]
        BY <1>7, <1>11, <3>1, Written2
      <4> QED
        BY <1>14, <4>1, <4>2
    <3>3. t2 = <<Access("write", P, less)>>
      <4>1. page'[P] = less
        BY <1>4, <1>14, <3>2
      <4>2. t2 = <<Write(page', P)>>
        BY <1>2, <1>3, <1>8, <1>13, <2>2, <3>1 DEF AfterMerge
      <4> QED
        BY <4>1, <4>2 DEF Write
    <3>4. Does(pg1, Ub, t2, page', Ub)
      BY <1>4, <1>7, <1>12, <3>2, <3>3, DoesWrite
    <3>5. page'[0] = pg[0]
      BY <1>4, <1>14, <3>2
    <3> QED
      BY <1>10, <2>2, <3>4, <3>5
  <2>3. CASE Size(parent) # 1 /\ used' = used \ {b} /\ Passes(pg, mp, less)
    <3>1. page' = Written(pg, <<mp>>) /\ call' = [Idle EXCEPT !.op = "underflow", !.node = less]
      BY <2>3 DEF Passes
    <3>2. call' # Idle
      BY <3>1 DEF Idle
    <3>3. t2 = <<>>
      BY <1>2, <1>3, <1>8, <1>13, <2>3, <3>2 DEF AfterMerge
    <3>4. page' = pg1
      <4>1. page' = [y \in Numbers |-> page'[y]]
        BY <1>11, <3>1, WrittenDomain
      <4>2. \A y \in Numbers : page'[y] = IF y = a THEN mp ELSE pg[y]
        BY <1>7, <1>11, <3>1, Written1
      <4> QED
        BY <1>14, <4>1, <4>2
    <3>5. Does(pg1, Ub, t2, pg1, Ub)
      BY <1>12, <3>3, DoesNil
    <3> QED
      BY <1>10, <1>14, <2>3, <3>4, <3>5
  <2> QED
    BY <1>9, <2>1, <2>2, <2>3
<1>17. <<MergedPage(mp)>> = t1
  BY <1>7, <1>10 DEF MergedPage
<1> QED
  BY <1>5, <1>10, <1>12, <1>13, <1>15, <1>16, <1>17 DEF MergeDone

(* Deletion that merges two leaves.                                          *)
LEMMA DeleteMergingFollows ==
  ASSUME NEW U, InvOf(U), NEW k \in Keys, DeleteMerging(k), NEW n, n = Leaf(k),
         NEW s, s = SiblingOf(n), NEW m, m = DeleteKeyLeaf(n, k),
         todo' = Path(k) \o ReadSiblings(n) \o Free(used, RightOf(m, s))
                   \o <<MergedPage(MergedLeaves(m, s))>> \o AfterMerge(m, s)
  PROVE  Follows
<1>1. PICK map, mp : map = With(kv, k, Absent) /\ mp = MergedLeaves(m, s)
  OBVIOUS
<1>2. PICK V, W, r, x, t, P, a, b :
        /\ Combines(U, m, page, map, V, W, r, x, t, P, a, b, mp)
        /\ Leaf(k) = page[x] /\ page[x].number = x /\ page[x].parent = P
  BY <1>1, DeleteMergingIs
<1>3. n.number = x /\ n.parent = P
  BY <1>2
<1>4. Lacks(U, m, map, V, r, x, t, P, a, b) /\ Pages(page)
  BY <1>2 DEF Combines
<1>5. s = V[t]
  BY <1>3, <1>4, LacksIs
<1>6. Memory(page, used) /\ Called
  BY InvMemory DEF DeleteMerging, Underflows
<1>7. PICK t4, t5 : t4 = <<MergedPage(mp)>> /\ t5 = AfterMerge(m, s)
  OBVIOUS
<1>d. MergeDone(page, m, s, b, mp)
  BY <1>2, <1>5, <1>6, CombinesDoes
<1>8. PICK pg1 : Does(page, used \ {b}, t4, pg1, used \ {b}) /\ Does(pg1, used \ {b}, t5, page', used')
  BY <1>d, <1>7 DEF MergeDone
<1>9. page'[0] = page[0] /\ meta' = meta /\ RightOf(m, s) = b
  BY <1>d DEF MergeDone
<1>10. PICK t1, t2, t3 : t1 = Path(k) /\ t2 = ReadSiblings(n) /\ t3 = Free(used, b)
  OBVIOUS
<1>11. /\ Does(page, used, t1, page, used) /\ Does(page, used, t2, page, used)
       /\ Does(page, used, t3, page, used \ {b})
  BY <1>3, <1>4, <1>6, <1>10, PathDoes, LacksReads, DoesFree
<1>12. Does(page, used, t1 \o t2, page, used)
  BY <1>11, DoesCat
<1>13. Does(page, used, (t1 \o t2) \o t3, page, used \ {b})
  BY <1>11, <1>12, DoesCat
<1>14. Does(page, used, ((t1 \o t2) \o t3) \o t4, pg1, used \ {b})
  BY <1>8, <1>13, DoesCat
<1>15. Does(page, used, (((t1 \o t2) \o t3) \o t4) \o t5, page', used')
  BY <1>8, <1>14, DoesCat
<1>16. todo' = (((t1 \o t2) \o t3) \o t4) \o t5
  BY <1>1, <1>7, <1>9, <1>10
<1> QED
  BY <1>9, <1>15, <1>16 DEF Follows, MetaKept

(* Merge of two inner pages.                                                 *)
LEMMA MergeNodeFollows ==
  ASSUME NEW U, InvOf(U), MergeNode, NEW n, n = call.node, NEW s, s = SiblingOf(n),
         todo' = ReadSiblings(n) \o Free(used, RightOf(n, s)) \o Parents(MergedNodes(n, s))
                   \o <<MergedPage(MergedNodes(n, s))>> \o AfterMerge(n, s)
  PROVE  Follows
<1>1. PICK mp : mp = MergedNodes(n, s)
  OBVIOUS
<1>2. PICK V, W, r, x, t, P, a, b, wp :
        /\ Combines(U, call.node, wp, kv, V, W, r, x, t, P, a, b, mp)
        /\ wp = WriteParents(page, mp) /\ mp.kind \in Interiors
  BY <1>1, MergeNodeIs
<1>3. /\ Combines(U, n, wp, kv, V, W, r, x, t, P, a, b, mp)
      /\ wp = WriteParents(page, mp) /\ mp.kind \in Interiors
  BY <1>2
<1>4. /\ Lacks(U, n, kv, V, r, x, t, P, a, b) /\ TreeOf(W, U \ {b}, r, kv) /\ W[a] = mp
  BY <1>3 DEF Combines
<1>5. n.number = x /\ n.parent = P
  BY <1>4 DEF Lacks, Lacking
<1>6. /\ U \subseteq PageNums /\ a \in U /\ a # b /\ Siblings(x, t, a, b)
      /\ \A y \in U : V[y].number = y
      /\ \A y \in U \ {x} : V[y] = page[y]
      /\ s = V[t]
  BY <1>4, <1>5, LacksIs
<1>7. Memory(page, used)
  BY InvMemory
<1>8. Pages(page)
  BY PendingClimbing DEF MergeNode, Pending, Idle
<1>9. Children(mp)
  <2>1. PICK U2 : U2 = U \ {b}
    OBVIOUS
  <2>2. PICK lo, hi, ht \in [Numbers -> Nat] : Tree(W, U2, r, lo, hi, ht)
    BY <1>4, <2>1 DEF TreeOf
  <2>3. \A c \in U2 \ {a} : page[c].number = c
    BY <1>6, <2>1 DEF Siblings
  <2>4. a \in U2 /\ W[a].kind \in Interiors
    BY <1>3, <1>4, <1>6, <2>1
  <2> QED
    BY <1>4, <1>8, <2>2, <2>3, <2>4, TreeChildren
<1>10. PICK t1, t2, t3, t4, t5 :
         /\ t1 = ReadSiblings(n) /\ t2 = Free(used, b) /\ t3 = Parents(mp)
         /\ t4 = <<MergedPage(mp)>> /\ t5 = AfterMerge(n, s)
  OBVIOUS
<1>11. Does(page, used, t1, page, used) /\ Does(page, used, t2, page, used \ {b})
  BY <1>4, <1>5, <1>7, <1>8, <1>10, LacksReads, DoesFree
<1>12. Does(page, used \ {b}, t3, wp, used \ {b}) /\ Memory(wp, used)
  <2>1. PICK U2 : U2 = used \ {b}
    OBVIOUS
  <2>2. Memory(page, U2)
    BY <1>7, <2>1 DEF Memory
  <2>3. Does(page, U2, t3, wp, U2)
    BY <1>3, <1>9, <1>10, <2>2, DoesParents
  <2> QED
    BY <1>7, <2>1, <2>3 DEF Does, Memory
<1>d. MergeDone(wp, n, s, b, mp)
  BY <1>3, <1>6, <1>12, CombinesDoes
<1>13. PICK pg1 : Does(wp, used \ {b}, t4, pg1, used \ {b}) /\ Does(pg1, used \ {b}, t5, page', used')
  BY <1>d, <1>10 DEF MergeDone
<1>14. page'[0] = wp[0] /\ meta' = meta /\ RightOf(n, s) = b
  BY <1>d DEF MergeDone
<1>15. wp[0] = page[0]
  <2>1. 0 \notin ToSet(mp.links)
    <3>1. \A i \in 1 .. Len(mp.links) : mp.links[i] # 0
      BY <1>9, BTreeAssumption, BTreeNodeAssumption DEF Children
    <3>2. DOMAIN mp.links = 1 .. Len(mp.links)
      BY <1>9 DEF Children
    <3> QED
      BY <3>1, <3>2 DEF ToSet
  <2>2. 0 \in DOMAIN page
    BY <1>7 DEF Memory, Numbers
  <2> QED
    BY <1>3, <2>1, <2>2 DEF WriteParents
<1>16. Does(page, used, t1 \o t2, page, used \ {b})
  BY <1>11, DoesCat
<1>17. Does(page, used, (t1 \o t2) \o t3, wp, used \ {b})
  BY <1>12, <1>16, DoesCat
<1>18. Does(page, used, ((t1 \o t2) \o t3) \o t4, pg1, used \ {b})
  BY <1>13, <1>17, DoesCat
<1>19. Does(page, used, (((t1 \o t2) \o t3) \o t4) \o t5, page', used')
  BY <1>13, <1>18, DoesCat
<1>20. todo' = (((t1 \o t2) \o t3) \o t4) \o t5
  BY <1>1, <1>10, <1>14
<1> QED
  BY <1>14, <1>15, <1>19, <1>20 DEF Follows, MetaKept

-------------------------------------------------------------------------------
(* A new file whose pages all fit in the cache *)

(* No page of the tree is in the file yet, and what the cache has of them is  *)
(* dirty: only the page index was read from the file.                         *)
PlainOK ==
  /\ \A n \in PageNums : disk[n] = Hole
  /\ \A i \in C!Slots : slot[i].alive /\ slot[i].offset # 1 => slot[i].dirty

(* An access that evicts nothing leaves the file as it is.                    *)
LEMMA StaysOnFile ==
  ASSUME NEW n, NEW c, C!ReadCache(n) \/ C!WriteCache(n, c), ~Evicts(n)
  PROVE  disk' = disk
BY DEF C!ReadCache, C!WriteCache, C!ReadHit, C!ReadIntoFree, C!ReadByEviction, C!WriteHit,
       C!WriteIntoFree, C!WriteByEviction, C!Victim, Evicts

(* A slot that is dirty, or holds the page index, keeps the rest.             *)
LEMMA PlainSlot ==
  ASSUME CacheOK, PlainOK, NEW i \in C!Slots, NEW s, slot' = [slot EXCEPT ![i] = s],
         disk' = disk, s.alive /\ s.offset # 1 => s.dirty
  PROVE  PlainOK'
<1>1. ASSUME NEW j \in C!Slots, slot'[j].alive, slot'[j].offset # 1
      PROVE  slot'[j].dirty
  <2>1. slot'[j] = IF j = i THEN s ELSE slot[j]
    BY DEF CacheOK
  <2> QED
    BY <1>1, <2>1 DEF PlainOK
<1> QED
  BY <1>1 DEF PlainOK

(* A page of the tree is read from its slot, for the file has none.           *)
LEMMA PlainRead ==
  ASSUME CacheOK, PlainOK, NEW n \in FileNums, n # 0, NEW c \in ImageOf(n), Shown[n] = c,
         C!ReadCache(n), ~Evicts(n)
  PROVE  PlainOK'
<1>1. disk' = disk
  BY StaysOnFile
<1>2. CASE C!ReadHit(n)
  <2>1. PICK i \in C!Slots : slot' = [slot EXCEPT ![i].power = @ + 1]
    BY <1>2 DEF C!ReadHit
  <2>2. PICK s, o : s = [slot[i] EXCEPT !.power = @ + 1] /\ o = slot[i]
    OBVIOUS
  <2>3. slot' = [slot EXCEPT ![i] = s]
    BY <2>1, <2>2
  <2>4. HitSlot(s, o, o.data)
    <3>1. o \in C!Slot
      BY <2>2 DEF CacheOK
    <3> QED
      BY <2>2, <3>1, ReadHitIs
  <2>5. s.alive /\ s.offset # 1 => s.dirty
    BY <2>2, <2>4 DEF PlainOK, HitSlot
  <2> QED
    BY <1>1, <2>3, <2>5, PlainSlot
<1>3. CASE C!ReadIntoFree(n)
  <2>1. PICK i \in C!Slots :
          /\ C!Miss(n)
          /\ slot' = [slot EXCEPT ![i] = C!Claimed(i, n, FALSE, C!Loaded(disk, n, slot[i].data))]
    BY <1>3 DEF C!ReadIntoFree
  <2>2. disk[n] = c
    BY <2>1, ShownUncached
  <2>3. n = 1
    BY <2>2, ImagesAre DEF PlainOK, FileNums
  <2>4. C!Loaded(disk, n, slot[i].data) = c
    BY <2>2, LoadedIs, ImagesAre
  <2>5. PICK f, s : f = FALSE /\ s = C!Claimed(i, n, f, c)
    OBVIOUS
  <2>6. s.offset = n
    <3>1. slot[i] \in C!Slot /\ f \in BOOLEAN /\ c \in Images
      BY <2>5, ImagesAre DEF CacheOK
    <3> QED
      BY <2>5, <3>1, ClaimedIs
  <2>7. slot' = [slot EXCEPT ![i] = s]
    BY <2>1, <2>4, <2>5
  <2> QED
    BY <1>1, <2>3, <2>6, <2>7, PlainSlot
<1>4. ~C!ReadByEviction(n)
  BY DEF C!ReadByEviction, C!Victim, Evicts
<1> QED
  BY <1>2, <1>3, <1>4 DEF C!ReadCache

(* A page that is new to the cache is dirty there.                            *)
LEMMA PlainWrite ==
  ASSUME CacheOK, PlainOK, NEW n \in FileNums, NEW c \in Images, C!WriteCache(n, c), ~Evicts(n)
  PROVE  PlainOK'
<1>1. disk' = disk
  BY StaysOnFile
<1>2. CASE C!WriteHit(n, c)
  <2>1. PICK i \in C!Slots : slot' = [slot EXCEPT ![i].power = @ + 1, ![i].data = c]
    BY <1>2 DEF C!WriteHit
  <2>2. PICK s, o : s = [slot[i] EXCEPT !.power = @ + 1, !.data = c] /\ o = slot[i]
    OBVIOUS
  <2>3. slot' = [slot EXCEPT ![i] = s]
    BY <2>1, <2>2 DEF CacheOK
  <2>4. HitSlot(s, o, c)
    <3>1. o \in C!Slot
      BY <2>2 DEF CacheOK
    <3> QED
      BY <2>2, <3>1, WriteHitIs
  <2>5. s.alive /\ s.offset # 1 => s.dirty
    BY <2>2, <2>4 DEF PlainOK, HitSlot
  <2> QED
    BY <1>1, <2>3, <2>5, PlainSlot
<1>3. CASE C!WriteIntoFree(n, c)
  <2>1. PICK i \in C!Slots : slot' = [slot EXCEPT ![i] = C!Claimed(i, n, TRUE, c)]
    BY <1>3 DEF C!WriteIntoFree
  <2>2. PICK f, s : f = TRUE /\ s = C!Claimed(i, n, f, c)
    OBVIOUS
  <2>3. s.dirty
    <3>1. slot[i] \in C!Slot /\ f \in BOOLEAN
      BY <2>2 DEF CacheOK
    <3> QED
      BY <2>2, <3>1, ClaimedIs
  <2>4. slot' = [slot EXCEPT ![i] = s]
    BY <2>1, <2>2
  <2> QED
    BY <1>1, <2>3, <2>4, PlainSlot
<1>4. ~C!WriteByEviction(n, c)
  BY DEF C!WriteByEviction, C!Victim, Evicts
<1> QED
  BY <1>2, <1>3, <1>4 DEF C!WriteCache

(* A sync of such a cache writes every page of the tree.                      *)
LEMMA PlainFlush ==
  ASSUME CacheOK, PlainOK, Memory(page, used), Shown = ViewOf(page, used),
         NEW d, d = C!DiskAfterFlush(CacheSize)
  PROVE  FilePages(d) = page
<1>1. FileOK(d)
  BY FlushedFile
<1>2. page \in [Numbers -> Node] /\ used \subseteq PageNums
  BY DEF Memory
<1>3. ASSUME NEW n \in Numbers PROVE FilePages(d)[n] = page[n]
  <2>1. n \in FileNums /\ n # 1
    BY <1>3, ImagesAre
  <2>2. d[n] = Shown[n]
    <3>1. CASE C!Miss(n)
      <4>1. \A i \in C!Slots : ~(C!Flushed(i) /\ slot[i].offset = n)
        BY <3>1 DEF C!Miss, C!Holds, C!Flushed
      <4> QED
        BY <2>1, <3>1, <4>1, FlushedFile, ShownUncached
    <3>2. CASE ~C!Miss(n)
      <4>1. PICK i \in C!Slots : C!Holds(i, n)
        BY <3>2 DEF C!Miss
      <4>2. C!Flushed(i) /\ slot[i].offset = n
        BY <2>1, <4>1 DEF PlainOK, C!Flushed, C!Holds
      <4>3. Shown[n] = slot[i].data
        BY <2>1, <4>1, ShownCached DEF CacheOK
      <4> QED
        BY <2>1, <4>2, <4>3, FlushedFile
    <3> QED
      BY <3>1, <3>2
  <2>3. Shown[n] = IF page[n] = Blank THEN Hole ELSE page[n]
    BY <1>2, ViewOfIs
  <2>4. FilePages(d)[n] = IF d[n] = Hole THEN Blank ELSE d[n]
    BY <1>1, FileShows
  <2>5. page[n] # Hole
    BY <1>2, ImagesAre DEF Images
  <2> QED
    BY <2>2, <2>3, <2>4, <2>5
<1>4. FilePages(d) \in [Numbers -> Node]
  BY <1>1, FileShows
<1> QED
  BY <1>2, <1>3, <1>4

-------------------------------------------------------------------------------
(* Files that hold a map *)

(* The pages P with root page r are a database that holds the map m.          *)
MapIn(P, r, m) ==
  /\ P \in [Numbers -> Node] /\ r \in Numbers /\ P[0] = MetaPage(r)
  /\ m \in [Keys -> Values \union {Absent}]
  /\ \A n \in Numbers : P[n].kind \in Interiors => Shape(P[n])
  /\ \A n \in Numbers : P[n] = Blank \/ P[n].number = n
  /\ \/ r = 0 /\ P = NewPages /\ m = [k \in Keys |-> Absent]
     \/ /\ r # 0 /\ \E U : TreeOf(P, U, r, m) /\ Filled(P, U, {})
        /\ P[P[r].parent] # Blank
        /\ P[r].kind = "RootLeaf" /\ P[r].parent # 0 =>
             P[r].parent # r /\ P[P[r].parent].kind \in Interiors

(* The file holds the map m.                                                  *)
FileMap(d, m) == MapIn(FilePages(d), FileRoot(d), m)

(* The pages of a process between two calls, if the meta page has the root.   *)
LEMMA MemoryHoldsMap ==
  ASSUME NEW U, InvOf(U), proc = "running", call = Idle, page[0] = MetaPage(meta),
         meta = root.number
  PROVE  MapIn(page, meta, kv)
<1>1. TypeOK /\ PagesOK /\ (EmptyOf(U) \/ GrownOf(U))
  BY DEF InvOf
<1>2. /\ page \in [Numbers -> Node] /\ meta \in Numbers
      /\ kv \in [Keys -> Values \union {Absent}]
      /\ \A n \in Numbers : page[n].kind \in Interiors => Shape(page[n])
      /\ \A n \in Numbers : page[n] = Blank \/ page[n].number = n
  BY <1>1 DEF TypeOK, PagesOK
<1>3. CASE EmptyOf(U)
  <2>1. meta = 0 /\ page = NewPages /\ kv = [k \in Keys |-> Absent]
    BY <1>3, BlankIs DEF EmptyOf
  <2> QED
    BY <1>2, <2>1 DEF MapIn
<1>4. CASE GrownOf(U)
  <2>1. PICK lo, hi, ht : GrownWith(U, lo, hi, ht)
    BY <1>4 DEF GrownOf
  <2>2. View = page /\ Exempt = {}
    BY <1>1, IdleView
  <2>3. /\ Tree(page, U, meta, lo, hi, ht) /\ Holds(page, U, lo, hi, kv)
        /\ Filled(page, U, {}) /\ root = page[meta] /\ OrphanOK
    BY <2>1, <2>2 DEF GrownWith
  <2>4. TreeOf(page, U, meta, kv)
    BY <2>3, TreeOfIs
  <2>5. meta # 0
    BY <2>3, BTreeAssumption, BTreeNodeAssumption DEF Tree, RootOK
  <2>6. /\ page[page[meta].parent] # Blank
        /\ page[meta].kind = "RootLeaf" /\ page[meta].parent # 0 =>
             page[meta].parent # meta /\ page[page[meta].parent].kind \in Interiors
    BY <2>3 DEF OrphanOK
  <2> QED
    BY <1>2, <2>3, <2>4, <2>5, <2>6 DEF MapIn
<1> QED
  BY <1>1, <1>3, <1>4

(* A search of such a file finds the map.                                     *)
LEMMA FileMapContents ==
  ASSUME NEW d, NEW m, FileMap(d, m)
  PROVE  FileContents(d) = m
<1>1. PICK P, r : P = FilePages(d) /\ r = FileRoot(d)
  OBVIOUS
<1>2. MapIn(P, r, m)
  BY <1>1 DEF FileMap
<1>3. FileContents(d) = ContentsOf(P, IF r = 0 THEN Blank ELSE P[r])
  BY <1>1 DEF FileContents
<1>4. m \in [Keys -> Values \union {Absent}]
  BY <1>2 DEF MapIn
<1>5. CASE r = 0
  <2>1. m = [k \in Keys |-> Absent]
    BY <1>2, <1>5 DEF MapIn
  <2> QED
    BY <1>3, <1>5, <2>1, BlankContents
<1>6. CASE r # 0
  <2>1. PICK U : TreeOf(P, U, r, m) /\ Filled(P, U, {})
    BY <1>2, <1>6 DEF MapIn
  <2>2. PICK lo, hi, ht \in [Numbers -> Nat] :
          Tree(P, U, r, lo, hi, ht) /\ Holds(P, U, lo, hi, m)
    BY <2>1 DEF TreeOf
  <2>3. Wide(P, U)
    <3>1. ASSUME NEW n \in U, P[n].kind \in Interiors PROVE Size(P[n]) >= 1
      <4>1. Size(P[n]) \in Least(P[n]) .. NodesUp
        BY <2>1 DEF Filled
      <4>2. Least(P[n]) >= 1 /\ Least(P[n]) \in Nat
        BY <3>1, NodesDownIs, Kinds DEF Least
      <4>3. Size(P[n]) \in Nat
        BY <2>2, TreePage
      <4> QED
        BY <4>1, <4>2, <4>3
    <3> QED
      BY <3>1 DEF Wide
  <2> QED
    BY <1>3, <1>4, <1>6, <2>2, <2>3, ContentsIs
<1> QED
  BY <1>5, <1>6

(* A process that opens such a file starts with the tree of the map.          *)
LEMMA MapOpens ==
  ASSUME NEW P, NEW r, NEW m, MapIn(P, r, m),
         page' = P, meta' = r, root' = (IF r = 0 THEN Blank ELSE P[r]),
         buffer' \in (IF r = 0 THEN {"null", "wild"} ELSE {"live"}),
         used' \subseteq PageNums, call' = Idle, kv' = m, proc' = "running"
  PROVE  (\E U : InvOf(U)') /\ page'[0] = MetaPage(meta')
<1>1. TypeOK'
  <2>1. Idle \in [op : {"none", "split", "underflow"}, node : Node,
                  key : Keys \union {0}, link : Numbers]
    BY BlankIs DEF Idle, Numbers
  <2>2. root' \in Node
    BY BlankIs DEF MapIn
  <2> QED
    BY <2>1, <2>2 DEF TypeOK, MapIn
<1>2. page'[0] = MetaPage(meta')
  BY DEF MapIn
<1>3. PagesOK'
  <2>1. Len(page'[0].links) = 1
    BY <1>2 DEF MetaPage
  <2> QED
    BY <2>1 DEF PagesOK, MapIn
<1>4. CASE r = 0
  <2>1. PICK U : U = {}
    OBVIOUS
  <2>2. EmptyOf(U)'
    BY <1>4, <2>1 DEF EmptyOf, MapIn, NewPages
  <2>3. InvOf(U)'
    BY <1>1, <1>3, <2>2 DEF InvOf
  <2> QED
    BY <1>2, <2>3
<1>5. CASE r # 0
  <2>1. PICK U : TreeOf(P, U, r, m) /\ Filled(P, U, {})
    BY <1>5 DEF MapIn
  <2>2. PICK lo, hi, ht \in [Numbers -> Nat] : Tree(P, U, r, lo, hi, ht)
    BY <2>1 DEF TreeOf
  <2>3. r \in U
    BY <2>2 DEF Tree, RootOK
  <2>4. root' = P[r] /\ P[r].number = r
    BY <1>5, <2>2, <2>3, TreePage
  <2>5. /\ root' = page'[root'.number] /\ TreeOf(page', U, root'.number, kv')
        /\ Filled(page', U, {})
    BY <2>1, <2>4
  <2>6. OrphanOK'
    BY <1>5, <2>4 DEF OrphanOK, MapIn
  <2>7. Pages(page')
    BY <1>1, <1>3 DEF TypeOK, PagesOK, Pages, ShapeOK
  <2>8. PICK U0 : U0 # used
    <3>1. IF used = {} THEN {{}} # used ELSE {} # used
      OBVIOUS
    <3> QED
      BY <3>1
  <2>9. Goes(U0)
    BY <1>1, <1>5, <2>5, <2>6, <2>7, <2>8, IdleNext
  <2>10. \E U2 : InvOf(U2)'
    BY <2>9 DEF Goes
  <2> QED
    BY <1>2, <2>10
<1> QED
  BY <1>4, <1>5

-------------------------------------------------------------------------------
(* The session *)

(* A step of a call, with the accesses that it leaves to come.                *)
CallStep ==
  \/ \E k \in Keys : Lookup(k) \/ DeleteStep(k) \/ \E v \in Values : InsertStep(k, v)
  \/ ClimbStep

(* The accesses of each case of b_insert do what its step does.               *)
LEMMA InsertFollows ==
  ASSUME NEW U, InvOf(U), NEW k \in Keys, NEW v \in Values, InsertStep(k, v)
  PROVE  Follows /\ Insert(k, v)
<1>1. CASE /\ InsertFirst(k, v)
           /\ todo' = Alloc(used) \o Writes(page', <<FindFree(used), 0>>)
  BY <1>1, InsertFirstFollows DEF Insert
<1>2. CASE /\ InsertExisting(k, v) \/ InsertWithRoom(k, v)
           /\ todo' = Path(k) \o Writes(page', <<Leaf(k).number>>)
  BY <1>2, InsertExistingFollows, InsertWithRoomFollows DEF Insert
<1>3. CASE /\ InsertSplittingRootLeaf(k, v)
           /\ todo' = Path(k) \o Alloc(used) \o Alloc(Marked(used))
                        \o Writes(page', <<Leaf(k).number, FindFree(used),
                                           FindFree(Marked(used)), 0>>)
  BY <1>3, SplittingRootLeafFollows DEF Insert
<1>4. CASE /\ InsertSplittingLeaf(k, v)
           /\ todo' = Path(k) \o <<Read(page, Leaf(k).parent)>> \o Alloc(used)
                        \o Writes(page', <<Leaf(k).number, FindFree(used), Leaf(k).parent>>)
  <2>1. Follows
    BY <1>4, SplittingLeafFollows
  <2> QED
    BY <1>4, <2>1 DEF Insert
<1>5. CASE /\ InsertSplittingDeep(k, v)
           /\ todo' = Path(k) \o <<Read(page, Leaf(k).parent)>> \o Alloc(used)
                        \o Writes(page', <<Leaf(k).number, FindFree(used)>>)
  BY <1>5, SplittingDeepFollows DEF Insert
<1> QED
  BY <1>1, <1>2, <1>3, <1>4, <1>5 DEF InsertStep

(* The same for b_delete,                                                     *)
LEMMA DeleteFollows ==
  ASSUME NEW U, InvOf(U), NEW k \in Keys, DeleteStep(k)
  PROVE  Follows /\ Delete(k)
<1>1. PICK n, s, m : n = Leaf(k) /\ s = SiblingOf(n) /\ m = DeleteKeyLeaf(n, k)
  OBVIOUS
<1>2. \/ /\ DeleteFromLeaf(k)
         /\ todo' = Path(k) \o Writes(page', <<n.number>>)
      \/ /\ DeleteRedistributing(k)
         /\ todo' = Path(k) \o ReadSiblings(n) \o Writes(page', <<n.number, s.number, n.parent>>)
      \/ /\ DeleteMerging(k)
         /\ todo' = Path(k) \o ReadSiblings(n) \o Free(used, RightOf(m, s))
                      \o <<MergedPage(MergedLeaves(m, s))>> \o AfterMerge(m, s)
  BY <1>1 DEF DeleteStep
<1>3. CASE DeleteFromLeaf(k) /\ todo' = Path(k) \o Writes(page', <<n.number>>)
  BY <1>1, <1>3, DeleteFromLeafFollows DEF Delete
<1>4. CASE /\ DeleteRedistributing(k)
           /\ todo' = Path(k) \o ReadSiblings(n) \o Writes(page', <<n.number, s.number, n.parent>>)
  BY <1>1, <1>4, DeleteRedistributingFollows DEF Delete
<1>5. CASE /\ DeleteMerging(k)
           /\ todo' = Path(k) \o ReadSiblings(n) \o Free(used, RightOf(m, s))
                        \o <<MergedPage(MergedLeaves(m, s))>> \o AfterMerge(m, s)
  BY <1>1, <1>5, DeleteMergingFollows DEF Delete
<1> QED
  BY <1>2, <1>3, <1>4, <1>5

(* and for each step of the two recursions.                                   *)
LEMMA ClimbFollows ==
  ASSUME NEW U, InvOf(U), ClimbStep
  PROVE  Follows /\ Climb
<1>1. PICK n, m, s : n = call.node /\ m = FindFree(used) /\ s = SiblingOf(n)
  OBVIOUS
<1>2. \/ SplitNode /\ todo' = SplitAccesses
      \/ /\ SplitRoot
         /\ todo' = Alloc(used) \o Parents(SplitOf(m).s) \o Alloc(Marked(used))
                      \o Writes(page', <<n.number, m, FindFree(Marked(used)), 0>>)
      \/ /\ RedistributeNode
         /\ todo' = ReadSiblings(n) \o Parents(Receiver(SharedNodes(n), n))
                      \o Writes(page', <<n.number, s.number, n.parent>>)
      \/ /\ MergeNode
         /\ todo' = ReadSiblings(n) \o Free(used, RightOf(n, s)) \o Parents(MergedNodes(n, s))
                      \o <<MergedPage(MergedNodes(n, s))>> \o AfterMerge(n, s)
  BY <1>1 DEF ClimbStep
<1>3. CASE SplitNode /\ todo' = SplitAccesses
  BY <1>3, SplitNodeFollows DEF Climb
<1>4. CASE /\ SplitRoot
           /\ todo' = Alloc(used) \o Parents(SplitOf(m).s) \o Alloc(Marked(used))
                        \o Writes(page', <<n.number, m, FindFree(Marked(used)), 0>>)
  BY <1>1, <1>4, SplitRootFollows DEF Climb
<1>5. CASE /\ RedistributeNode
           /\ todo' = ReadSiblings(n) \o Parents(Receiver(SharedNodes(n), n))
                        \o Writes(page', <<n.number, s.number, n.parent>>)
  BY <1>1, <1>5, RedistributeNodeFollows DEF Climb
<1>6. CASE /\ MergeNode
           /\ todo' = ReadSiblings(n) \o Free(used, RightOf(n, s)) \o Parents(MergedNodes(n, s))
                        \o <<MergedPage(MergedNodes(n, s))>> \o AfterMerge(n, s)
  BY <1>1, <1>6, MergeNodeFollows DEF Climb
<1> QED
  BY <1>2, <1>3, <1>4, <1>5, <1>6

(* The accesses of every step turn the pages before it into those after it.   *)
LEMMA CallFollows ==
  ASSUME NEW U, InvOf(U), CallStep
  PROVE  Follows /\ [Next]_vars
<1>1. ASSUME NEW k \in Keys, Lookup(k) PROVE Follows /\ UNCHANGED vars
  <2>1. Called /\ todo' = Path(k) /\ UNCHANGED vars
    BY <1>1 DEF Lookup
  <2>2. page' = page /\ used' = used /\ meta' = meta
    BY <2>1 DEF vars
  <2>3. Does(page, used, Path(k), page, used)
    BY <2>1, PathDoes
  <2> QED
    BY <2>1, <2>2, <2>3 DEF Follows, MetaKept
<1>2. ASSUME NEW k \in Keys, DeleteStep(k) PROVE Follows /\ Next
  BY <1>2, DeleteFollows DEF Next
<1>3. ASSUME NEW k \in Keys, NEW v \in Values, InsertStep(k, v) PROVE Follows /\ Next
  BY <1>3, InsertFollows DEF Next
<1>4. CASE ClimbStep
  BY <1>4, ClimbFollows DEF Next
<1> QED
  BY <1>1, <1>2, <1>3, <1>4 DEF CallStep

(* A step that hands out no page of the tree keeps the tree.                  *)
LEMMA CallKeeps ==
  ASSUME NEW U, InvOf(U), proc = "running", CallStep, ~HandsOutUsed
  PROVE  \E U2 : InvOf(U2)'
<1>1. TypeOK /\ (EmptyOf(U) \/ GrownOf(U))
  BY DEF InvOf
<1>2. Fresh(U)
  <2>1. CASE EmptyOf(U)
    BY <2>1 DEF EmptyOf, Fresh
  <2>2. CASE GrownOf(U)
    <3>1. PICK S : S = {f[1] : f \in Frames(View)}
      OBVIOUS
    <3>2. S = U
      BY <1>1, <2>2, <3>1, InvFrames
    <3>3. ~ \E n \in used' \ used : n \in S
      BY <3>1 DEF HandsOutUsed
    <3> QED
      BY <3>2, <3>3 DEF Fresh
  <2> QED
    BY <1>1, <2>1, <2>2
<1>3. [Next]_vars
  BY CallFollows
<1> QED
  BY <1>2, <1>3, NextKeeps DEF Goes

(* What the accesses still to come make of what the cache shows is the pages  *)
(* that the tree has in memory.                                               *)
Agrees ==
  /\ Memory(page, used) /\ todo \in Seq(Accesses)
  /\ Runs(Shown, todo, ViewOf(page, used))

(* Until a page in use is handed out again the tree is one, and the meta page *)
(* is what dbopen and b_insert have written.                                  *)
TreeThere ==
  proc = "running" /\ ~twice => (\E U : InvOf(U)) /\ page[0] = MetaPage(meta)

(* The inductive invariant.                                                   *)
SessionInv ==
  /\ CacheOK /\ Agrees /\ TreeThere
  /\ plain /\ proc # "staleRoot" => PlainOK
  /\ \A m \in saved : FileMap(disk, m)

(* A new database meets it.                                                   *)
LEMMA SessionInitInv ==
  ASSUME SessionInit
  PROVE  SessionInv
<1>1. /\ Init /\ slot = FreshSlots /\ todo = <<>> /\ plain = TRUE /\ saved = {kv}
      /\ disk = [n \in FileNums |-> IF n = 0 THEN MetaPage(0)
                                    ELSE IF n = 1 THEN Index({}) ELSE Hole]
  BY DEF SessionInit
<1>2. /\ page = NewPages /\ root = Blank /\ meta = 0 /\ used = {} /\ call = Idle
      /\ proc = "running"
  BY <1>1 DEF Init
<1>3. PICK U : U = used /\ InvOf(U)
  BY <1>1, InitInv DEF Inv
<1>4. Memory(page, used) /\ page \in [Numbers -> Node]
  BY <1>3, InvMemory DEF Memory
<1>5. PICK mp : mp = MetaPage(0)
  OBVIOUS
<1>6. mp \in Node /\ mp.kind = "Meta" /\ mp # Blank /\ Head(mp.links) = 0 /\ mp # Hole
  <2>1. 0 \in Numbers
    BY DEF Numbers
  <2>2. mp \in Node
    BY <1>5, <2>1, MetaIs
  <2>3. mp.kind = "Meta" /\ mp.links = <<0>>
    BY <1>5 DEF MetaPage, Blank
  <2> QED
    BY <2>2, <2>3, BlankIs, ImagesAre DEF Images
<1>7. page[0] = mp /\ \A n \in PageNums : page[n] = Blank
  BY <1>2, <1>5, BTreeAssumption, BTreeNodeAssumption DEF NewPages
<1>8. FileOK(disk) /\ disk[0] = mp /\ disk[1] = Index({}) /\ \A n \in PageNums : disk[n] = Hole
  <2>1. disk[0] = mp /\ disk[1] = Index({}) /\ \A n \in PageNums : disk[n] = Hole
    BY <1>1, <1>5, ImagesAre, BTreeAssumption, BTreeNodeAssumption, SessionAssumption DEF FileNums
  <2>2. Index({}) \in ImageOf(1) /\ mp \in ImageOf(0)
    BY <1>6, ImagesAre DEF Index, ImageOf
  <2>3. ASSUME NEW n \in FileNums
        PROVE  disk[n] \in Images \union {Hole} /\ (disk[n] # Hole => disk[n] \in ImageOf(n))
    BY <2>1, <2>2, ImagesAre DEF FileNums
  <2>4. disk[1] # Hole
    BY <2>1, <2>2, ImagesAre
  <2>5. disk = [n \in FileNums |-> disk[n]]
    BY <1>1
  <2>6. disk \in [FileNums -> Images \union {Hole}]
    BY <2>3, <2>5
  <2>7. FileOK(disk)
    BY <2>3, <2>4, <2>6 DEF FileOK
  <2> QED
    BY <2>1, <2>7
<1>9. CacheOK /\ Shown = disk
  BY <1>1, <1>8, CacheFresh
<1>10. FilePages(disk) = page
  <2>1. ASSUME NEW n \in Numbers PROVE FilePages(disk)[n] = page[n]
    BY <1>6, <1>7, <1>8, FileShows DEF Numbers
  <2> QED
    BY <1>4, <1>8, <2>1, FileShows
<1>11. Agrees
  <2>1. disk = ViewOf(page, used)
    <3>1. disk[1].used = used
      BY <1>2, <1>8 DEF Index
    <3> QED
      BY <1>8, <1>10, <3>1, FileShows
  <2>2. Runs(Shown, <<>>, ViewOf(page, used))
    BY <1>9, <2>1, RunsNil
  <2> QED
    BY <1>1, <1>4, <2>2 DEF Agrees
<1>12. PlainOK
  BY <1>1, <1>8 DEF PlainOK, FreshSlots
<1>13. FileMap(disk, kv)
  <2>1. MapIn(page, meta, kv)
    <3>1. meta = root.number /\ page[0] = MetaPage(meta)
      BY <1>2, <1>5, <1>7, BlankIs
    <3> QED
      BY <1>2, <1>3, <3>1, MemoryHoldsMap
  <2>2. FileRoot(disk) = meta
    BY <1>2, <1>6, <1>8 DEF FileRoot
  <2> QED
    BY <1>10, <2>1, <2>2 DEF FileMap
<1>14. TreeThere
  BY <1>2, <1>3, <1>5, <1>7 DEF TreeThere
<1> QED
  BY <1>1, <1>9, <1>11, <1>12, <1>13, <1>14 DEF SessionInv

(* Opening a file.                                                            *)
LEMMA OpenKeeps ==
  ASSUME NEW d, FileOK(d), Open(d), \A m \in saved' : FileMap(d, m),
         plain' => d[0] = MetaPage(0)
  PROVE  SessionInv'
<1>1. PICK P, r : P = FilePages(d) /\ r = FileRoot(d)
  OBVIOUS
<1>2. /\ page' = P /\ meta' = r /\ root' = (IF r = 0 THEN Blank ELSE P[r])
      /\ buffer' \in (IF r = 0 THEN {"null", "wild"} ELSE {"live"})
      /\ used' = d[1].used /\ call' = Idle
      /\ slot' = FreshSlots /\ disk' = d /\ todo' = <<>>
  BY <1>1 DEF Open
<1>3. proc' = "staleRoot" \/ (proc' = "running" /\ kv' \in saved')
  BY DEF Open
<1>4. CacheOK' /\ Shown' = d
  BY <1>2, CacheFreshNext
<1>5. /\ P \in [Numbers -> Node] /\ used' \subseteq PageNums /\ d = ViewOf(P, used')
      /\ \A n \in Numbers : P[n] = IF d[n] = Hole THEN Blank ELSE d[n]
  BY <1>1, <1>2, FileShows
<1>6. Agrees'
  <2>1. Memory(page', used')
    BY <1>2, <1>5 DEF Memory
  <2>2. Runs(Shown', <<>>, ViewOf(page', used'))
    BY <1>2, <1>4, <1>5, RunsNil
  <2> QED
    BY <1>2, <2>1, <2>2 DEF Agrees
<1>7. ASSUME proc' = "running" PROVE MapIn(P, r, kv')
  BY <1>1, <1>3, <1>7 DEF FileMap
<1>8. TreeThere'
  <2>1. ASSUME proc' = "running" PROVE (\E U : InvOf(U)') /\ page'[0] = MetaPage(meta')
    BY <1>2, <1>5, <1>7, <2>1, MapOpens
  <2> QED
    BY <2>1 DEF TreeThere
<1>9. ASSUME plain', proc' # "staleRoot" PROVE PlainOK'
  <2>1. MapIn(P, r, kv')
    BY <1>3, <1>7, <1>9
  <2>2. r = 0
    <3>1. d[0] = MetaPage(0)
      BY <1>9
    <3>2. P[0] = MetaPage(r) /\ 0 \in Numbers
      BY <2>1 DEF MapIn, Numbers
    <3>3. Head(MetaPage(0).links) = 0
      BY DEF MetaPage
    <3> QED
      BY <1>1, <3>1, <3>3 DEF FileRoot
  <2>3. P = NewPages
    BY <2>1, <2>2 DEF MapIn
  <2>4. ASSUME NEW n \in PageNums PROVE d[n] = Hole
    <3>1. n \in Numbers /\ P[n] = Blank
      BY <2>3, BTreeAssumption, BTreeNodeAssumption DEF NewPages, Numbers
    <3>2. d[n] # Hole => d[n] \in Node \ {Blank}
      BY <3>1, ImagesAre DEF FileOK
    <3> QED
      BY <1>5, <3>1, <3>2
  <2>5. \A i \in C!Slots : ~slot'[i].alive
    BY <1>2 DEF FreshSlots
  <2> QED
    BY <1>2, <2>4, <2>5 DEF PlainOK
<1>10. \A m \in saved' : FileMap(disk', m)
  BY <1>2
<1> QED
  BY <1>4, <1>6, <1>8, <1>9, <1>10 DEF SessionInv

(* What a sync leaves in the file.                                            *)
LEMMA SavedIs ==
  ASSUME SessionInv, Between, NEW d, d = C!DiskAfterFlush(CacheSize), NEW m \in SavedBySync
  PROVE  FileMap(d, m)
<1>1. CASE plain /\ meta = root.number
  <2>1. m = kv
    BY <1>1 DEF SavedBySync
  <2>2. todo = <<>> /\ ~twice /\ call = Idle /\ proc = "running"
    BY DEF Between
  <2>3. PICK U : InvOf(U) /\ page[0] = MetaPage(meta)
    BY <2>2 DEF SessionInv, TreeThere
  <2>4. /\ CacheOK /\ PlainOK /\ Memory(page, used) /\ Shown = ViewOf(page, used)
    BY <1>1, <2>2, RunsNil DEF SessionInv, Agrees
  <2>5. FilePages(d) = page /\ FileOK(d)
    BY <2>4, PlainFlush, FlushedFile
  <2>6. MapIn(page, meta, kv)
    BY <1>1, <2>2, <2>3, MemoryHoldsMap
  <2>7. FileRoot(d) = meta
    <3>1. page[0] = IF d[0] = Hole THEN Blank ELSE d[0]
      BY <2>5, FileShows DEF Numbers
    <3>2. MetaPage(meta) # Blank /\ Head(MetaPage(meta).links) = meta
      <4>1. PICK mp : mp = MetaPage(meta)
        OBVIOUS
      <4>2. mp.kind = "Meta" /\ mp.links = <<meta>>
        BY <4>1 DEF MetaPage, Blank
      <4> QED
        BY <4>1, <4>2, BlankIs
    <3> QED
      BY <2>3, <3>1, <3>2 DEF FileRoot
  <2> QED
    BY <2>1, <2>5, <2>6, <2>7 DEF FileMap
<1>2. CASE ~(plain /\ meta = root.number)
  <2>1. d = disk /\ m \in saved
    BY <1>2 DEF SavedBySync
  <2> QED
    BY <2>1 DEF SessionInv
<1> QED
  BY <1>1, <1>2

(* A call's step is one of a running process.                                 *)
LEMMA CallRuns ==
  ASSUME CallStep
  PROVE  proc = "running"
<1>1. ASSUME NEW k \in Keys, Lookup(k) PROVE proc = "running"
  BY <1>1 DEF Lookup, Called
<1>2. ASSUME NEW k \in Keys, DeleteStep(k) PROVE proc = "running"
  BY <1>2 DEF DeleteStep, DeleteFromLeaf, DeleteRedistributing, DeleteMerging, Underflows,
             Called
<1>3. ASSUME NEW k \in Keys, NEW v \in Values, InsertStep(k, v) PROVE proc = "running"
  BY <1>3 DEF InsertStep, InsertFirst, InsertExisting, InsertWithRoom,
              InsertSplittingRootLeaf, InsertSplittingLeaf, InsertSplittingDeep, NeedsSplit,
              Called
<1>4. CASE ClimbStep
  BY <1>4 DEF ClimbStep, SplitNode, SplitRoot, RedistributeNode, MergeNode, Pending
<1> QED
  BY <1>1, <1>2, <1>3, <1>4 DEF CallStep

(* A step that leaves the cache and the file alone.                           *)
LEMMA CacheStands ==
  ASSUME slot' = slot, disk' = disk
  PROVE  CacheOK' = CacheOK /\ Shown' = Shown /\ PlainOK' = PlainOK
BY DEF CacheOK, C!UniqueOffsets, Shown, C!View, C!Holds, PlainOK

(* A step of the tree.                                                        *)
LEMMA TreeStepKeeps ==
  ASSUME SessionInv, TreeStep(CallStep)
  PROVE  SessionInv'
<1>1. /\ todo = <<>> /\ ~twice /\ CallStep /\ twice' = HandsOutUsed
      /\ slot' = slot /\ disk' = disk /\ plain' = plain /\ saved' = saved
  BY DEF TreeStep, cacheVars
<1>2. proc = "running"
  BY <1>1, CallRuns
<1>3. PICK U : InvOf(U) /\ page[0] = MetaPage(meta)
  BY <1>1, <1>2 DEF SessionInv, TreeThere
<1>4. Does(page, used, todo', page', used') /\ MetaKept
  BY <1>1, <1>3, CallFollows DEF Follows
<1>5. CacheOK' /\ Shown' = Shown /\ PlainOK' = PlainOK
  BY <1>1, CacheStands DEF SessionInv
<1>6. Agrees'
  <2>1. Shown = ViewOf(page, used)
    BY <1>1, RunsNil DEF SessionInv, Agrees
  <2>2. /\ Memory(page', used') /\ todo' \in Seq(Accesses)
        /\ Runs(Shown', todo', ViewOf(page', used'))
    BY <1>4, <1>5, <2>1 DEF Does
  <2> QED
    BY <2>2 DEF Agrees
<1>7. TreeThere'
  <2>1. ASSUME proc' = "running", ~twice'
        PROVE  (\E U2 : InvOf(U2)') /\ page'[0] = MetaPage(meta')
    <3>1. \E U2 : InvOf(U2)'
      BY <1>1, <1>2, <1>3, <2>1, CallKeeps
    <3> QED
      BY <1>3, <1>4, <2>1, <3>1 DEF MetaKept
  <2> QED
    BY <2>1 DEF TreeThere
<1>8. plain' /\ proc' # "staleRoot" => PlainOK'
  BY <1>1, <1>2, <1>5 DEF SessionInv
<1>9. \A m \in saved' : FileMap(disk', m)
  BY <1>1 DEF SessionInv
<1> QED
  BY <1>5, <1>6, <1>7, <1>8, <1>9 DEF SessionInv

(* The access that is next finds the page that it names, or leaves its page:  *)
(* either way it makes of what is shown what it was to make.                  *)
LEMMA AccessFollows ==
  ASSUME CacheOK, Agrees, AccessPage
  PROVE  /\ CacheOK' /\ Agrees'
         /\ Head(todo).op = "read" => out'.data = Head(todo).img
<1>1. PICK a, t : a = Head(todo) /\ t = Tail(todo)
  OBVIOUS
<1>2. /\ todo # <<>> /\ todo' = t /\ page' = page /\ used' = used
      /\ \/ a.op = "read" /\ C!ReadCache(a.at)
         \/ a.op = "write" /\ C!WriteCache(a.at, a.img)
  BY <1>1 DEF AccessPage, vars
<1>3. /\ Memory(page, used) /\ todo \in Seq(Accesses)
      /\ Runs(Shown, todo, ViewOf(page, used))
  BY DEF Agrees
<1>4. PICK w : Takes(Shown, a, w) /\ Runs(w, t, ViewOf(page, used))
  BY <1>1, <1>2, <1>3, RunsHead
<1>5. a.at \in FileNums /\ a.img \in ImageOf(a.at)
  BY <1>4 DEF Takes, Accesses
<1>6. CacheOK' /\ Shown' = w /\ (a.op = "read" => out'.data = a.img)
  <2>1. CASE a.op = "read" /\ C!ReadCache(a.at)
    <3>1. Shown[a.at] = a.img /\ w = Shown
      BY <1>4, <2>1 DEF Takes
    <3> QED
      BY <1>5, <2>1, <3>1, CacheRead
  <2>2. CASE a.op = "write" /\ C!WriteCache(a.at, a.img)
    <3>1. w = [Shown EXCEPT ![a.at] = a.img]
      BY <1>4, <2>2 DEF Takes
    <3>2. Stores(a.at, a.img)
      BY <1>5, <2>2, CacheWrite
    <3> QED
      BY <2>2, <3>1, <3>2 DEF Stores
  <2> QED
    BY <1>2, <2>1, <2>2
<1>7. t \in Seq(Accesses)
  BY <1>1, <1>2, <1>3
<1>8. Agrees'
  <2>1. Memory(page', used') /\ todo' \in Seq(Accesses)
    BY <1>2, <1>3, <1>7 DEF Memory
  <2>2. Runs(Shown', todo', ViewOf(page', used'))
    BY <1>2, <1>4, <1>6
  <2> QED
    BY <2>1, <2>2 DEF Agrees
<1> QED
  BY <1>1, <1>6, <1>8

(* It may evict a page: then nothing is claimed of the file.                  *)
LEMMA AccessKeeps ==
  ASSUME SessionInv, AccessPage
  PROVE  SessionInv'
<1>1. PICK a : a = Head(todo)
  OBVIOUS
<1>2. /\ todo # <<>> /\ UNCHANGED vars /\ twice' = twice
      /\ plain' = (plain /\ ~Evicts(a.at))
      /\ saved' = (IF Evicts(a.at) THEN {} ELSE saved)
      /\ \/ a.op = "read" /\ C!ReadCache(a.at)
         \/ a.op = "write" /\ C!WriteCache(a.at, a.img)
  BY <1>1 DEF AccessPage
<1>3. CacheOK' /\ Agrees'
  BY AccessFollows DEF SessionInv
<1>4. TreeThere'
  <2>1. proc' = proc /\ page' = page /\ meta' = meta
    BY <1>2 DEF vars
  <2>2. ASSUME NEW U, InvOf(U) PROVE \E U2 : InvOf(U2)'
    BY <1>2, <2>2, StutterKeeps DEF Goes
  <2> QED
    BY <1>2, <2>1, <2>2 DEF SessionInv, TreeThere
<1>5. ASSUME ~Evicts(a.at) PROVE disk' = disk
  BY <1>2, <1>5, StaysOnFile
<1>6. ASSUME plain', proc' # "staleRoot" PROVE PlainOK'
  <2>1. ~Evicts(a.at) /\ CacheOK /\ PlainOK
    <3>1. plain /\ ~Evicts(a.at)
      BY <1>2, <1>6
    <3>2. proc' = proc
      BY <1>2 DEF vars
    <3> QED
      BY <1>6, <3>1, <3>2 DEF SessionInv
  <2>2. PICK w : Takes(Shown, a, w)
    BY <1>1, <1>2, RunsHead DEF SessionInv, Agrees
  <2>3. a.at \in FileNums /\ a.img \in ImageOf(a.at) /\ a.img \in Images
    BY <2>2, ImagesAre DEF Takes, Accesses
  <2>4. CASE a.op = "read" /\ C!ReadCache(a.at)
    <3>1. a.at # 0 /\ Shown[a.at] = a.img
      BY <2>2, <2>4 DEF Takes
    <3> QED
      BY <2>1, <2>3, <2>4, <3>1, PlainRead
  <2>5. CASE a.op = "write" /\ C!WriteCache(a.at, a.img)
    BY <2>1, <2>3, <2>5, PlainWrite
  <2> QED
    BY <1>2, <2>4, <2>5
<1>7. \A m \in saved' : FileMap(disk', m)
  BY <1>2, <1>5 DEF SessionInv
<1> QED
  BY <1>3, <1>4, <1>6, <1>7 DEF SessionInv

(* A sync changes what the file holds, not what is shown.                     *)
LEMMA SyncKeeps ==
  ASSUME SessionInv, Sync
  PROVE  SessionInv'
<1>1. /\ Between /\ C!Flush /\ plain' = FALSE /\ saved' = SavedBySync
      /\ UNCHANGED vars /\ todo' = todo /\ twice' = twice
  BY DEF Sync
<1>2. /\ page' = page /\ used' = used /\ proc' = proc /\ meta' = meta
  BY <1>1 DEF vars
<1>3. CacheOK' /\ Shown' = Shown
  BY <1>1, CacheFlush DEF SessionInv
<1>4. Agrees'
  BY <1>1, <1>2, <1>3 DEF SessionInv, Agrees, Memory
<1>5. TreeThere'
  <2>1. ASSUME NEW U, InvOf(U) PROVE \E U2 : InvOf(U2)'
    BY <1>1, <2>1, StutterKeeps DEF Goes
  <2> QED
    BY <1>1, <1>2, <2>1 DEF SessionInv, TreeThere
<1>6. disk' = C!DiskAfterFlush(CacheSize)
  BY <1>1 DEF C!Flush
<1>7. \A m \in saved' : FileMap(disk', m)
  BY <1>1, <1>6, SavedIs
<1> QED
  BY <1>1, <1>3, <1>4, <1>5, <1>7 DEF SessionInv

(* The next process finds what db_close has left ...                          *)
LEMMA CloseKeeps ==
  ASSUME SessionInv, CloseAndOpen
  PROVE  SessionInv'
<1>1. PICK d : d = C!DiskAfterFlush(CacheSize)
  OBVIOUS
<1>2. Between /\ saved' = SavedBySync /\ plain' = FALSE /\ Open(d)
  BY <1>1 DEF CloseAndOpen
<1>3. FileOK(d)
  BY <1>1, FlushedFile DEF SessionInv
<1>4. \A m \in saved' : FileMap(d, m)
  BY <1>1, <1>2, SavedIs
<1> QED
  BY <1>2, <1>3, <1>4, OpenKeeps

(* ... or what the last one had written when it came to its end.              *)
LEMMA CrashKeeps ==
  ASSUME SessionInv, CrashAndOpen
  PROVE  SessionInv'
<1>1. PICK d : d = disk
  OBVIOUS
<1>2. saved' = saved /\ Open(d) /\ (plain' => d[0] = MetaPage(0))
  BY <1>1 DEF CrashAndOpen
<1>3. FileOK(d) /\ \A m \in saved' : FileMap(d, m)
  BY <1>1, <1>2 DEF SessionInv, CacheOK
<1> QED
  BY <1>2, <1>3, OpenKeeps

(* Nothing happens.                                                           *)
LEMMA IdleKeeps ==
  ASSUME SessionInv, UNCHANGED sessionVars
  PROVE  SessionInv'
<1>1. /\ UNCHANGED vars /\ slot' = slot /\ disk' = disk /\ todo' = todo /\ plain' = plain
      /\ saved' = saved /\ twice' = twice
  BY DEF sessionVars, cacheVars
<1>2. /\ page' = page /\ used' = used /\ proc' = proc /\ meta' = meta
  BY <1>1 DEF vars
<1>3. CacheOK' /\ Shown' = Shown /\ PlainOK' = PlainOK
  BY <1>1, CacheStands DEF SessionInv
<1>4. Agrees'
  BY <1>1, <1>2, <1>3 DEF SessionInv, Agrees, Memory
<1>5. TreeThere'
  <2>1. ASSUME NEW U, InvOf(U) PROVE \E U2 : InvOf(U2)'
    BY <1>1, <2>1, StutterKeeps DEF Goes
  <2> QED
    BY <1>1, <1>2, <2>1 DEF SessionInv, TreeThere
<1>6. \A m \in saved' : FileMap(disk', m)
  BY <1>1 DEF SessionInv
<1> QED
  BY <1>1, <1>2, <1>3, <1>4, <1>5, <1>6 DEF SessionInv

-------------------------------------------------------------------------------
(* Theorems *)

(* Every reachable state of every session meets the inductive invariant:      *)
(* calls, syncs, ends of processes at any point, and files opened again.      *)
THEOREM SessionInvariant == SessionSpec => []SessionInv
<1>1. SessionInit => SessionInv
  BY SessionInitInv
<1>2. SessionInv /\ [SessionNext]_sessionVars => SessionInv'
  <2> SUFFICES ASSUME SessionInv, [SessionNext]_sessionVars PROVE SessionInv'
    OBVIOUS
  <2>1. ASSUME NEW k \in Keys, TreeStep(Lookup(k)) \/ TreeStep(DeleteStep(k))
        PROVE  TreeStep(CallStep)
    BY <2>1 DEF TreeStep, CallStep
  <2>2. ASSUME NEW k \in Keys, NEW v \in Values, TreeStep(InsertStep(k, v))
        PROVE  TreeStep(CallStep)
    BY <2>2 DEF TreeStep, CallStep
  <2>3. ASSUME TreeStep(ClimbStep) PROVE TreeStep(CallStep)
    BY <2>3 DEF TreeStep, CallStep
  <2>4. \/ TreeStep(CallStep) \/ AccessPage \/ Sync \/ CloseAndOpen \/ CrashAndOpen
        \/ UNCHANGED sessionVars
    BY <2>1, <2>2, <2>3 DEF SessionNext
  <2> QED
    BY <2>4, TreeStepKeeps, AccessKeeps, SyncKeeps, CloseKeeps, CrashKeeps, IdleKeeps
<1> QED
  BY <1>1, <1>2, PTL DEF SessionSpec

(* Between the calls of the tree the cache shows every page and every number  *)
(* that the tree has, whatever was evicted, synced or loaded in between.      *)
THEOREM CacheIsTree == SessionSpec => []CacheShowsTree
<1>1. SessionInv => CacheShowsTree
  <2> SUFFICES ASSUME SessionInv, todo = <<>>
               PROVE  FilePages(Shown) = page /\ Shown[1] = Index(used)
    BY DEF CacheShowsTree
  <2>1. Memory(page, used) /\ Shown = ViewOf(page, used)
    BY RunsNil DEF SessionInv, Agrees
  <2> QED
    BY <2>1, ViewOfIs DEF Memory
<1> QED
  BY <1>1, SessionInvariant, PTL

(* Within a call every read_page delivers the page that the step of the tree  *)
(* takes it to be.                                                            *)
THEOREM CallReadsItsPages == SessionSpec => ReadsAgree
<1>1. SessionInv /\ [SessionNext]_sessionVars =>
        [AccessPage /\ Head(todo).op = "read" => out'.data = Head(todo).img]_sessionVars
  BY AccessFollows DEF SessionInv
<1> QED
  BY <1>1, SessionInvariant, PTL DEF SessionSpec, ReadsAgree

(* A map that a sync has left in the file is there until a page of the tree   *)
(* is written to the file again, in whatever call the process ends.           *)
THEOREM SavedMapStays == SessionSpec => []DurableCopy
<1>1. SessionInv => DurableCopy
  BY FileMapContents DEF SessionInv, DurableCopy
<1> QED
  BY <1>1, SessionInvariant, PTL

(* A process that opened the file behind a crash keeps the map, although the  *)
(* index may offer pages in use, until it hands one of them out.              *)
THEOREM ReopenedKeepsMap == SessionSpec => []ReopenedMap
<1>1. SessionInv => ReopenedMap
  <2> SUFFICES ASSUME SessionInv, ~twice, proc = "running" PROVE ContentsKept
    BY DEF ReopenedMap, ContentsKept
  <2>1. PICK U : InvOf(U)
    BY DEF SessionInv, TreeThere
  <2> QED
    BY <2>1, InvContentsKept
<1> QED
  BY <1>1, SessionInvariant, PTL
==============================================================================
