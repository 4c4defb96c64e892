--------------------------- MODULE PageCache_proof ---------------------------
(* Proofs about the page cache, for any number of pages and slots.            *)
EXTENDS PageCache, TLAPS

(* The answers of calls, spelt out once.                                      *)
LEMMA AnswerType ==
  ASSUME NEW op \in {"none", "read", "write", "sync"}, NEW o \in Nat,
         NEW rc \in {-1, 0, 1}, NEW c \in Contents \union {Hole}
  PROVE  Answer(op, o, rc, c) \in Outcome
  BY DEF Answer, Outcome

(* A claimed slot is a slot.                                                  *)
LEMMA ClaimedType ==
  ASSUME NEW i \in Slots, slot[i] \in Slot, NEW o \in Offsets,
         NEW d \in BOOLEAN, NEW c \in Contents
  PROVE  Claimed(i, o, d, c) \in Slot
  BY OffsetsAssumption DEF Claimed, Slot

(* So is a slot that a hit counts and overwrites.                             *)
LEMMA OverwrittenType ==
  ASSUME NEW s \in Slot, NEW n \in Nat, NEW c \in Contents
  PROVE  [s EXCEPT !.power = n, !.data = c] \in Slot
  BY DEF Slot

(* A hit that only counts leaves a slot.                                      *)
LEMMA HitType ==
  ASSUME NEW s \in Slot, NEW c \in Contents
  PROVE  [s EXCEPT !.power = @ + 1, !.data = c] \in Slot
<1>1. s.power + 1 \in Nat
  BY DEF Slot
<1> QED
  BY <1>1, OverwrittenType

(* What is loaded into a slot is a page image, whatever the file holds.       *)
LEMMA LoadedType ==
  ASSUME NEW d, d \in [Offsets -> Contents \union {Hole}], NEW o \in Offsets,
         NEW old \in Contents
  PROVE  Loaded(d, o, old) \in Contents
  BY ContentsAssumption DEF Loaded

(* Writing a victim back leaves a file of page images, if the victim names a  *)
(* page that some caller asked for.                                           *)
LEMMA WrittenBackType ==
  ASSUME TypeOK, NEW i \in Slots
  PROVE  WrittenBack(i) \in [Offsets -> Contents \union {Hole}]
  BY DEF WrittenBack, TypeOK, Slot

(* A sync, complete or cut short, leaves slots and a file.                    *)
LEMMA FlushTypes ==
  ASSUME TypeOK, NEW n
  PROVE  /\ SlotsAfterFlush(n) \in [Slots -> Slot]
         /\ DiskAfterFlush(n) \in [Offsets -> Contents \union {Hole}]
<1>1. SlotsAfterFlush(n) \in [Slots -> Slot]
  BY DEF SlotsAfterFlush, TypeOK, Slot
<1>2. ASSUME NEW o \in Offsets
      PROVE  DiskAfterFlush(n)[o] \in Contents \union {Hole}
  <2> DEFINE P(i) == i < n /\ Flushed(i) /\ slot[i].offset = o
  <2>1. CASE \E i \in Slots : P(i)
    <3>1. (CHOOSE i \in Slots : P(i)) \in Slots
      BY <2>1
    <3>2. slot[CHOOSE i \in Slots : P(i)].data \in Contents
      BY <3>1 DEF TypeOK, Slot
    <3> QED
      BY <2>1, <3>2 DEF DiskAfterFlush
  <2>2. CASE ~ \E i \in Slots : P(i)
    BY <2>2 DEF DiskAfterFlush, TypeOK
  <2> QED
    BY <2>1, <2>2
<1>3. DOMAIN DiskAfterFlush(n) = Offsets
      /\ DiskAfterFlush(n) = [o \in DOMAIN DiskAfterFlush(n) |-> DiskAfterFlush(n)[o]]
  BY DEF DiskAfterFlush
<1> QED
  BY <1>1, <1>2, <1>3

(* Slots, file and answers always have their types.                           *)
THEOREM TypeCorrect == Spec => []TypeOK
<1>1. Init => TypeOK
  <2> SUFFICES ASSUME Init PROVE TypeOK
    OBVIOUS
  <2>1. slot \in [Slots -> Slot]
    BY DEF Init, Slot
  <2>2. out \in Outcome
    BY AnswerType DEF Init
  <2> QED
    BY <2>1, <2>2 DEF Init, TypeOK
<1>2. TypeOK /\ [Next]_vars => TypeOK'
  <2> SUFFICES ASSUME TypeOK, [Next]_vars PROVE TypeOK'
    OBVIOUS
  <2> USE DEF TypeOK
  <2>1. ASSUME NEW o \in Offsets, ReadHit(o) PROVE TypeOK'
    <3>1. PICK i \in Slots : /\ FirstHit(i, o)
                             /\ slot' = [slot EXCEPT ![i].power = @ + 1]
                             /\ out' = Answer("read", o, 0, slot[i].data)
                             /\ UNCHANGED disk
      BY <2>1 DEF ReadHit
    <3>2. slot[i].data \in Contents
      BY DEF Slot
    <3>3. out' \in Outcome
      BY <3>1, <3>2, AnswerType, OffsetsAssumption
    <3> QED
      BY <3>1, <3>3 DEF Slot
  <2>2. ASSUME NEW o \in Offsets, ReadIntoFree(o) PROVE TypeOK'
    <3>1. PICK i \in Slots :
            /\ slot' = [slot EXCEPT ![i] = Claimed(i, o, FALSE,
                                              Loaded(disk, o, slot[i].data))]
            /\ out' = Answer("read", o, 0, slot'[i].data)
            /\ UNCHANGED disk
      BY <2>2 DEF ReadIntoFree
    <3>2. slot[i] \in Slot /\ slot[i].data \in Contents
      BY DEF Slot
    <3>3. Claimed(i, o, FALSE, Loaded(disk, o, slot[i].data)) \in Slot
      BY <3>2, LoadedType, ClaimedType
    <3>4. slot' \in [Slots -> Slot]
      BY <3>1, <3>3
    <3>5. slot'[i].data \in Contents
      BY <3>4 DEF Slot
    <3>6. out' \in Outcome
      BY <3>1, <3>5, AnswerType, OffsetsAssumption
    <3> QED
      BY <3>1, <3>4, <3>6
  <2>3. ASSUME NEW o \in Offsets, ReadByEviction(o) PROVE TypeOK'
    <3>1. PICK i \in Slots :
            /\ disk' = WrittenBack(i)
            /\ slot' = [slot EXCEPT
                          ![i] = Claimed(i, o, FlagOfReused(i),
                                   Loaded(WrittenBack(i), o, slot[i].data))]
            /\ out' = Answer("read", o, 0, slot'[i].data)
      BY <2>3 DEF ReadByEviction
    <3>2. /\ slot[i] \in Slot /\ slot[i].data \in Contents
          /\ FlagOfReused(i) \in BOOLEAN
      BY DEF Slot, FlagOfReused
    <3>3. Claimed(i, o, FlagOfReused(i),
                  Loaded(WrittenBack(i), o, slot[i].data)) \in Slot
      BY <3>2, WrittenBackType, LoadedType, ClaimedType
    <3>4. slot' \in [Slots -> Slot]
      BY <3>1, <3>3
    <3>5. slot'[i].data \in Contents
      BY <3>4 DEF Slot
    <3>6. out' \in Outcome
      BY <3>1, <3>5, AnswerType, OffsetsAssumption
    <3> QED
      BY <3>1, <3>4, <3>6, WrittenBackType
  <2>4. ASSUME NEW o \in Offsets, FillFails(o) PROVE TypeOK'
    <3>1. PICK i \in Slots :
            \/ /\ slot' = [slot EXCEPT ![i] = Claimed(i, o, FALSE, slot[i].data)]
               /\ UNCHANGED disk
            \/ /\ slot' = [slot EXCEPT
                             ![i] = Claimed(i, o, FlagOfReused(i), slot[i].data)]
               /\ disk' = WrittenBack(i)
      BY <2>4 DEF FillFails
    <3>2. /\ slot[i] \in Slot /\ slot[i].data \in Contents
          /\ FlagOfReused(i) \in BOOLEAN
      BY DEF Slot, FlagOfReused
    <3>3. /\ Claimed(i, o, FALSE, slot[i].data) \in Slot
          /\ Claimed(i, o, FlagOfReused(i), slot[i].data) \in Slot
      BY <3>2, ClaimedType
    <3>4. out' \in Outcome
      BY <2>4, AnswerType, OffsetsAssumption DEF FillFails
    <3> QED
      BY <3>1, <3>3, <3>4, WrittenBackType
  <2>5. ASSUME NEW o \in Offsets, NEW c \in Contents, WriteCache(o, c)
        PROVE  TypeOK'
    <3> USE OffsetsAssumption
    <3>1. out' = Answer("write", o, 0, Hole) => out' \in Outcome
      BY AnswerType
    <3>2. CASE WriteHit(o, c)
      <4>1. PICK i \in Slots :
              /\ slot' = [slot EXCEPT ![i].power = @ + 1, ![i].data = c]
              /\ out' = Answer("write", o, 0, Hole)
              /\ UNCHANGED disk
        BY <3>2 DEF WriteHit
      <4>2. [slot[i] EXCEPT !.power = @ + 1, !.data = c] \in Slot
        BY HitType
      <4>3. slot' = [slot EXCEPT
                       ![i] = [slot[i] EXCEPT !.power = @ + 1, !.data = c]]
        BY <4>1
      <4>4. slot' \in [Slots -> Slot]
        BY <4>2, <4>3
      <4> QED
        BY <3>1, <4>1, <4>4
    <3>3. CASE WriteIntoFree(o, c)
      <4>1. PICK i \in Slots :
              /\ slot' = [slot EXCEPT ![i] = Claimed(i, o, TRUE, c)]
              /\ out' = Answer("write", o, 0, Hole)
              /\ UNCHANGED disk
        BY <3>3 DEF WriteIntoFree
      <4>2. Claimed(i, o, TRUE, c) \in Slot
        BY ClaimedType
      <4> QED
        BY <3>1, <4>1, <4>2
    <3>4. CASE WriteByEviction(o, c)
      <4>1. PICK i \in Slots :
              /\ disk' = WrittenBack(i)
              /\ slot' = [slot EXCEPT ![i] = Claimed(i, o, FlagOfReused(i), c)]
              /\ out' = Answer("write", o, 0, Hole)
        BY <3>4 DEF WriteByEviction
      <4>2. FlagOfReused(i) \in BOOLEAN
        BY DEF FlagOfReused, Slot
      <4>3. Claimed(i, o, FlagOfReused(i), c) \in Slot
        BY <4>2, ClaimedType
      <4> QED
        BY <3>1, <4>1, <4>3, WrittenBackType
    <3> QED
      BY <2>5, <3>2, <3>3, <3>4 DEF WriteCache
  <2>6. ASSUME NEW o \in Offsets, NEW op \in {"read", "write"}, EvictFails(o, op)
        PROVE  TypeOK'
    BY <2>6, AnswerType, OffsetsAssumption DEF EvictFails
  <2>7. CASE Flush
    BY <2>7, FlushTypes, AnswerType DEF Flush
  <2>8. CASE FlushFails
    <3>1. PICK n \in Slots, rc \in {-1, 1} :
            /\ slot' = SlotsAfterFlush(n + 1)
            /\ disk' = DiskAfterFlush(n)
            /\ out' = Answer("sync", slot[n].offset, rc, Hole)
      BY <2>8 DEF FlushFails
    <3>2. out' \in Outcome
      BY <3>1, AnswerType DEF Slot
    <3> QED
      BY <3>1, <3>2, FlushTypes
  <2>9. CASE UNCHANGED vars
    BY <2>9 DEF vars
  <2> QED
    BY <2>1, <2>2, <2>3, <2>4, <2>5, <2>6, <2>7, <2>8, <2>9 DEF Next, ReadCache
<1> QED
  BY <1>1, <1>2, PTL DEF Spec

-------------------------------------------------------------------------------
(* One slot per page *)

(* A page that is in no slot may be put into any one: the slots stay unique.  *)
LEMMA UniqueAfterClaim ==
  ASSUME TypeOK, UniqueOffsets, NEW i \in Slots, NEW o \in Offsets, Miss(o),
         NEW d, NEW c, slot' = [slot EXCEPT ![i] = Claimed(i, o, d, c)]
  PROVE  UniqueOffsets'
<1> SUFFICES ASSUME NEW j \in Slots, NEW k \in Slots,
                    slot'[j].alive, slot'[k].alive,
                    slot'[j].offset = slot'[k].offset
             PROVE  j = k
  BY DEF UniqueOffsets
<1>1. /\ slot'[i].alive /\ slot'[i].offset = o
      /\ \A n \in Slots : n # i => slot'[n] = slot[n]
  BY DEF TypeOK, Slot, Claimed
<1>2. \A n \in Slots : n # i /\ slot'[n].alive => slot'[n].offset # o
  BY <1>1 DEF Miss, Holds
<1>3. CASE j # i /\ k # i
  BY <1>1, <1>3 DEF UniqueOffsets
<1>4. CASE j = i \/ k = i
  BY <1>1, <1>2, <1>4
<1> QED
  BY <1>3, <1>4

(* A call that only drops slots, or keeps their pages, keeps them unique.     *)
LEMMA UniqueAfterDrop ==
  ASSUME UniqueOffsets,
         \A i \in Slots : slot'[i].alive =>
                           slot[i].alive /\ slot'[i].offset = slot[i].offset
  PROVE  UniqueOffsets'
  BY DEF UniqueOffsets

(* No page sits in two slots, whichever system calls fail.                    *)
THEOREM SlotsUnique == Spec => []UniqueOffsets
<1>1. Init => UniqueOffsets
  BY DEF Init, UniqueOffsets
<1>2. TypeOK /\ UniqueOffsets /\ [Next]_vars => UniqueOffsets'
  <2> SUFFICES ASSUME TypeOK, UniqueOffsets, [Next]_vars PROVE UniqueOffsets'
    OBVIOUS
  <2>1. ASSUME NEW o \in Offsets, ReadHit(o) PROVE UniqueOffsets'
    BY <2>1, UniqueAfterDrop DEF ReadHit, TypeOK, Slot
  <2>2. ASSUME NEW o \in Offsets, ReadIntoFree(o) \/ ReadByEviction(o)
        PROVE  UniqueOffsets'
    BY <2>2, UniqueAfterClaim DEF ReadIntoFree, ReadByEviction
  <2>3. ASSUME NEW o \in Offsets, FillFails(o) PROVE UniqueOffsets'
    BY <2>3, UniqueAfterClaim DEF FillFails
  <2>4. ASSUME NEW o \in Offsets, NEW c \in Contents, WriteHit(o, c)
        PROVE  UniqueOffsets'
    BY <2>4, UniqueAfterDrop DEF WriteHit, TypeOK, Slot
  <2>5. ASSUME NEW o \in Offsets, NEW c \in Contents,
               WriteIntoFree(o, c) \/ WriteByEviction(o, c)
        PROVE  UniqueOffsets'
    BY <2>5, UniqueAfterClaim DEF WriteIntoFree, WriteByEviction
  <2>6. ASSUME NEW n, slot' = SlotsAfterFlush(n) PROVE UniqueOffsets'
    <3>1. ASSUME NEW i \in Slots, slot'[i].alive
          PROVE  slot'[i] = slot[i]
      <4>1. slot[i] \in Slot
        BY DEF TypeOK
      <4>2. [slot[i] EXCEPT !.alive = FALSE].alive = FALSE
        BY <4>1 DEF Slot
      <4> QED
        BY <2>6, <3>1, <4>2 DEF SlotsAfterFlush
    <3> QED
      BY <3>1, UniqueAfterDrop
  <2>7. ASSUME UNCHANGED slot PROVE UniqueOffsets'
    BY <2>7 DEF UniqueOffsets
  <2> QED
    BY <2>1, <2>2, <2>3, <2>4, <2>5, <2>6, <2>7
    DEF Next, ReadCache, WriteCache, EvictFails, Flush, FlushFails, vars
<1> QED
  BY <1>1, <1>2, TypeCorrect, PTL DEF Spec

-------------------------------------------------------------------------------
(* The cache is a memory *)

(* The memory: what each offset is seen to hold. *)
Mem == [o \in Offsets |-> View(o)]

(* A cached page is seen as its slot has it, any other as the file has it.    *)
LEMMA ViewOfCached ==
  ASSUME UniqueOffsets, NEW o \in Offsets, NEW i \in Slots, Holds(i, o)
  PROVE  View(o) = slot[i].data
  BY DEF UniqueOffsets, View, Holds

(* ... and of a page in no slot, the file's copy is seen.                     *)
LEMMA ViewOfUncached ==
  ASSUME NEW o \in Offsets, Miss(o)
  PROVE  View(o) = disk[o]
  BY DEF View, Miss

(* The same after a step: pages are compared slot by slot.                    *)
LEMMA ViewAfter ==
  ASSUME UniqueOffsets', NEW o \in Offsets
  PROVE  /\ \A i \in Slots : slot'[i].alive /\ slot'[i].offset = o
                              => View(o)' = slot'[i].data
         /\ (\A i \in Slots : ~(slot'[i].alive /\ slot'[i].offset = o))
             => View(o)' = disk'[o]
  BY DEF UniqueOffsets, View, Holds

(* Slot i is taken for page o, and the page that was in it, if any, is written *)
(* back: readers see c at o and everything else as before.                     *)
LEMMA ViewAfterClaim ==
  ASSUME TypeOK, UniqueOffsets, UniqueOffsets', NEW i \in Slots,
         NEW o \in Offsets, Miss(o), NEW d, NEW c,
         slot' = [slot EXCEPT ![i] = Claimed(i, o, d, c)],
         \/ ~slot[i].alive /\ disk' = disk
         \/ slot[i].alive /\ disk' = WrittenBack(i)
  PROVE  Mem' = [Mem EXCEPT ![o] = c]
<1>1. /\ slot'[i].alive /\ slot'[i].offset = o /\ slot'[i].data = c
      /\ \A n \in Slots : n # i => slot'[n] = slot[n]
  BY DEF TypeOK, Slot, Claimed
<1>2. View(o)' = c
  BY <1>1, ViewAfter
<1>3. ASSUME NEW q \in Offsets, q # o PROVE View(q)' = View(q)
  <2>1. CASE \E j \in Slots : j # i /\ Holds(j, q)
    <3>1. PICK j \in Slots : j # i /\ Holds(j, q)
      BY <2>1
    <3>2. View(q) = slot[j].data
      BY <3>1, ViewOfCached
    <3>3. View(q)' = slot'[j].data
      BY <3>1, <1>1, ViewAfter DEF Holds
    <3> QED
      BY <3>1, <3>2, <3>3, <1>1
  <2>2. CASE /\ \A j \in Slots : j # i => ~Holds(j, q)
             /\ Holds(i, q)
    <3>1. View(q) = slot[i].data
      BY <2>2, ViewOfCached
    <3>2. View(q)' = disk'[q]
      BY <2>2, <1>1, <1>3, ViewAfter DEF Holds
    <3>3. disk'[q] = slot[i].data
      BY <2>2 DEF Holds, WrittenBack, TypeOK
    <3> QED
      BY <3>1, <3>2, <3>3
  <2>3. CASE Miss(q)
    <3>1. View(q) = disk[q]
      BY <2>3, ViewOfUncached
    <3>2. View(q)' = disk'[q]
      BY <2>3, <1>1, <1>3, ViewAfter DEF Miss, Holds
    <3>3. disk'[q] = disk[q]
      BY <2>3 DEF Miss, Holds, WrittenBack, TypeOK
    <3> QED
      BY <3>1, <3>2, <3>3
  <2> QED
    BY <2>1, <2>2, <2>3 DEF Miss
<1> QED
  BY <1>2, <1>3 DEF Mem

(* A hit that stores c in the slot of page o.                                 *)
LEMMA ViewAfterHit ==
  ASSUME TypeOK, UniqueOffsets, UniqueOffsets', NEW i \in Slots,
         NEW o \in Offsets, Holds(i, o), NEW c, disk' = disk,
         slot'[i].alive, slot'[i].offset = o, slot'[i].data = c,
         \A n \in Slots : n # i => slot'[n] = slot[n]
  PROVE  Mem' = [Mem EXCEPT ![o] = c]
<1>1. View(o)' = c
  BY ViewAfter
<1>2. ASSUME NEW q \in Offsets, q # o PROVE View(q)' = View(q)
  <2>1. CASE Miss(q)
    BY <2>1, <1>2, ViewAfter, ViewOfUncached DEF Miss, Holds
  <2>2. CASE ~Miss(q)
    <3>1. PICK j \in Slots : Holds(j, q)
      BY <2>2 DEF Miss
    <3>2. slot'[j] = slot[j]
      BY <3>1, <1>2 DEF Holds
    <3> QED
      BY <3>1, <3>2, ViewAfter, ViewOfCached DEF Holds
  <2> QED
    BY <2>1, <2>2
<1> QED
  BY <1>1, <1>2 DEF Mem

(* A sync that handled the slots below m and wrote those below n: a page that  *)
(* was in neither or in both of these is seen as before.                      *)
LEMMA ViewAfterFlush ==
  ASSUME TypeOK, UniqueOffsets, UniqueOffsets', NEW m \in Int, NEW n \in Int,
         slot' = SlotsAfterFlush(m), disk' = DiskAfterFlush(n), NEW o \in Offsets,
         \A i \in Slots : slot[i].alive /\ slot[i].offset = o => (i < m) = (i < n)
  PROVE  View(o)' = View(o)
<1>1. ASSUME NEW i \in Slots
      PROVE  /\ i < m /\ Flushed(i) => ~slot'[i].alive
             /\ ~(i < m /\ Flushed(i)) => slot'[i] = slot[i]
  BY DEF SlotsAfterFlush, TypeOK, Slot
<1>2. CASE \E i \in Slots : i < n /\ Flushed(i) /\ slot[i].offset = o
  <2> DEFINE w == CHOOSE i \in Slots : i < n /\ Flushed(i) /\ slot[i].offset = o
  <2>1. w \in Slots /\ w < n /\ Flushed(w) /\ slot[w].offset = o
    BY <1>2
  <2>2. disk'[o] = slot[w].data
    BY <1>2 DEF DiskAfterFlush
  <2> HIDE DEF w
  <2>3. View(o) = slot[w].data
    BY <2>1, ViewOfCached DEF Flushed, Holds
  <2>4. w < m
    BY <2>1 DEF Flushed
  <2>5. \A j \in Slots : ~(slot'[j].alive /\ slot'[j].offset = o)
    BY <1>1, <2>1, <2>4 DEF Flushed, UniqueOffsets
  <2> QED
    BY <2>2, <2>3, <2>5, ViewAfter
<1>3. CASE ~ \E i \in Slots : i < n /\ Flushed(i) /\ slot[i].offset = o
  <2>1. disk'[o] = disk[o]
    BY <1>3 DEF DiskAfterFlush
  <2>2. CASE Miss(o)
    <3>1. \A j \in Slots : ~(slot'[j].alive /\ slot'[j].offset = o)
      BY <2>2, <1>1 DEF Miss, Holds
    <3> QED
      BY <2>1, <2>2, <3>1, ViewAfter, ViewOfUncached
  <2>3. CASE ~Miss(o)
    <3>1. PICK j \in Slots : Holds(j, o)
      BY <2>3 DEF Miss
    <3>2. slot'[j] = slot[j]
      BY <3>1, <1>1, <1>3 DEF Holds, Flushed
    <3> QED
      BY <3>1, <3>2, ViewAfter, ViewOfCached DEF Holds
  <2> QED
    BY <2>2, <2>3
<1> QED
  BY <1>2, <1>3

(* A load delivers what readers saw of the page, unless nobody ever wrote it. *)
LEMMA LoadedIsView ==
  ASSUME NEW d, NEW o \in Offsets, NEW old, d[o] = disk[o], Miss(o)
  PROVE  View(o) \in {Loaded(d, o, old), Hole}
  BY ViewOfUncached DEF Loaded

(* Slots are only ever used for pages that callers ask for.                   *)
AskedFor == \A i \in Slots : slot[i].alive => slot[i].offset \in Offsets

(* Every page in a slot is one that a caller asked for. *)
LEMMA CachedAskedFor == Spec => []AskedFor
<1>1. Init => AskedFor
  BY DEF Init, AskedFor
<1>2. TypeOK /\ AskedFor /\ [Next]_vars => AskedFor'
  <2> SUFFICES ASSUME TypeOK, AskedFor, [Next]_vars PROVE AskedFor'
    OBVIOUS
  <2> USE DEF AskedFor, TypeOK, Slot
  <2>1. ASSUME NEW i \in Slots, NEW o \in Offsets, NEW d, NEW c,
               slot' = [slot EXCEPT ![i] = Claimed(i, o, d, c)]
        PROVE  AskedFor'
    BY <2>1 DEF Claimed
  <2>2. ASSUME NEW o \in Offsets, ReadCache(o) \/ FillFails(o) PROVE AskedFor'
    BY ZenonT(60), <2>2, <2>1
    DEF ReadCache, ReadHit, ReadIntoFree, ReadByEviction, FillFails
  <2>3. ASSUME NEW o \in Offsets, NEW c \in Contents, WriteCache(o, c)
        PROVE  AskedFor'
    <3>1. CASE WriteHit(o, c)
      BY <3>1 DEF WriteHit
    <3>2. CASE WriteIntoFree(o, c)
      BY <3>2, <2>1 DEF WriteIntoFree
    <3>3. CASE WriteByEviction(o, c)
      BY <3>3, <2>1 DEF WriteByEviction
    <3> QED
      BY <2>3, <3>1, <3>2, <3>3 DEF WriteCache
  <2>4. ASSUME NEW n, slot' = SlotsAfterFlush(n) PROVE AskedFor'
    <3> SUFFICES ASSUME NEW i \in Slots, slot'[i].alive
                 PROVE  slot'[i].offset \in Offsets
      OBVIOUS
    <3>1. slot'[i] = slot[i]
      BY <2>4 DEF SlotsAfterFlush
    <3> QED
      BY <3>1
  <2>5. CASE UNCHANGED slot
    BY <2>5
  <2> QED
    BY <2>2, <2>3, <2>4, <2>5 DEF Next, EvictFails, Flush, FlushFails, vars
<1> QED
  BY <1>1, <1>2, TypeCorrect, PTL DEF Spec

(* read_cache, write_cache and flush_cache implement a memory of pages that a *)
(* sync does not change; calls that fail half-way spoil one page at most, the *)
(* one that their answer names.                                               *)
THEOREM CacheIsMemory == Spec => RefinesStore
<1>1. Init => Store!StoreInit
  <2> SUFFICES ASSUME Init PROVE Store!StoreInit
    OBVIOUS
  <2>0. \A i \in Slots : ~slot[i].alive
    BY DEF Init
  <2>1. \A o \in Offsets : View(o) = disk[o]
    BY <2>0, ViewOfUncached DEF Miss, Holds
  <2>2. [o \in Offsets |-> View(o)] \in [Offsets -> Contents \union {Hole}]
    BY <2>1 DEF Init
  <2> QED
    BY <2>2 DEF Init, Store!StoreInit, Answer, Store!Answer
<1>2. TypeOK /\ UniqueOffsets /\ UniqueOffsets' /\ AskedFor /\ [Next]_vars
        => [Store!StoreNext]_(Store!storeVars)
  <2> SUFFICES ASSUME TypeOK, UniqueOffsets, UniqueOffsets', AskedFor, [Next]_vars
               PROVE  \/ Store!StoreNext
                      \/ Mem' = Mem /\ out' = out
    BY DEF Store!storeVars, Mem
  <2>a. ASSUME NEW o \in Offsets, NEW c \in Contents, View(o) \in {c, Hole},
               Mem' = [Mem EXCEPT ![o] = c], out' = Answer("read", o, 0, c)
        PROVE  Store!StoreNext
    <3>1. Store!StoreRead(o)
      BY <2>a DEF Store!StoreRead, Mem, Answer, Store!Answer
    <3> QED
      BY <3>1 DEF Store!StoreNext
  <2>b. ASSUME NEW o \in Offsets, NEW c \in Contents,
               Mem' = [Mem EXCEPT ![o] = c], out' = Answer("write", o, 0, Hole)
        PROVE  Store!StoreNext
    <3>1. Store!StoreWrite(o, c)
      BY <2>b DEF Store!StoreWrite, Mem, Answer, Store!Answer
    <3> QED
      BY <3>1 DEF Store!StoreNext
  <2>1. ASSUME NEW o \in Offsets, ReadHit(o) PROVE Store!StoreNext
    <3>1. PICK i \in Slots : /\ FirstHit(i, o)
                             /\ slot' = [slot EXCEPT ![i].power = @ + 1]
                             /\ out' = Answer("read", o, 0, slot[i].data)
                             /\ UNCHANGED disk
      BY <2>1 DEF ReadHit
    <3>2. /\ Holds(i, o) /\ slot[i] \in Slot
          /\ slot[i].data \in Contents
      BY <3>1 DEF FirstHit, TypeOK, Slot
    <3>3. /\ slot'[i].alive /\ slot'[i].offset = o
          /\ slot'[i].data = slot[i].data
          /\ \A n \in Slots : n # i => slot'[n] = slot[n]
      BY <3>1, <3>2 DEF TypeOK, Slot, Holds
    <3>4. View(o) = slot[i].data
      BY <3>2, ViewOfCached
    <3>5. Mem' = [Mem EXCEPT ![o] = slot[i].data]
      BY <3>1, <3>2, <3>3, ViewAfterHit
    <3> QED
      BY <3>1, <3>2, <3>4, <3>5, <2>a
  <2>2. ASSUME NEW o \in Offsets, ReadIntoFree(o) PROVE Store!StoreNext
    <3>1. PICK i \in Slots :
            /\ Miss(o) /\ FirstFree(i)
            /\ slot' = [slot EXCEPT ![i] = Claimed(i, o, FALSE,
                                              Loaded(disk, o, slot[i].data))]
            /\ out' = Answer("read", o, 0, slot'[i].data)
            /\ UNCHANGED disk
      BY <2>2 DEF ReadIntoFree
    <3> DEFINE c == Loaded(disk, o, slot[i].data)
    <3>2. c \in Contents
      BY LoadedType DEF TypeOK, Slot
    <3>3. View(o) \in {c, Hole}
      BY <3>1, LoadedIsView
    <3>4. slot'[i].data = c
      BY <3>1 DEF TypeOK, Slot, Claimed
    <3> HIDE DEF c
    <3>5. Mem' = [Mem EXCEPT ![o] = c]
      BY ZenonT(60), <3>1, ViewAfterClaim DEF FirstFree, c
    <3> QED
      BY <3>1, <3>2, <3>3, <3>4, <3>5, <2>a
  <2>3. ASSUME NEW o \in Offsets, ReadByEviction(o) PROVE Store!StoreNext
    <3>1. PICK i \in Slots :
            /\ Miss(o) /\ Victim(i)
            /\ disk' = WrittenBack(i)
            /\ slot' = [slot EXCEPT
                          ![i] = Claimed(i, o, FlagOfReused(i),
                                   Loaded(WrittenBack(i), o, slot[i].data))]
            /\ out' = Answer("read", o, 0, slot'[i].data)
      BY <2>3 DEF ReadByEviction
    <3> DEFINE c == Loaded(WrittenBack(i), o, slot[i].data)
    <3>2. c \in Contents
      BY LoadedType, WrittenBackType DEF TypeOK, Slot
    <3>3. slot[i].alive /\ WrittenBack(i)[o] = disk[o]
      BY <3>1 DEF Victim, Miss, Holds, WrittenBack, TypeOK
    <3>4. View(o) \in {c, Hole}
      BY <3>1, <3>3, LoadedIsView
    <3>5. slot'[i].data = c
      BY <3>1 DEF TypeOK, Slot, Claimed
    <3> HIDE DEF c
    <3>6. Mem' = [Mem EXCEPT ![o] = c]
      BY <3>1, <3>3, ViewAfterClaim DEF c
    <3> QED
      BY <3>1, <3>2, <3>4, <3>5, <3>6, <2>a
  <2>4. ASSUME NEW o \in Offsets, NEW c \in Contents, WriteHit(o, c)
        PROVE  Store!StoreNext
    <3>1. PICK i \in Slots :
            /\ FirstHit(i, o)
            /\ slot' = [slot EXCEPT ![i].power = @ + 1, ![i].data = c]
            /\ out' = Answer("write", o, 0, Hole)
            /\ UNCHANGED disk
      BY <2>4 DEF WriteHit
    <3>2. Holds(i, o) /\ slot[i] \in Slot
      BY <3>1 DEF FirstHit, TypeOK
    <3>3. /\ slot'[i].alive /\ slot'[i].offset = o /\ slot'[i].data = c
          /\ \A n \in Slots : n # i => slot'[n] = slot[n]
      BY <3>1, <3>2 DEF TypeOK, Slot, Holds
    <3>4. disk' = disk /\ out' = Answer("write", o, 0, Hole)
      BY <3>1
    <3>5. Mem' = [Mem EXCEPT ![o] = c]
      BY <3>2, <3>3, <3>4, ViewAfterHit
    <3> QED
      BY <3>4, <3>5, <2>b
  <2>5. ASSUME NEW o \in Offsets, NEW c \in Contents, WriteIntoFree(o, c)
        PROVE  Store!StoreNext
    <3>1. PICK i \in Slots :
            /\ Miss(o) /\ FirstFree(i)
            /\ slot' = [slot EXCEPT ![i] = Claimed(i, o, TRUE, c)]
            /\ out' = Answer("write", o, 0, Hole)
            /\ UNCHANGED disk
      BY <2>5 DEF WriteIntoFree
    <3>2. Mem' = [Mem EXCEPT ![o] = c]
      BY ZenonT(60), <3>1, ViewAfterClaim DEF FirstFree
    <3> QED
      BY <3>1, <3>2, <2>b
  <2>6. ASSUME NEW o \in Offsets, NEW c \in Contents, WriteByEviction(o, c)
        PROVE  Store!StoreNext
    <3>1. PICK i \in Slots :
            /\ Miss(o) /\ Victim(i)
            /\ disk' = WrittenBack(i)
            /\ slot' = [slot EXCEPT ![i] = Claimed(i, o, FlagOfReused(i), c)]
            /\ out' = Answer("write", o, 0, Hole)
      BY <2>6 DEF WriteByEviction
    <3>2. Mem' = [Mem EXCEPT ![o] = c]
      BY ZenonT(60), <3>1, ViewAfterClaim DEF Victim
    <3> QED
      BY <3>1, <3>2, <2>b
  <2>7. ASSUME NEW o \in Offsets, NEW op \in {"read", "write"}, EvictFails(o, op)
        PROVE  Store!StoreNext
    <3>1. Mem' = Mem
      BY <2>7 DEF EvictFails, Mem, View, Holds
    <3>2. Store!StoreError(op, o)
      BY <2>7, <3>1 DEF EvictFails, Store!StoreError, Mem, Answer, Store!Answer
    <3> QED
      BY <3>2 DEF Store!StoreNext
  <2>8. CASE Flush
    <3>1. ASSUME NEW o \in Offsets PROVE View(o)' = View(o)
      BY <2>8, ViewAfterFlush, CacheSizeAssumption DEF Flush
    <3>2. Mem' = Mem
      BY <3>1 DEF Mem
    <3>3. Store!StoreSync
      BY <2>8, <3>2 DEF Flush, Store!StoreSync, Mem, Answer, Store!Answer
    <3> QED
      BY <3>3 DEF Store!StoreNext
  <2>9. ASSUME NEW op \in HalfWay, NEW o \in Offsets, NEW rc \in {-1, 1},
               NEW c \in Contents \union {Hole},
               Mem' = [Mem EXCEPT ![o] = c], out' = Answer(op, o, rc, Hole)
        PROVE  Store!StoreNext
    <3>1. Store!StoreSpoils(op, o)
      BY <2>9 DEF Store!StoreSpoils, Mem, Answer, Store!Answer
    <3> QED
      BY <3>1 DEF Store!StoreNext
  <2>10. ASSUME NEW o \in Offsets, FillFails(o) PROVE Store!StoreNext
    <3>1. PICK i \in Slots :
            \/ /\ FirstFree(i)
               /\ slot' = [slot EXCEPT ![i] = Claimed(i, o, FALSE, slot[i].data)]
               /\ UNCHANGED disk
            \/ /\ Victim(i)
               /\ slot' = [slot EXCEPT
                             ![i] = Claimed(i, o, FlagOfReused(i), slot[i].data)]
               /\ disk' = WrittenBack(i)
      BY <2>10 DEF FillFails
    <3>2. Miss(o) /\ "read" \in HalfWay /\ out' = Answer("read", o, -1, Hole)
      BY <2>10 DEF FillFails, HalfWay
    <3> DEFINE c == slot[i].data
    <3>3. PICK d : /\ slot' = [slot EXCEPT ![i] = Claimed(i, o, d, c)]
                   /\ \/ ~slot[i].alive /\ disk' = disk
                      \/ slot[i].alive /\ disk' = WrittenBack(i)
      BY <3>1 DEF FirstFree, Victim
    <3>4. c \in Contents
      BY DEF TypeOK, Slot
    <3> HIDE DEF c
    <3>5. Mem' = [Mem EXCEPT ![o] = c]
      BY ZenonT(60), <3>2, <3>3, ViewAfterClaim
    <3> QED
      BY <3>2, <3>4, <3>5, <2>9
  <2>11. CASE FlushFails
    <3>1. PICK n \in Slots, rc \in {-1, 1} :
            /\ Flushed(n)
            /\ slot' = SlotsAfterFlush(n + 1)
            /\ disk' = DiskAfterFlush(n)
            /\ out' = Answer("sync", slot[n].offset, rc, Hole)
      BY <2>11 DEF FlushFails
    <3>2. PICK o \in Offsets : o = slot[n].offset
      BY <3>1 DEF AskedFor, Flushed
    <3>3. ASSUME NEW q \in Offsets, q # o PROVE View(q)' = View(q)
      <4>1. \A i \in Slots : slot[i].offset = q => (i < n + 1) = (i < n)
        BY <3>2, <3>3, CacheSizeAssumption DEF Slots
      <4>2. n \in Int /\ n + 1 \in Int
        BY CacheSizeAssumption DEF Slots
      <4> QED
        BY <3>1, <4>1, <4>2, ViewAfterFlush
    <3>4. View(o)' \in Contents \union {Hole}
      <4>1. \A j \in Slots : ~(slot'[j].alive /\ slot'[j].offset = o)
        <5>1. ASSUME NEW j \in Slots, slot'[j].alive
              PROVE  slot'[j] = slot[j] /\ slot[j].alive
          BY <3>1, <5>1 DEF SlotsAfterFlush, TypeOK, Slot
        <5>2. ~slot'[n].alive
          BY <3>1, CacheSizeAssumption DEF SlotsAfterFlush, TypeOK, Slot, Slots
        <5> QED
          BY <3>1, <3>2, <5>1, <5>2 DEF UniqueOffsets, Flushed
      <4>2. View(o)' = disk'[o]
        BY <3>2, <4>1, ViewAfter
      <4>3. disk' \in [Offsets -> Contents \union {Hole}]
        BY <3>1, FlushTypes
      <4> QED
        BY <3>2, <4>2, <4>3
    <3>5. Mem' = [Mem EXCEPT ![o] = View(o)']
      BY <3>2, <3>3 DEF Mem
    <3>6. out' = Answer("sync", o, rc, Hole) /\ "sync" \in HalfWay
      BY <2>11, <3>1, <3>2 DEF FlushFails, HalfWay
    <3> QED
      BY <3>4, <3>5, <3>6, <2>9
  <2>12. CASE UNCHANGED vars
    BY <2>12 DEF vars, Mem, View, Holds
  <2> QED
    BY <2>1, <2>2, <2>3, <2>4, <2>5, <2>6, <2>7, <2>8, <2>10, <2>11, <2>12
    DEF Next, ReadCache, WriteCache
<1> QED
  BY <1>1, <1>2, TypeCorrect, SlotsUnique, CachedAskedFor, PTL
  DEF Spec, RefinesStore, Store!StoreSpec

-------------------------------------------------------------------------------
(* Dirty marks *)

(* A sync that comes past a dirty slot writes its bytes and no others.        *)
LEMMA FlushWrites ==
  ASSUME UniqueOffsets, NEW o \in Offsets, NEW i \in Slots, Flushed(i),
         slot[i].offset = o, NEW n, i < n
  PROVE  DiskAfterFlush(n)[o] = slot[i].data
<1> DEFINE P(j) == j < n /\ Flushed(j) /\ slot[j].offset = o
<1> DEFINE w == CHOOSE j \in Slots : P(j)
<1>1. w \in Slots /\ P(w)
  OBVIOUS
<1>2. w = i
  BY <1>1 DEF UniqueOffsets, Flushed
<1> QED
  BY <1>1, <1>2 DEF DiskAfterFlush

(* A dirty mark goes only when the bytes are in the file, or in a sync that   *)
(* could not write this page and does not return 0.                           *)
THEOREM DirtyMarksKept == Spec => DirtyUntilWritten
<1>1. TypeOK /\ UniqueOffsets /\ [Next]_vars
        => [\A o \in Offsets :
              (\E i \in Slots : Holds(i, o) /\ slot[i].dirty)
                => \/ \E i \in Slots : (Holds(i, o) /\ slot[i].dirty)'
                   \/ disk'[o] = View(o)
                   \/ out'.op = "sync" /\ out'.rc # 0 /\ out'.offset = o]_vars
  <2> DEFINE Kept(o) == \/ \E i \in Slots : (Holds(i, o) /\ slot[i].dirty)'
                        \/ disk'[o] = View(o)
                        \/ out'.op = "sync" /\ out'.rc # 0 /\ out'.offset = o
  <2> SUFFICES ASSUME TypeOK, UniqueOffsets, Next, NEW o \in Offsets,
                      NEW i \in Slots, Holds(i, o), slot[i].dirty
               PROVE  Kept(o)
    OBVIOUS
  <2>1. /\ slot[i] \in Slot /\ slot[i].alive /\ slot[i].offset = o
        /\ View(o) = slot[i].data
    BY ViewOfCached DEF TypeOK, Holds
  <2>2. ASSUME slot'[i].alive, slot'[i].offset = o, slot'[i].dirty PROVE Kept(o)
    BY <2>2 DEF Holds
  <2>3. ASSUME disk'[o] = slot[i].data PROVE Kept(o)
    BY <2>1, <2>3
  <2> HIDE DEF Kept
  <2>4. ASSUME NEW j \in Slots, slot[j].alive, disk' = WrittenBack(j),
               NEW x, slot' = [slot EXCEPT ![j] = x]
        PROVE  Kept(o)
    <3>1. CASE j = i
      BY <3>1, <2>1, <2>3, <2>4 DEF WrittenBack, TypeOK
    <3>2. CASE j # i
      BY <3>2, <2>1, <2>2, <2>4 DEF TypeOK
    <3> QED
      BY <3>1, <3>2
  <2>5. ASSUME NEW j \in Slots, ~slot[j].alive, NEW x,
               slot' = [slot EXCEPT ![j] = x]
        PROVE  Kept(o)
    BY <2>1, <2>2, <2>5 DEF TypeOK
  <2>6. ASSUME NEW q \in Offsets, ReadHit(q) PROVE Kept(o)
    BY <2>1, <2>2, <2>6 DEF ReadHit, TypeOK, Slot
  <2>7. ASSUME NEW q \in Offsets, NEW c \in Contents, WriteHit(q, c) PROVE Kept(o)
    BY <2>1, <2>2, <2>7 DEF WriteHit, TypeOK, Slot
  <2>8. ASSUME NEW q \in Offsets, ReadIntoFree(q) \/ ReadByEviction(q) PROVE Kept(o)
    BY <2>4, <2>5, <2>8 DEF ReadIntoFree, ReadByEviction, FirstFree, Victim
  <2>9. ASSUME NEW q \in Offsets, FillFails(q) PROVE Kept(o)
    BY <2>4, <2>5, <2>9 DEF FillFails, FirstFree, Victim
  <2>10. ASSUME NEW q \in Offsets, NEW c \in Contents,
                WriteIntoFree(q, c) \/ WriteByEviction(q, c)
         PROVE  Kept(o)
    BY <2>4, <2>5, <2>10 DEF WriteIntoFree, WriteByEviction, FirstFree, Victim
  <2>11. ASSUME UNCHANGED slot PROVE Kept(o)
    BY <2>1, <2>2, <2>11
  <2>12. CASE Flush
    <3>1. i < CacheSize
      BY CacheSizeAssumption DEF Slots
    <3>2. DiskAfterFlush(CacheSize)[o] = slot[i].data
      BY <2>1, <3>1, FlushWrites DEF Flushed
    <3> QED
      BY <2>3, <2>12, <3>2 DEF Flush
  <2>13. CASE FlushFails
    <3>1. PICK n \in Slots, rc \in {-1, 1} :
            /\ slot' = SlotsAfterFlush(n + 1)
            /\ disk' = DiskAfterFlush(n)
            /\ out' = Answer("sync", slot[n].offset, rc, Hole)
      BY <2>13 DEF FlushFails
    <3>2. CASE i < n
      BY <2>1, <2>3, <3>1, <3>2, FlushWrites DEF Flushed
    <3>3. CASE i = n
      BY <2>1, <3>1, <3>3 DEF Kept, Answer
    <3>4. CASE n < i
      <4>1. ~(i < n + 1)
        BY <3>4, CacheSizeAssumption DEF Slots
      <4>2. slot'[i] = slot[i]
        BY <3>1, <4>1 DEF SlotsAfterFlush
      <4> QED
        BY <2>1, <2>2, <4>2
    <3> QED
      BY <3>2, <3>3, <3>4, CacheSizeAssumption DEF Slots
  <2> QED
    BY <2>6, <2>7, <2>8, <2>9, <2>10, <2>11, <2>12, <2>13
    DEF Next, ReadCache, WriteCache, EvictFails
<1> QED
  BY <1>1, TypeCorrect, SlotsUnique, PTL DEF Spec, DirtyUntilWritten
==============================================================================
