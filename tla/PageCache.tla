------------------------------ MODULE PageCache ------------------------------
(***************************************************************************)
(* The page cache of cache.c, reached through read_page / write_page of    *)
(* storage.c and sync'ed by flush_cache: an array of slots in front of the *)
(* database file.  get_page looks for the page, else takes the first free  *)
(* slot, else writes back and reuses the least used slot.                  *)
(*                                                                         *)
(* One action is one complete call of read_cache, write_cache or           *)
(* flush_cache, one action per way through the call.  A failed lseek and a *)
(* failed read or write return to the caller from the same point, so they  *)
(* are one fault.  A page's bytes are one value; Hole is a page of the     *)
(* file that was never written.                                            *)
(***************************************************************************)
EXTENDS Integers

CONSTANTS
  Offsets,     \* page numbers the callers use
  Contents,    \* page images
  Zeroes,      \* the all-zero image, read from a hole inside the file
  Hole,        \* disk: nothing was ever written at this page
  CacheSize,   \* db->cache_size, in slots
  Faults       \* which system calls may fail: "evict", "fill", "flush"

ASSUME OffsetsAssumption   == Offsets \subseteq Nat
ASSUME ContentsAssumption  == Zeroes \in Contents /\ Hole \notin Contents
ASSUME CacheSizeAssumption == CacheSize \in Nat \ {0}
ASSUME FaultsAssumption    == Faults \subseteq {"evict", "fill", "flush"}

VARIABLES
  slot,   \* slot[i]: cache_id[i] together with the bytes of cache slot i
  disk,   \* the file, by page number
  out     \* the answer of the latest call: operation, page, return code, bytes

vars == <<slot, disk, out>>

Slots == 0 .. CacheSize - 1

Slot == [alive : BOOLEAN, dirty : BOOLEAN, offset : Nat, power : Nat,
         data : Contents]

Outcome == [op : {"none", "read", "write", "sync"}, offset : Nat,
            rc : {-1, 0, 1}, data : Contents \union {Hole}]

TypeOK ==
  /\ slot \in [Slots -> Slot]
  /\ disk \in [Offsets -> Contents \union {Hole}]
  /\ out \in Outcome

Answer(op, o, rc, data) == [op |-> op, offset |-> o, rc |-> rc, data |-> data]

(***************************************************************************)
(* dbopen marks every slot dead; the rest of cache_id and the cache itself *)
(* are fresh from malloc.  Of those only the bytes can ever be observed.   *)
(***************************************************************************)
Init ==
  /\ \E junk \in Contents :
       slot = [i \in Slots |-> [alive |-> FALSE, dirty |-> FALSE, offset |-> 0,
                                power |-> 0, data |-> junk]]
  /\ disk \in [Offsets -> Contents \union {Hole}]
  /\ out = Answer("none", 0, 0, Hole)

-------------------------------------------------------------------------------
(* get_page's scan: the three places it can stop at.                          *)

Holds(i, o) == slot[i].alive /\ slot[i].offset = o

(* Mutant of Miss: the scan stops at the first free slot.                     *)
MissUpToFree(o) ==
  \A i \in Slots : (\A j \in Slots : j < i => slot[j].alive) => ~Holds(i, o)

Miss(o) == \A i \in Slots : ~Holds(i, o)

FirstHit(i, o) == Holds(i, o) /\ \A j \in Slots : j < i => ~Holds(j, o)

FirstFree(i) == ~slot[i].alive /\ \A j \in Slots : j < i => slot[j].alive

Victim(i) ==
  /\ \A j \in Slots : slot[j].alive
  /\ \A j \in Slots : \/ slot[i].power < slot[j].power
                      \/ slot[i].power = slot[j].power /\ i <= j

(* What the bytes of a slot become when page o of file d is read into it:      *)
(* read() past the end of the file returns 0, which is not -1, and leaves them.*)
PastEnd(d, o) == \A q \in Offsets : q >= o => d[q] = Hole

(* Mutant of Loaded: the bytes that a short read leaves alone are not counted. *)
LoadedAsIs(d, o, old) == d[o]

Loaded(d, o, old) ==
  IF d[o] # Hole THEN d[o] ELSE IF PastEnd(d, o) THEN old ELSE Zeroes

(* Mutant of Claimed: pages that are read count as dirty, written ones do not. *)
ClaimedSwapped(i, o, isDirty, bytes) ==
  [slot[i] EXCEPT !.alive = TRUE, !.dirty = ~isDirty, !.offset = o, !.power = 1,
                  !.data = bytes]

(* A slot taken for page o.  When a victim is reused, get_page stores is_dirty *)
(* through the index of the free slot it did not find: the victim keeps its    *)
(* own flag.  (The stray store hits cache_id[-1], the allocator's header of    *)
(* the array, in bytes that no state of this module depends on.)               *)
Claimed(i, o, isDirty, bytes) ==
  [slot[i] EXCEPT !.alive = TRUE, !.dirty = isDirty, !.offset = o, !.power = 1,
                  !.data = bytes]

FlagOfReused(i) == slot[i].dirty

(* Mutant of WrittenBack: only pages that are marked dirty are written.        *)
WrittenIfDirty(i) ==
  IF slot[i].dirty THEN [disk EXCEPT ![slot[i].offset] = slot[i].data] ELSE disk

WrittenBack(i) == [disk EXCEPT ![slot[i].offset] = slot[i].data]

-------------------------------------------------------------------------------
(* read_cache *)

ReadHit(o) ==
  \E i \in Slots :
    /\ FirstHit(i, o)
    /\ slot' = [slot EXCEPT ![i].power = @ + 1]
    /\ out' = Answer("read", o, 0, slot[i].data)
    /\ UNCHANGED disk

ReadIntoFree(o) ==
  \E i \in Slots :
    /\ Miss(o) /\ FirstFree(i)
    /\ slot' = [slot EXCEPT ![i] = Claimed(i, o, FALSE,
                                            Loaded(disk, o, slot[i].data))]
    /\ out' = Answer("read", o, 0, slot'[i].data)
    /\ UNCHANGED disk

(* The file is extended by the write-back before page o is read from it.       *)
ReadByEviction(o) ==
  \E i \in Slots :
    /\ Miss(o) /\ Victim(i)
    /\ disk' = WrittenBack(i)
    /\ slot' = [slot EXCEPT
                  ![i] = Claimed(i, o, FlagOfReused(i),
                                 Loaded(WrittenBack(i), o, slot[i].data))]
    /\ out' = Answer("read", o, 0, slot'[i].data)

-------------------------------------------------------------------------------
(* write_cache *)

(* A hit leaves is_dirty as it was.                                            *)
WriteHit(o, c) ==
  \E i \in Slots :
    /\ FirstHit(i, o)
    /\ slot' = [slot EXCEPT ![i].power = @ + 1, ![i].data = c]
    /\ out' = Answer("write", o, 0, Hole)
    /\ UNCHANGED disk

WriteIntoFree(o, c) ==
  \E i \in Slots :
    /\ Miss(o) /\ FirstFree(i)
    /\ slot' = [slot EXCEPT ![i] = Claimed(i, o, TRUE, c)]
    /\ out' = Answer("write", o, 0, Hole)
    /\ UNCHANGED disk

WriteByEviction(o, c) ==
  \E i \in Slots :
    /\ Miss(o) /\ Victim(i)
    /\ disk' = WrittenBack(i)
    /\ slot' = [slot EXCEPT ![i] = Claimed(i, o, FlagOfReused(i), c)]
    /\ out' = Answer("write", o, 0, Hole)

-------------------------------------------------------------------------------
(* Failing system calls under read_cache and write_cache *)

(* The victim cannot be written back: get_page returns before it changes a     *)
(* slot.                                                                       *)
EvictFails(o, op) ==
  /\ "evict" \in Faults
  /\ Miss(o) /\ \A i \in Slots : slot[i].alive
  /\ out' = Answer(op, o, -1, Hole)
  /\ UNCHANGED <<slot, disk>>

(* The page cannot be read, but the slot was already claimed for it: the next  *)
(* read of it is a hit on whatever bytes the slot had.                         *)
FillFails(o) ==
  /\ "fill" \in Faults
  /\ Miss(o)
  /\ \E i \in Slots :
       \/ /\ FirstFree(i)
          /\ slot' = [slot EXCEPT ![i] = Claimed(i, o, FALSE, slot[i].data)]
          /\ UNCHANGED disk
       \/ /\ Victim(i)
          /\ slot' = [slot EXCEPT
                        ![i] = Claimed(i, o, FlagOfReused(i), slot[i].data)]
          /\ disk' = WrittenBack(i)
  /\ out' = Answer("read", o, -1, Hole)

-------------------------------------------------------------------------------
(* flush_cache *)

Flushed(i) == slot[i].alive /\ slot[i].dirty

(* The file and the slots once flush_cache has handled every slot below n.     *)
(* Mutant of DiskAfterFlush: the last slot is not written.                     *)
DiskButLast(n) ==
  [o \in Offsets |->
     IF \E i \in Slots : i < n - 1 /\ Flushed(i) /\ slot[i].offset = o
     THEN slot[CHOOSE i \in Slots : i < n - 1 /\ Flushed(i) /\ slot[i].offset = o].data
     ELSE disk[o]]

DiskAfterFlush(n) ==
  [o \in Offsets |->
     IF \E i \in Slots : i < n /\ Flushed(i) /\ slot[i].offset = o
     THEN slot[CHOOSE i \in Slots : i < n /\ Flushed(i) /\ slot[i].offset = o].data
     ELSE disk[o]]

(* Mutant of SlotsAfterFlush: clean slots are dropped, too.                    *)
SlotsAllDropped(n) ==
  [i \in Slots |-> IF i < n THEN [slot[i] EXCEPT !.alive = FALSE] ELSE slot[i]]

SlotsAfterFlush(n) ==
  [i \in Slots |-> IF i < n /\ Flushed(i) THEN [slot[i] EXCEPT !.alive = FALSE]
                   ELSE slot[i]]

Flush ==
  /\ slot' = SlotsAfterFlush(CacheSize)
  /\ disk' = DiskAfterFlush(CacheSize)
  /\ out' = Answer("sync", 0, 0, Hole)

(* The write of slot n fails, or the lseek before it: the slot was dropped     *)
(* first, the slots behind it are not visited.  A failed write returns 1, a    *)
(* failed lseek -1; db_flush and db_close drop both.  Which page it was is     *)
(* recorded in out for the properties: the code tells nobody.                  *)
FlushFails ==
  /\ "flush" \in Faults
  /\ \E n \in Slots, rc \in {-1, 1} :
       /\ Flushed(n)
       /\ slot' = SlotsAfterFlush(n + 1)
       /\ disk' = DiskAfterFlush(n)
       /\ out' = Answer("sync", slot[n].offset, rc, Hole)

-------------------------------------------------------------------------------

ReadCache(o) == ReadHit(o) \/ ReadIntoFree(o) \/ ReadByEviction(o)

WriteCache(o, c) == WriteHit(o, c) \/ WriteIntoFree(o, c) \/ WriteByEviction(o, c)

Next ==
  \/ \E o \in Offsets : ReadCache(o) \/ FillFails(o)
  \/ \E o \in Offsets, c \in Contents : WriteCache(o, c)
  \/ \E o \in Offsets, op \in {"read", "write"} : EvictFails(o, op)
  \/ Flush
  \/ FlushFails

Spec == Init /\ [][Next]_vars

-------------------------------------------------------------------------------
(* Properties *)

(* No page ever sits in two slots: otherwise a write would update one copy and *)
(* a later read, or a flush, might use the other.                              *)
UniqueOffsets ==
  \A i, j \in Slots :
    slot[i].alive /\ slot[j].alive /\ slot[i].offset = slot[j].offset => i = j

(* What a read of page o would return: the cached bytes, else those on disk.   *)
View(o) ==
  IF \E i \in Slots : Holds(i, o) THEN slot[CHOOSE i \in Slots : Holds(i, o)].data
  ELSE disk[o]

(* The calls that can fail with a page half in or half out of the cache.       *)
HalfWay == {op \in {"read", "sync"} :
              IF op = "read" THEN "fill" \in Faults ELSE "flush" \in Faults}

Store == INSTANCE PageStore
           WITH mem <- [o \in Offsets |-> View(o)], Unwritten <- Hole,
                Spoils <- HalfWay

(* The B-tree sees a plain memory of pages: hits, fills, evictions and syncs   *)
(* never change what read_page returns, write_page changes one page only, and  *)
(* a failing call spoils at most the page it was asked for or failed to write. *)
RefinesStore == Store!StoreSpec

(* A page that is marked dirty stays so until its bytes are in the file: no    *)
(* eviction, hit or sync drops the mark without writing, unless it is a sync   *)
(* that could not write that very page and does not return 0.                  *)
DirtyUntilWritten ==
  [][\A o \in Offsets :
       (\E i \in Slots : Holds(i, o) /\ slot[i].dirty)
         => \/ \E i \in Slots : (Holds(i, o) /\ slot[i].dirty)'
            \/ disk'[o] = View(o)
            \/ out'.op = "sync" /\ out'.rc # 0 /\ out'.offset = o]_vars
==============================================================================
