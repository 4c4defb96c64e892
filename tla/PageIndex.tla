------------------------------ MODULE PageIndex ------------------------------
(***************************************************************************)
(* The page index of storage.c: behind the meta page (page 0) the file has *)
(* IndexCount index pages, each a bitmap with one bit per page of the rest *)
(* of the file.  find_free_index hands out the page of the first clear     *)
(* bit, free_index clears the bit of a page again.                         *)
(*                                                                         *)
(* A set bit is the triple <<index page, byte, bit>>; bitmap is the set of *)
(* the set bits.  The index pages are reached through the page cache, which*)
(* shows the latest write (PageCache!RefinesStore).                        *)
(***************************************************************************)
EXTENDS Integers

CONSTANTS
  DbSize,     \* conf.db_size, in bytes
  PageSize    \* conf.page_size, in bytes

PagePadding == 20               \* cPagePadding: the header of a page

ASSUME SizesAssumption == /\ DbSize \in Nat
                          /\ PageSize \in Nat /\ PageSize > PagePadding

VARIABLES
  bitmap,     \* the bits that are set in the index pages
  answer,     \* what the latest find_free_index returned
  held        \* history: numbers handed out and not given back by the caller

vars == <<bitmap, answer, held>>

Bytes == PageSize - PagePadding            \* bytes of one bitmap

BitsPerPage == 8 * Bytes

IndexCount == DbSize \div (PageSize * BitsPerPage)

Bits == (1 .. IndexCount) \X (0 .. Bytes - 1) \X (0 .. 7)

TypeOK ==
  /\ bitmap \subseteq Bits
  /\ answer \in Nat
  /\ held \subseteq Nat

(* dbopen creates the index pages zeroed.                                     *)
Init ==
  /\ bitmap = {}
  /\ answer = 0
  /\ held = {}

(* The scan of find_free_index: index pages, bytes and bits in ascending      *)
(* order, the answer counting along from index_count + 1.                     *)
Before(s, t) ==
  \/ s[1] < t[1]
  \/ s[1] = t[1] /\ s[2] < t[2]
  \/ s[1] = t[1] /\ s[2] = t[2] /\ s[3] < t[3]

(* Mutant of FirstClear: the scan starts at any index page.                   *)
FirstClearOfPage(t) ==
  /\ t \notin bitmap
  /\ \A s \in Bits : s[1] = t[1] /\ Before(s, t) => s \in bitmap

FirstClear(t) ==
  /\ t \notin bitmap
  /\ \A s \in Bits : Before(s, t) => s \in bitmap

NumberOf(t) == IndexCount + 1 + (t[1] - 1) * BitsPerPage + 8 * t[2] + t[3]

(* free_index goes the other way, by division.                                *)
(* Mutant of BitOf: the meta page is not counted.                             *)
BitBehind(n) ==
  LET index == n - IndexCount
      page  == index \div BitsPerPage
      rest  == index - page * BitsPerPage
  IN  <<1 + page, rest \div 8, rest % 8>>

BitOf(n) ==
  LET index   == n - (1 + IndexCount)
      ind_num == index \div BitsPerPage
      inPage  == index - ind_num * BitsPerPage
      ind     == inPage \div 8
  IN  <<1 + ind_num, ind, inPage - ind * 8>>

FindFree ==
  \E t \in Bits :
    /\ FirstClear(t)
    /\ bitmap' = bitmap \union {t}
    /\ answer' = NumberOf(t)
    /\ held' = held \union {answer'}

(* Mutant of FindFreeFails: the scan goes one byte too far.                   *)
FindFreeBehindEnd ==
  LET t == <<IndexCount, Bytes, 0>> IN
  /\ bitmap = Bits
  /\ bitmap' = bitmap \union {t}
  /\ answer' = NumberOf(t)
  /\ held' = held \union {answer'}

FindFreeFails ==
  /\ bitmap = Bits
  /\ answer' = 0
  /\ UNCHANGED <<bitmap, held>>

(* Callers give back numbers of pages they hold (merge_leaf, merge_intermediate). *)
FreeIndex(n) ==
  /\ bitmap' = bitmap \ {BitOf(n)}
  /\ held' = held \ {n}
  /\ answer' = 0

Next == FindFree \/ FindFreeFails \/ \E n \in held : FreeIndex(n)

Spec == Init /\ [][Next]_vars

-------------------------------------------------------------------------------
(* Properties *)

(* The bits that are set are those of the pages in callers' hands: scanning    *)
(* forward and dividing back agree on every page, so that no page is handed    *)
(* out twice, none is lost, and a number given back clears no other bit.       *)
HeldExactlyMarked ==
  /\ held = {NumberOf(t) : t \in bitmap}
  /\ bitmap = {BitOf(n) : n \in held}

Numbers == IndexCount + 1 .. IndexCount + IndexCount * BitsPerPage

Allocator == INSTANCE PageAllocator
               WITH used <- {NumberOf(t) : t \in bitmap}

(* The bitmap is a lowest-first allocator of the page numbers behind the index. *)
RefinesAllocator == Allocator!AllocSpec
==============================================================================
