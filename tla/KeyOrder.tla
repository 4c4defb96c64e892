------------------------------ MODULE KeyOrder ------------------------------
(***************************************************************************)
(* How b-tree.c compares keys: byte strings, by memcmp over the length of  *)
(* the shorter and then by length.                                         *)
(***************************************************************************)
EXTENDS Integers, SequencesExt

(* Mutant of Memcmp: bytes from 128 on are negative.                         *)
MemcmpSigned(a, b) ==
  LET common == IF Len(a) < Len(b) THEN Len(a) ELSE Len(b)
      differ == {i \in 1 .. common : a[i] # b[i]}
      Char(x) == IF x < 128 THEN x ELSE x - 256
  IN  IF differ = {} THEN 0 ELSE Char(a[Min(differ)]) - Char(b[Min(differ)])

(* The sign of the first difference of two strings in their common length.   *)
Memcmp(a, b) ==
  LET common == IF Len(a) < Len(b) THEN Len(a) ELSE Len(b)
      differ == {i \in 1 .. common : a[i] # b[i]}
  IN  IF differ = {} THEN 0 ELSE a[Min(differ)] - b[Min(differ)]

(* The test of a key in a page against the key looked for.                   *)
Greater(a, b) == Memcmp(a, b) > 0 \/ (Memcmp(a, b) = 0 /\ Len(a) > Len(b))

Same(a, b) == Memcmp(a, b) = 0 /\ Len(a) = Len(b)

(* n < 0, with n = p_size - s_size when memcmp finds no difference.          *)
Before(a, b) ==
  LET n == Memcmp(a, b)
  IN  IF n = 0 THEN Len(a) - Len(b) < 0 ELSE n < 0

(* The order of a dictionary, for reference: a is a proper prefix of b, or   *)
(* the two share a prefix, behind which a has the smaller letter.            *)
Precedes(a, b) ==
  \/ Len(a) < Len(b) /\ SubSeq(b, 1, Len(a)) = a
  \/ \E i \in 1 .. Len(a) :
       /\ i <= Len(b) /\ SubSeq(a, 1, i - 1) = SubSeq(b, 1, i - 1)
       /\ a[i] < b[i]
=============================================================================
