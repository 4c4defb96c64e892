---------------------------- MODULE PageAllocator ----------------------------
(***************************************************************************)
(* What the B-tree expects of find_free_index and free_index: a set of     *)
(* page numbers in use, handed out lowest first.                           *)
(***************************************************************************)
EXTENDS Integers

CONSTANT Numbers    \* the page numbers that can be handed out

VARIABLES
  used,             \* numbers handed out and not given back
  answer            \* what the latest find_free_index returned

allocVars == <<used, answer>>

Lowest(S) == CHOOSE n \in S : \A m \in S : n <= m

AllocInit == used = {} /\ answer = 0

(* 0, the number of the meta page, says that no number is left.            *)
Allocate ==
  IF used = Numbers
  THEN answer' = 0 /\ UNCHANGED used
  ELSE /\ answer' = Lowest(Numbers \ used)
       /\ used' = used \union {answer'}

Release(n) ==
  /\ used' = used \ {n}
  /\ answer' = 0

AllocSpec == AllocInit /\ [][Allocate \/ \E n \in Numbers : Release(n)]_allocVars
==============================================================================
