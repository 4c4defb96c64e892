----------------------------- MODULE MCPageEdits -----------------------------
(* PageEdits for TLC: keys are inserted in some order first, then edits come   *)
(* freely.                                                                     *)
EXTENDS PageEdits

CONSTANTS Scripts,   \* sequences of keys, with the free edits after each
          FirstValue \* the value that scripts insert

VARIABLES script, budget

mcVars == <<editVars, script, budget>>

Script(calls, free) == [calls |-> calls, free |-> free]

MCInit ==
  /\ Init
  /\ \E s \in Scripts :
       /\ nodes.p.keys = <<Head(s.calls)>> /\ nodes.p.vals \in {<<>>, <<FirstValue>>}
       /\ script = Tail(s.calls) /\ budget = s.free

(* A script goes on in the page that has room for its next key.                *)
Scripted ==
  /\ script # <<>>
  /\ \/ InsertOne(Head(script), FirstValue) /\ script' = Tail(script)
     \/ /\ \E w \in Places :
             Reaches(Head(script), w) /\ Size(nodes[w]) = NodesUp /\ LookAway(w)
        /\ UNCHANGED script
  /\ UNCHANGED budget

Freely ==
  /\ script = <<>> /\ budget > 0 /\ Next
  /\ budget' = budget - 1 /\ UNCHANGED script

MCNext == Scripted \/ Freely

MCSpec == MCInit /\ [][MCNext]_mcVars

-------------------------------------------------------------------------------

(* Prefixes of one another, the empty key, and bytes from 128 on.              *)
EditBytes ==
  <<<<>>, <<6>>, <<7>>, <<7, 0>>, <<7, 0, 9>>, <<7, 0, 9, 1>>, <<7, 200>>, <<8>>, <<9>>,
    <<127, 255>>, <<128>>, <<200>>, <<200>> \o [i \in 1 .. 20 |-> i]>>

EmptyValue == <<>>

EditKeys == DOMAIN EditBytes

EditNums == 1 .. Child(Len(EditBytes))

EditValues == {EmptyValue, [i \in 1 .. 20 |-> 1], [i \in 1 .. 130 |-> 1]}

Up(l, r) == [i \in 1 .. r - l + 1 |-> l + i - 1]

(* Few keys; a page about to be divided; one sibling full, the other the       *)
(* smallest it can be; a page divided twice, from either end.                  *)
EditScripts ==
  {Script(<<5>>, 3), Script(<<4, 12, 7, 3, 10, 8>>, 3), Script(Up(4, 10), 3),
   Script(Up(1, 4) \o Up(10, 12) \o Up(5, 7), 3),
   Script(Up(1, 3) \o Up(9, 12) \o Up(4, 6), 3),
   Script(Up(2, 12), 3), Script(Reverse(Up(2, 12)), 3)}
=============================================================================
