------------------------------ MODULE MCSession ------------------------------
(* Session for TLC: a script of calls first builds a tree, then a few calls,   *)
(* syncs, crashes and openings come freely.                                    *)
EXTENDS Session

CONSTANTS Scripts,    \* see Script
          FirstValue  \* the value that scripts insert

VARIABLES script,     \* what is left of the script
          budget,     \* free calls, syncs and openings left
          among       \* the keys they use

mcVars == <<sessionVars, script, budget, among>>

(* Calls: k > 0 to insert k, -k to delete it.                                  *)
Script(calls, free, keys) == [calls |-> calls, free |-> free, among |-> keys]

MCInit ==
  /\ SessionInit /\ buffer = "null"
  /\ \E s \in Scripts : script = s.calls /\ budget = s.free /\ among = s.among

Scripted ==
  /\ script # <<>> /\ Between
  /\ \/ Head(script) > 0 /\ TreeStep(InsertStep(Head(script), FirstValue))
     \/ Head(script) < 0 /\ TreeStep(DeleteStep(-Head(script)))
  /\ script' = Tail(script)
  /\ UNCHANGED <<budget, among>>

Freely ==
  /\ script = <<>> /\ budget > 0
  /\ \/ \E k \in among :
          \/ TreeStep(Lookup(k)) \/ TreeStep(DeleteStep(k))
          \/ \E v \in Values : TreeStep(InsertStep(k, v))
     \/ Sync \/ CloseAndOpen \/ CrashAndOpen
  /\ budget' = budget - 1
  /\ UNCHANGED <<script, among>>

Onward == (TreeStep(ClimbStep) \/ AccessPage) /\ UNCHANGED <<script, budget, among>>

MCNext == Scripted \/ Freely \/ Onward

MCSpec == MCInit /\ [][MCNext]_mcVars

-------------------------------------------------------------------------------
(* Scripts *)

Up(l, r) == [i \in 1 .. r - l + 1 |-> l + i - 1]
Deleting(s) == [i \in DOMAIN s |-> -s[i]]

(* Twelve slots hold the ten pages of thirteen keys in order, but not those of *)
(* nineteen.                                                                   *)
SessionScripts ==
  {Script(<<1, 3>>, 7, {2}), Script(Up(1, 5), 6, {4, 6}),
   Script(Up(1, 12), 5, {2, 13}), Script(Up(1, 13), 5, {3, 13}),
   Script(Up(1, 19), 4, {1, 19}),
   Script(Up(1, 15) \o Deleting(Up(1, 9)), 4, {10, 12})}

(* A single key; and enough for an inner root to split.                        *)
ShortScript == {Script(<<1>>, 1, {})}

GrowingScript == {Script(Up(1, 13), 1, {})}

SessionKeys == 1 .. 19

SessionPages == 2 .. 20
==============================================================================
