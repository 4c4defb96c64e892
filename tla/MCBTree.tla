------------------------------- MODULE MCBTree -------------------------------
(* BTree for TLC: a script of calls first builds a tree, then calls come      *)
(* freely, any number of them on small trees and a few on tall ones.          *)
EXTENDS BTreeInvariant

CONSTANTS Scripts,    \* see Script
          FirstValue  \* the value that scripts insert

VARIABLES script,     \* what is left of the script
          budget,     \* free calls left, or Unlimited
          among       \* the keys and values they use

mcVars == <<vars, script, budget, among>>

Unlimited == -1

(* Calls: a sequence of keys, k > 0 to insert k, -k to delete it.              *)
Script(calls, free, keys, vals) ==
  [calls |-> calls, free |-> free, among |-> [keys |-> keys, vals |-> vals]]

MCInit ==
  /\ Init
  /\ \E s \in Scripts : script = s.calls /\ budget = s.free /\ among = s.among

Scripted ==
  /\ script # <<>> /\ proc = "running" /\ call = Idle
  /\ \/ Head(script) > 0 /\ Insert(Head(script), FirstValue)
     \/ Head(script) < 0 /\ Delete(-Head(script))
  /\ script' = Tail(script)
  /\ UNCHANGED <<budget, among>>

Free ==
  /\ script = <<>> /\ budget # 0
  /\ \/ \E k \in among.keys : Delete(k) \/ \E v \in among.vals : Insert(k, v)
     \/ Reopen \/ Undefined
  /\ budget' = IF budget = Unlimited THEN Unlimited ELSE budget - 1
  /\ UNCHANGED <<script, among>>

Climbing == Climb /\ UNCHANGED <<script, budget, among>>

(* Between calls, and when the process has stopped, nothing has to happen.     *)
(* What is left without a next step is a climb that does not go on, and TLC    *)
(* reports it as a deadlock.                                                   *)
Rest == (proc # "running" \/ call = Idle) /\ UNCHANGED mcVars

MCNext == Scripted \/ Free \/ Climbing \/ Rest

MCSpec == MCInit /\ [][MCNext]_mcVars /\ WF_mcVars(Climbing)

-------------------------------------------------------------------------------
(* Scripts *)

Up(l, r) == [i \in 1 .. r - l + 1 |-> l + i - 1]
Down(l, r) == Reverse(Up(l, r))
Deleting(s) == [i \in DOMAIN s |-> -s[i]]

(* With NodesDown = 2, thirteen keys in order make three levels.  The even     *)
(* numbers leave room for others in between.                                   *)
Doubled(s) == [i \in DOMAIN s |-> 2 * s[i]]

ThreeLevels == {Doubled(Up(1, 13)), Doubled(Down(1, 13)),
                Doubled(Up(1, 6) \o Down(7, 13)),
                Doubled(Up(1, 14)) \o Deleting(Doubled(Up(3, 4)))}

(* Thirty-seven make four; taken away again from either end and from within,   *)
(* down to the last two levels and up again.                                   *)
FourLevels == {Up(1, 37) \o Deleting(Up(1, 32)),
               Up(1, 37) \o Deleting(Down(6, 37)),
               Down(1, 49) \o Deleting(Up(13, 46)) \o Up(13, 17),
               Up(1, 40) \o Deleting(Down(13, 30)) \o Up(17, 26)}

TallScripts ==
  {Script(s, 3, 1 .. 28, {FirstValue}) : s \in ThreeLevels}
    \union {Script(s, 2, 1 .. 49, {FirstValue}) : s \in FourLevels}

TallKeys == 1 .. 49

TallPages == 19 .. 58

(* No script: every history of a few keys.  And two and three levels, from     *)
(* where any call may update a value, too.                                     *)
SmallScripts ==
  {Script(<<>>, Unlimited, 1 .. 7, {FirstValue})}
    \union
  {Script(s, 1, Keys, Values) :
     s \in {Up(1, 12), Down(2, 14), Up(1, 4) \o Up(6, 16) \o <<-6, 5, 6>>,
            Up(1, 15) \o <<-1>>}}

FewKeys == 1 .. 16

FewPages == 19 .. 28
==============================================================================
