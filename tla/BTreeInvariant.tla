---------------------------- MODULE BTreeInvariant ----------------------------
(***************************************************************************)
(* The inductive invariant of BTree.  What the properties of BTree say of  *)
(* the pages that a walk from the root comes to is stated here page by     *)
(* page, with three functions that no page holds: the bounds lo[n] and     *)
(* hi[n] of the keys that page n answers for, and its height ht[n] above   *)
(* the leaves.  A split, merge or redistribution changes these for the     *)
(* pages it writes and for no other, and so does a new or a lost root.     *)
(***************************************************************************)
EXTENDS BTree

PageOK(V, r, lo, hi, ht, n) ==
  /\ V[n] \in Node /\ V[n].number = n
  /\ Shape(V[n])
  /\ Ordered(V[n], lo[n], hi[n])
  /\ (V[n].kind \in Leaves) = (ht[n] = 0)
  /\ (V[n].kind \in {"Root", "RootLeaf"}) = (n = r)

ChildrenOK(V, U, lo, hi, ht, n) ==
  V[n].kind \in Interiors =>
    \A i \in 1 .. Size(V[n]) + 1 :
      LET c == V[n].links[i] IN
      /\ c \in U /\ V[c].parent = n
      /\ ht[n] = ht[c] + 1
      /\ lo[c] = Fence(V[n], lo[n], hi[n], i - 1)
      /\ hi[c] = Fence(V[n], lo[n], hi[n], i)

(* The parent a page names has a link to it.                                 *)
ParentOK(V, U, n) ==
  LET p == V[n].parent IN
  /\ p \in U /\ V[p].kind \in Interiors
  /\ \E i \in 1 .. Size(V[p]) + 1 : V[p].links[i] = n

(* Pages of one height answer for different keys.                            *)
Apart(U, lo, hi, ht) ==
  \A m, n \in U : m # n /\ ht[m] = ht[n] => hi[m] <= lo[n] \/ hi[n] <= lo[m]

RootOK(U, r, lo, hi, ht) ==
  /\ r \in U /\ lo[r] = 0 /\ hi[r] = Max(Keys) + 1
  /\ \A n \in U \ {r} : ht[n] < ht[r]

(* The pages V in use U are a search tree with root r.                       *)
Tree(V, U, r, lo, hi, ht) ==
  /\ U \subseteq PageNums
  /\ lo \in [Numbers -> Nat] /\ hi \in [Numbers -> Nat] /\ ht \in [Numbers -> Nat]
  /\ RootOK(U, r, lo, hi, ht)
  /\ \A n \in U : PageOK(V, r, lo, hi, ht, n)
  /\ \A n \in U : ChildrenOK(V, U, lo, hi, ht, n)
  /\ \A n \in U \ {r} : ParentOK(V, U, n)
  /\ Apart(U, lo, hi, ht)

(* A leaf holds what the map m has within its bounds.                        *)
Holds(V, U, lo, hi, m) ==
  \A n \in U, k \in Keys :
    V[n].kind \in Leaves /\ lo[n] <= k /\ k < hi[n] => ValueIn(V[n], k) = m[k]

Least(n) ==
  IF n.kind = "RootLeaf" THEN 0 ELSE IF n.kind = "Root" THEN 1 ELSE NodesDown

(* Pages other than those in X have the sizes that they have between calls.  *)
Filled(V, U, X) == \A n \in U \ X : Size(V[n]) \in Least(V[n]) .. NodesUp

-------------------------------------------------------------------------------

Exempt == IF call = Idle THEN {} ELSE {call.node.number}

(* The page that a climbing recursion is at.                                 *)
CallOK(U) ==
  \/ call = Idle
  \/ /\ call.op = "split"
     /\ call.node.number \in U /\ call.node = page[call.node.number]
     /\ call.node.kind \in Interiors /\ Size(call.node) = NodesUp
     /\ call.key \in Keys
  \/ /\ call.op = "underflow"
     /\ call.node.number \in U /\ call.node.kind = "Intermediate"
     /\ Size(call.node) = NodesDown - 1

(* A root that was merged under an inner page names that page, which is free  *)
(* but still there.                                                           *)
OrphanOK ==
  /\ page[root.parent] # Blank
  /\ root.kind = "RootLeaf" /\ root.parent # 0 =>
       root.parent # root.number /\ page[root.parent].kind \in Interiors

(* Pages in memory, in the tree or not.                                       *)
PagesOK ==
  /\ Len(page[0].links) = 1
  /\ \A n \in Numbers : page[n].kind \in Interiors => Shape(page[n])
  /\ \A n \in Numbers : page[n] = Blank \/ page[n].number = n

EmptyOf(U) ==
  /\ root = Blank /\ U = {} /\ call = Idle /\ buffer \in {"null", "wild"}
  /\ page = NewPages
  /\ kv = [k \in Keys |-> Absent]

GrownWith(U, lo, hi, ht) ==
  /\ buffer = "live" \/ (buffer = "freed" /\ call = Idle)
  /\ root = page[root.number]
  /\ Tree(View, U, root.number, lo, hi, ht)
  /\ Holds(View, U, lo, hi, kv)
  /\ Filled(View, U, Exempt)
  /\ CallOK(U) /\ OrphanOK

GrownOf(U) == \E lo, hi, ht \in [Numbers -> Nat] : GrownWith(U, lo, hi, ht)

(* The pages U are the tree's.  A process that opened a file with an old page *)
(* index uses pages that are not marked and marks pages that it does not use. *)
InvOf(U) == TypeOK /\ (proc = "running" => PagesOK /\ (EmptyOf(U) \/ GrownOf(U)))

(* The inductive invariant.                                                   *)
Inv == InvOf(used)

-------------------------------------------------------------------------------
(* The bounds and heights that Grown says there are, read off the pages.      *)

(* Page, bounds and depth of what a walk from the root comes to.              *)
Walk == UNION {{<<f[1], f[2], f[3], h>> : f \in Level(View)[h]} : h \in 0 .. Levels}

(* Component i of the walk W at each page.                                    *)
Seen(W, i) ==
  [n \in Numbers |-> LET w == {f \in W : f[1] = n}
                     IN  IF w = {} THEN 0 ELSE (CHOOSE f \in w : TRUE)[i]]

(* Heights from depths.                                                       *)
Raising(W) ==
  LET d == Seen(W, 4) IN [n \in Numbers |-> Max({f[4] : f \in W}) - d[n]]

(* The pages in use form a search tree that holds the map, in the middle of a *)
(* climbing split or merge, too, where the page it is at is too large or      *)
(* small.                                                                     *)
TreeKept ==
  proc = "running" =>
    /\ PagesOK
    /\ EmptyOf(used) \/ LET W == Walk
                         IN  GrownWith(used, Seen(W, 2), Seen(W, 3), Raising(W))
===============================================================================
