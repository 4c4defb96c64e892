----------------------------- MODULE MCPageCache -----------------------------
(* PageCache for TLC: slot use counts are bounded by MaxPower.                *)
EXTENDS PageCache

CONSTANT MaxPower

(* A hit on a slot that has reached the bound is not explored; every relative *)
(* order of the counts below it is.                                           *)
PowerBound == \A i \in Slots : slot'[i].power <= MaxPower

MCNext == Next /\ PowerBound

MCSpec == Init /\ [][MCNext]_vars
==============================================================================
