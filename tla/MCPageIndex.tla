----------------------------- MODULE MCPageIndex -----------------------------
(* PageIndex for TLC: of the bitmaps, those whose set bits run from the first *)
(* page up to some page with at most MaxHoles clear bits among them.          *)
EXTENDS PageIndex, FiniteSets

CONSTANT MaxHoles

Holes == {t \in Bits \ bitmap : \E s \in bitmap : Before(t, s)}

MCNext == Next /\ Cardinality(Holes') <= MaxHoles

MCSpec == Init /\ [][MCNext]_vars
==============================================================================
