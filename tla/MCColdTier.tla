----------------------------- MODULE MCColdTier -----------------------------
(* ColdTier under TLC: keys and values are interchangeable model values.   *)
EXTENDS ColdTier, TLC

DataSymmetry == Permutations(Keys) \cup Permutations(Vals)
=============================================================================
