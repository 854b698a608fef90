---------------------------- MODULE MCCoinsCache ----------------------------
(* CoinsCache with two outpoints, two coins and two blocks.                *)
EXTENDS CoinsCache, TLC

Symmetry == Permutations(OutPoints) \cup Permutations(Coins) \cup Permutations(Blocks)
=============================================================================
