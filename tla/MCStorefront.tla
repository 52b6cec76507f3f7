---------------------------- MODULE MCStorefront ----------------------------
(* Any three calls for two variants, or a tab and its calls.               *)
EXTENDS Storefront, TLC

Symmetry == Permutations(Calls) \cup Permutations(Variants) \cup Permutations(Keys)
=============================================================================
