--------------------------- MODULE MCWebSession -----------------------------
EXTENDS WebSession, TLC

Symmetry == Permutations(Calls) \cup Permutations(Tabs)
=============================================================================
