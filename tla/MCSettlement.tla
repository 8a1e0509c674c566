---------------------------- MODULE MCSettlement ----------------------------
EXTENDS Settlement, TLC

Symmetry == Permutations(Contracts) \union Permutations(Pollers)
=============================================================================
