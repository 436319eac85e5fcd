--------------------------- MODULE MCContactTree ----------------------------
EXTENDS ContactTree, TLC

Symmetry == Permutations(Addr)
=============================================================================
