--------------------------- MODULE MCUnderstanding ---------------------------
EXTENDS Understanding, TLC
Symmetry == Permutations(Runner)
=============================================================================
