--------------------------- MODULE MCCancellation ---------------------------
EXTENDS Cancellation, TLC
Symmetry == Permutations(Process \ {Worker})
=============================================================================
