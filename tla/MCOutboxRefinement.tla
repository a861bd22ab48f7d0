------------------------- MODULE MCOutboxRefinement -------------------------
EXTENDS OutboxRefinement, TLC
Symmetry == Permutations(Worker)
=============================================================================
