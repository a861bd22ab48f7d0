--------------------------- MODULE MCSubscription ---------------------------
EXTENDS Subscription, TLC
Symmetry == Permutations(Process \ {Worker})
=============================================================================
