----------------------------- MODULE MCIndexing -----------------------------
EXTENDS Indexing, TLC
Symmetry == Permutations(Runner) \cup Permutations(Item) \cup Permutations(Part)
=============================================================================
