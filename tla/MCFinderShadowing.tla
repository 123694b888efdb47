------------------------- MODULE MCFinderShadowing -------------------------
EXTENDS FinderShadowing, TLC

ThreadSymmetry == Permutations(Threads)
=============================================================================
