--------------------------- MODULE MCEvidenceLog ---------------------------
EXTENDS EvidenceLog, TLC

\* Contents are told apart by equality only.
Symmetry == Permutations(Threads) \union Permutations(Contents)
=============================================================================
