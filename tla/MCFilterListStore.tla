--------------------------- MODULE MCFilterListStore ---------------------------
EXTENDS FilterListStore, TLC

Symmetry == Permutations(Getter) \cup Permutations(Url)
=============================================================================
