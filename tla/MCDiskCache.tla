------------------------------ MODULE MCDiskCache ------------------------------
EXTENDS DiskCache, TLC

Symmetry == Permutations(Thread) \cup Permutations(Hash)
=============================================================================
