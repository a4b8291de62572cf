-------------------------------- MODULE MCWal --------------------------------
EXTENDS Wal, TLC

Symmetry == Permutations(Sessions)
==============================================================================
