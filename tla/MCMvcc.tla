------------------------------- MODULE MCMvcc -------------------------------
EXTENDS Mvcc, TLC

Symmetry == Permutations(Sessions)
=============================================================================
