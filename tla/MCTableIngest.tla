--------------------------- MODULE MCTableIngest ---------------------------
EXTENDS TableIngest, TLC

\* Flush threads are interchangeable and so are the batches of the pool.
Symmetry == Permutations(Flushers) \cup Permutations(Batches)
============================================================================
