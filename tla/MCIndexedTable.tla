--------------------------- MODULE MCIndexedTable ---------------------------
EXTENDS IndexedTable

Symmetry == Permutations(Sessions) \cup Permutations(Keys)

\* Behind these no property but TypeOK claims anything.
Claimed == flaws \cap {"vacuum", "unwritten"} = {}
=============================================================================
