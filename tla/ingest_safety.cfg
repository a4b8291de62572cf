CONSTANTS
    Writers = {w1, w2}
    AutoWriters = {w2}
    Flushers = {f1, f2}
    Batches = {b1, b2}
    NoBatch = NoBatch
    kBatchSize = 2
    MaxCallRows = 2
    MaxRows = 2
    MaxFailures = 1
SPECIFICATION Spec
SYMMETRY Symmetry
INVARIANTS
    TypeOK
    PoolConserved
    RowIdsUnique
    RowIdsDense
    ReturnedIdKeepsRow
    NoForeignStamp
