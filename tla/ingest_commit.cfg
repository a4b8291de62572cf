CONSTANTS
    Writers = {w1}
    AutoWriters = {}
    Flushers = {f1}
    Batches = {b1, b2}
    NoBatch = NoBatch
    kBatchSize = 2
    MaxCallRows = 1
    MaxRows = 1
    MaxFailures = 0
SPECIFICATION Spec
INVARIANT CommitStampsEveryRow
