CONSTANTS
    Writers = {w1, w2}
    AutoWriters = {w1, w2}
    Flushers = {f1, f2}
    Batches = {b1}
    NoBatch = NoBatch
    kBatchSize = 2
    MaxCallRows = 2
    MaxRows = 2
    MaxFailures = 0
SPECIFICATION FairScanSpec
PROPERTIES
    InsertReturns
    RowsReachPages
    FlushCovers
