CONSTANTS
    Sessions = {s1, s2}
    NumTables = 2
    kTxIdFlag = 16
    MaxRows = 1
    MaxVersions = 3
    MaxTs = 3
    MaxTx = 2
    MaxFailures = 0
SPECIFICATION Spec
SYMMETRY Symmetry
INVARIANTS
    TypeOK
    TxnSettled
PROPERTY SnapshotStable
CHECK_DEADLOCK FALSE
