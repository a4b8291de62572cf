CONSTANTS
    Sessions = {s1, s2}
    NumTables = 1
    kTxIdFlag = 16
    MaxRows = 2
    MaxVersions = 2
    MaxTs = 4
    MaxTx = 2
    MaxFailures = 1
SPECIFICATION Spec
SYMMETRY Symmetry
INVARIANT NoDirtyRead
PROPERTY NoResurrection
CHECK_DEADLOCK FALSE
