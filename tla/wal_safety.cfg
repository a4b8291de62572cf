CONSTANTS
    Sessions = {s1, s2}
    kMaxSegmentSize = 2
    MaxRecords = 5
    MaxTx = 2
    MaxRestarts = 2
SPECIFICATION Spec
SYMMETRY Symmetry
INVARIANTS
    TypeOK
    CommitDurable
    ActiveKept
CHECK_DEADLOCK FALSE
