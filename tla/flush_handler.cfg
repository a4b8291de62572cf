CONSTANTS
    Writers = {w1, w2}
    NumTables = 2
SPECIFICATION Spec
INVARIANTS
    TypeOK
    WorkNotForgotten
PROPERTIES
    QueuedFlushed
    FlushAllReturns
CHECK_DEADLOCK FALSE
