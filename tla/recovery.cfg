CONSTANTS
    Sessions = {s1}
    TsSpan = 32
    kTxIdFlag = 16
    MaxRecords = 5
    MaxTx = 2
    MaxRestarts = 2
    MaxCkpts = 1
SPECIFICATION Spec
CONSTRAINT Followed
INVARIANTS
    TypeOK
    
    VisibleCommitted
    ClockAhead

    
CHECK_DEADLOCK FALSE
