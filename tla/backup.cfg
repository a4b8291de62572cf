CONSTANTS
    Sessions = {s1}
    TsSpan = 32
    kTxIdFlag = 16
    MaxRecords = 5
    MaxTx = 2
    MaxRestarts = 0
    MaxCkpts = 2
    MaxBackups = 1
SPECIFICATION BackupSpec
INVARIANTS
    BackupComplete
    BackupAtomic
CHECK_DEADLOCK FALSE
