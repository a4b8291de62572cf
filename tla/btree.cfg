CONSTANTS
    Keys <- FixedKeys
    ks = 1
    kMaxKeys = 2
    MaxInserts = 6
    MaxFaults = 2
SPECIFICATION Spec
INVARIANTS
    TypeOK
    SearchSound
    SearchComplete
PROPERTY RefinesIndexMap
CHECK_DEADLOCK FALSE
