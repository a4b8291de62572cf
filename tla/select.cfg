CONSTANTS
    Cpus = {"scalar", "avx2", "avx512"}
    Lane64 = 1
    Int32Half = 2
    Near = 2
    Exprs <- MCExprs
    Names <- MCNames
    Types <- MCTypes
    Contents <- MCContents
    Statements <- MCStatements
    MaxFlights = 1
SPECIFICATION Spec
INVARIANTS
    TypeOK
    SelectExact
    
    
    
CHECK_DEADLOCK FALSE
