SPECIFICATION FairSpec
CONSTANTS
    Clients = {c1, c2}
    Versions = {1, 2}
    MaxLogs = 1
    MaxHups = 1
    BufferCap = 4
    MayCrash = TRUE
INVARIANTS
    TypeOK
    ConfigDistributed
    ReportComplete
PROPERTIES
    TeardownEnds
    
    ClientsEnd
CHECK_DEADLOCK FALSE
