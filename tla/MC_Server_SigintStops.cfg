SPECIFICATION FairSpec
CONSTANTS
    Clients = {c1}
    Versions = {1}
    MaxLogs = 1
    MaxHups = 0
    BufferCap = 4
    MayCrash = FALSE
PROPERTIES
    SigintStops
CHECK_DEADLOCK FALSE
