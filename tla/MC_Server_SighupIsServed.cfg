SPECIFICATION FairSpec
CONSTANTS
    Clients = {c1}
    Versions = {1, 2}
    MaxLogs = 1
    MaxHups = 1
    BufferCap = 4
    MayCrash = FALSE
PROPERTIES
    SighupIsServed
CHECK_DEADLOCK FALSE
