SPECIFICATION FairSpec
CONSTANTS
    Clients = {c1, c2}
    Versions = {1}
    MaxLogs = 1
    MaxHups = 0
    BufferCap = 4
    MayCrash = TRUE
PROPERTIES
    EventsAreLogged
CHECK_DEADLOCK FALSE
