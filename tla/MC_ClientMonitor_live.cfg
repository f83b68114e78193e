SPECIFICATION FairSpec
CONSTANTS
    Pids = {1, 2}
    Names = {"a"}
    Configs <- OnOffConfigs
    MaxChildren = 2
    AgeCap = 2
    MaxSpawns = 2
    MaxInbox = 1
    PidReuse = TRUE
    MayCrash = TRUE
PROPERTIES
    WantedIsMonitored
    MonitoredIsKilled
    NoOrphans
    IntEndsClient
