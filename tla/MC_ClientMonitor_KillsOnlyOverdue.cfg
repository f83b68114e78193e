SPECIFICATION FairSpec
CONSTANTS
    Pids = {1}
    Names = {"a", "b"}
    Configs <- TwoConfigs
    MaxChildren = 1
    AgeCap = 2
    MaxSpawns = 2
    MaxInbox = 1
    PidReuse = TRUE
    MayCrash = FALSE
PROPERTY
    KillsOnlyOverdue
