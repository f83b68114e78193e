SPECIFICATION Spec
CONSTANTS
    Pids = {1, 2}
    Names = {"a", "b"}
    Configs <- TwoConfigs
    MaxChildren = 2
    AgeCap = 2
    MaxSpawns = 3
    MaxInbox = 1
    PidReuse = FALSE
    MayCrash = FALSE
INVARIANTS
    TypeOK
    OneEntryPerProcess
    RegisterAgrees
    ReadyIsReadable
    KillsCountedOnce
PROPERTIES
    KillsOnlyOverdue
    OldConfigKept
    ImplementsJobTable
