\* Four messages through a kernel buffer of four units: most fields do not fit
\* together with the next one, and the longest string not even alone.
SPECIFICATION FairSpec
CONSTANTS
    Base = 3
    Files <- MCFiles
    Texts <- MCTexts
    NULL = NULL
    Capacity = 4
    MaxMessages = 4
INVARIANTS TypeOK CleanBetweenMessages
PROPERTIES ImplementsQueue BegunIsFinished
CHECK_DEADLOCK FALSE
