SPECIFICATION FairSpec
CONSTANTS
    live = live
    standings = standings
    None = None
    Keys <- MCKeys
    TTL <- MCTTL
    MaxTime = 6
    MaxSlips = 1
    MaxReads = 3
INVARIANTS
    TypeOK
    OneRequestPerWindow
    SnapshotNeverLost
    UnflaggedAnswerIsRecent
PROPERTIES
    EveryReadAnswered
    PromiseKept
CHECK_DEADLOCK FALSE
