SPECIFICATION Spec
CONSTANTS
    live = live
    standings = standings
    None = None
    Keys <- MCKeys
    TTL <- MCTTL
    MaxTime = 6
    MaxSlips = 0
    MaxReads = 3
INVARIANTS
    FailedRefreshServesLastGood
CHECK_DEADLOCK FALSE
