SPECIFICATION FairSpec
CONSTANTS
    None = None
    Requests = {r1, r2}
    Traffic = {"health", "team", "fixtures", "standings", "live"}
    TTL <- MCTTL
    MaxTime = 3
INVARIANTS
    TypeOK
    StalenessIsTold
    OneRequestPerServiceWindow
PROPERTIES
    ErrorOnlyWithNothingCached
    ServiceSettles
    EveryRequestAnswered
CHECK_DEADLOCK FALSE
