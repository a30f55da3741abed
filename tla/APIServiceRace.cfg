SPECIFICATION Spec
CONSTANTS
    None = None
    Requests = {r1, r2}
    Traffic = {"standings"}
    TTL <- MCTTL
    MaxTime = 2
INVARIANTS
    OneProviderRequestPerWindow
CHECK_DEADLOCK FALSE
