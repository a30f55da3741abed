SPECIFICATION Spec
CONSTANTS
    arsenal = arsenal
    chelsea = chelsea
    coventry = coventry
    ArsenalFC = ArsenalFC
    Arsenal = Arsenal
    Chelsea = Chelsea
    Coventry = Coventry
    Nobody = Nobody
    nobody = nobody
    plain = plain
    None = None
    Clubs <- MCClubs
    Spellings <- AllSpellings
    ClubOf <- MCClubOf
    Folded <- MCFolded
    Fitted <- MCFitted
    Extras = {plain}
    Offered = {"get_live_matches", "get_scoreline_prediction"}
    MaxCalls = 3
INVARIANTS
    TypeOK
    PerformedOnce
    EvidenceAnswersCall
PROPERTIES
    PromiseKept
CHECK_DEADLOCK FALSE
