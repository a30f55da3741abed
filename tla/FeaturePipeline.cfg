SPECIFICATION Spec
CONSTANTS
    arsenal = arsenal
    burnley = burnley
    chelsea = chelsea
    None = None
    Clubs <- MCClubs
    Frames <- MCFrames
    MinPeriods = 2
    Window = 2
    RestCap = 2
    DepthCap = 2
    MinPrior = 1
    Throughs = {2}
    Gain <- MCGain
    HomeAdvantage = 100
    PromotedPrior <- MCPromotedPrior
    ShrinkBy = 2
    MaxMatches = 4
SYMMETRY MCSymmetry
INVARIANTS
    TypeOK
    NoLookahead
    RowsAreHistory
    EloScaleStable
CHECK_DEADLOCK FALSE
