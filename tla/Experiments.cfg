SPECIFICATION Spec
CONSTANTS
    None = None
    Damaged = Damaged
    Complete = Complete
    LastFold = 3
    Revisions <- MCRevisions
    Original = "original"
    ResultsIn <- MCResultsIn
    ExpectedRows = 6
    MetaTrain <- MCMetaTrain
    RowsPerSeason = 3
    Pools <- MCPools
    Complexity <- MCComplexity
    Baselines <- MCBaselines
    Tables <- MCTables
    CandidateOrder <- MCCandidateOrder
    Incumbent = "raw_trio"
    Parameters <- MCParameters
    MaxRevised = 1
    MaxScripts = 3
INVARIANTS
    TypeOK
    SameMatchesCompared
    JudgedOutOfSample
    SelectedIsDefensible
    ReplacedOnlyByTheBetter
CHECK_DEADLOCK FALSE
