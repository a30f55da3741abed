SPECIFICATION Spec
CONSTANTS
    None = None
    Damaged = Damaged
    Seasons <- MCSeasons
    Start = 1
    Sealed = 6
    Cutoff <- MCCutoff
    MinPrior = 3
    MinWindow = 3
    Revisions <- MCRevisions
    Published <- MCPublished
    RowsOf <- MCRowsOf
    Sound <- MCSound
    Fetches <- MCFetches
    SourceChoices <- MCSourceChoices
    Revised = 5
    MaxBuilds = 3
    MaxProcessed = 2
INVARIANTS
    TypeOK
    AcceptedIsCausal
    InterruptedBuildCanBeRepeated
PROPERTIES
    RebuildKeepsFold
CHECK_DEADLOCK FALSE
