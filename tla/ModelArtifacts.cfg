SPECIFICATION Spec
CONSTANTS
    None = None
    Damaged = Damaged
    Outdated = Outdated
    Workers = {w1, w2}
    Revisions = {"full", "early", "later", "respelt"}
    Original = "full"
    PlayedIn <- MCPlayedIn
    Cutoff = 2
    Sealed = 3
    Clubs <- MCClubs
    Names <- MCNames
    Minimum = 2
    MaxRevised = 1
INVARIANTS
    TypeOK
    StatedCutoffIsTrue
    OneModelPerProcess
    NoScorelineFromThePrior
CHECK_DEADLOCK FALSE
