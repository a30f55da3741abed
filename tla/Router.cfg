SPECIFICATION Spec
CONSTANTS
    arsenal = arsenal
    liverpool = liverpool
    Arsenal = Arsenal
    ArsenalFC = ArsenalFC
    Liverpool = Liverpool
    Wrexham = Wrexham
    None = None
    Clubs <- MCClubs
    Spellings <- MCSpellings
    ClubOf <- MCClubOf
    MaxPhrases = 4
    MaxTeams = 2
INVARIANTS
    TypeOK
    NoWinnerPicked
    WhatIsHeardIsServed
CHECK_DEADLOCK FALSE
