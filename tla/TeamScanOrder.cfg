SPECIFICATION ScanSpec
CONSTANTS
    brighton = brighton
    hove = hove
    albion = albion
    west = west
    versus = versus
    brighton_hove = brighton_hove
    west_albion = west_albion
    newcomer = newcomer
    None = None
    Words <- MCWords
    Clubs <- MCClubs
    ClubNamed <- MCClubNamed
    MaxSpan = 3
    MaxTokens = 6
INVARIANTS
    UserOrderKept
CHECK_DEADLOCK FALSE
