SPECIFICATION FairSpec
CONSTANTS
    a = a
    b = b
    Users = {a, b}
    Inviters = {a, b}
    Killable = {}
    DoubleTaps = FALSE
    Failures = FALSE
    MaxAsks = 2
    MaxTaps = 2
    MaxWrites = 0
    MaxRequests = 2
    MaxGames = 2
INVARIANT Consent
PROPERTY RequestsCleared
PROPERTY GamesStart
PROPERTY LoadingEnds
\* Users who do nothing more leave nothing to do.
CHECK_DEADLOCK FALSE
