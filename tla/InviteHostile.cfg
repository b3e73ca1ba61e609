SPECIFICATION Spec
CONSTANTS
    a = a
    b = b
    Users = {a, b}
    Inviters = {a}
    Killable = {a, b}
    DoubleTaps = TRUE
    Failures = TRUE
    MaxAsks = 1
    MaxTaps = 3
    MaxWrites = 2
    MaxRequests = 1
    MaxGames = 3
INVARIANT TypeOK
INVARIANT Consent
PROPERTY MatchmakerSpec
\* Users who do nothing more leave nothing to do.
CHECK_DEADLOCK FALSE
