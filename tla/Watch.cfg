SPECIFICATION FairSpec
CONSTANTS
    Targets = {t1}
    Keys = {k1,k2}
    MaxVersions = 2
    MaxListens = 2
    MaxCloses = 1
    MaxCrashes = 1
    t1 = t1
    k1 = k1
    k2 = k2
INVARIANT TypeOK
INVARIANT AnswersCounted
INVARIANT AssertionsHold
INVARIANT ViewsExact
PROPERTY Converges
\* When every view is in sync nothing is left to do.
CHECK_DEADLOCK FALSE
