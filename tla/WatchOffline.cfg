SPECIFICATION QueueSpec
CONSTANTS
    Targets = {t1}
    Keys = {k1}
    MaxVersions = 1
    MaxListens = 2
    MaxCloses = 0
    MaxCrashes = 0
    t1 = t1
    k1 = k1
PROPERTY StateDecided
\* When every view is in sync nothing is left to do.
CHECK_DEADLOCK FALSE
