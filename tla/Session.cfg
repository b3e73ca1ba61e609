SPECIFICATION FairSpec
CONSTANTS
    Devices = {d1}
    Names = {"ana", "bob"}
    MaxSignIns = 2
    MaxTaps = 2
    MaxLaunches = 3
    d1 = d1
INVARIANT TypeOK
INVARIANT SavedAsShown
INVARIANT NamesKept
PROPERTY TokenRegistered
\* A device that is closed for good stays closed.
CHECK_DEADLOCK FALSE
