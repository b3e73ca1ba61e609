SPECIFICATION Spec
CONSTANTS
    Devices = {d1, d2}
    Names = {"ana", "bob"}
    MaxSignIns = 1
    MaxTaps = 1
    MaxLaunches = 1
    d1 = d1
    d2 = d2
INVARIANT UsernamesUnique
\* A device that is closed for good stays closed.
CHECK_DEADLOCK FALSE
