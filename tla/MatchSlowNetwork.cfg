SPECIFICATION Spec
CONSTANTS
    Requester = r
    Acceptor = a
    NoOne = none
    RequesterChoices = {"rock"}
    AcceptorChoices = {"paper"}
    Leavers = {}
    Killable = {}
    Interruptible = FALSE
    Prompt = FALSE
    MaxTaps = 1
    MaxVersions = 6
    MaxQueue = 2
    MaxLag = 2
    MaxBreaks = 0
    MaxDue = 8
INVARIANT ConsistentVerdicts
INVARIANT VictoryShown
PROPERTY RecordSpec
\* A match that is over has nothing left to do.
CHECK_DEADLOCK FALSE
