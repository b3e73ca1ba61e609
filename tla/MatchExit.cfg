SPECIFICATION FairSpec
CONSTANTS
    Requester = r
    Acceptor = a
    NoOne = none
    RequesterChoices = {"rock"}
    AcceptorChoices = {"paper", "scissors"}
    Leavers = {a}
    Killable = {}
    Interruptible = FALSE
    Prompt = TRUE
    MaxTaps = 1
    MaxVersions = 8
    MaxQueue = 2
    MaxLag = 1
    MaxBreaks = 0
    MaxDue = 8
PROPERTY ExitReachesOpponent
\* A match that is over has nothing left to do.
CHECK_DEADLOCK FALSE
