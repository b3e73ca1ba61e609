SPECIFICATION Spec
CONSTANTS
    Requester = r
    Acceptor = a
    NoOne = none
    RequesterChoices = {"rock"}
    AcceptorChoices = {"paper", "scissors"}
    Leavers = {}
    Killable = {}
    Interruptible = FALSE
    Prompt = FALSE
    MaxTaps = 1
    MaxVersions = 6
    MaxQueue = 2
    MaxLag = 2
    MaxBreaks = 0
    MaxDue = 8
INVARIANT LoserLearnsWinner
\* A match that is over has nothing left to do.
CHECK_DEADLOCK FALSE
