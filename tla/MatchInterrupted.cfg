SPECIFICATION FairSpec
CONSTANTS
    Requester = r
    Acceptor = a
    NoOne = none
    RequesterChoices = {"rock"}
    AcceptorChoices = {"paper", "scissors"}
    Leavers = {}
    Killable = {}
    Interruptible = TRUE
    Prompt = TRUE
    MaxTaps = 1
    MaxVersions = 6
    MaxQueue = 2
    MaxLag = 2
    MaxBreaks = 0
    MaxDue = 8
INVARIANT SameResult
PROPERTY MatchQuiesces
PROPERTY ResultsReached
PROPERTY ErasedPickOffered
\* A match that is over has nothing left to do.
CHECK_DEADLOCK FALSE
