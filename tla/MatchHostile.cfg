SPECIFICATION Spec
CONSTANTS
    Requester = r
    Acceptor = a
    NoOne = none
    RequesterChoices = {"rock"}
    AcceptorChoices = {"rock", "paper", "scissors"}
    Leavers = {a}
    Killable = {r}
    Interruptible = FALSE
    Prompt = TRUE
    MaxTaps = 1
    MaxVersions = 5
    MaxQueue = 2
    MaxLag = 1
    MaxBreaks = 1
    MaxDue = 2
INVARIANT IndInv
INVARIANT MoveAuthentic
INVARIANT WinnerEarned
INVARIANT TieNeverLost
INVARIANT DefeatEarned
INVARIANT ListenerCaughtUp
PROPERTY NeverRestarted
PROPERTY ContractSpec
\* A match that is over has nothing left to do.
CHECK_DEADLOCK FALSE
