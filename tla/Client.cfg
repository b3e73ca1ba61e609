SPECIFICATION FairSpec
CONSTANTS
    Fields = {"moves", "state"}
    Values = {0, 1}
    FirstDocuments <- MCFirstDocuments
    Patches <- MCPatches
    ForeignPatches <- MCForeignPatches
    kMaxPendingWrites = 2
    MaxWrites = 2
    MaxForeign = 1
    MaxCloses = 1
    MaxCrashes = 1
INVARIANT TypeOK
INVARIANT RefinementInv
INVARIANT CorrelatedAnswers
INVARIANT PipelineIsHead
INVARIANT AssertionsHold
INVARIANT ViewIsOverlay
PROPERTY ContractSpec
PROPERTY QueueDrains
PROPERTY Converges
\* When all writes are answered and the versions told, nothing is left to do.
CHECK_DEADLOCK FALSE
