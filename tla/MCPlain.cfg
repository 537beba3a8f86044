SPECIFICATION FairSpec
CONSTANTS
    Kinds <- PlainKinds
    CgiOutputs <- PlainOutputs
    RedirTargets <- NoTargets
    Polite = TRUE
    MaxUnits = 10
    MaxOut = 2
INVARIANTS
    WriteHasWork
    TmpOutOwned
PROPERTIES
    TimeoutOnlyIncomplete
    NoClientHangs
\* A terminated connection takes no more steps.
CHECK_DEADLOCK FALSE
