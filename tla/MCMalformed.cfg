SPECIFICATION Spec
CONSTANTS
    Kinds <- CgiKinds
    CgiOutputs <- MalformedOutputs
    RedirTargets <- NoTargets
    Polite = TRUE
    MaxUnits = 5
    MaxOut = 1
INVARIANTS
    WriteHasWork
\* A terminated connection takes no more steps.
CHECK_DEADLOCK FALSE
