SPECIFICATION Spec
CONSTANTS
    Kinds <- NoExpectKinds
    CgiOutputs <- WellFormedOutputs
    RedirTargets <- AnyTargets
    Polite = FALSE
    MaxUnits = 10
    MaxOut = 2
INVARIANTS
    ForeignFilesKept
PROPERTY ImplementsExchange
\* A terminated connection takes no more steps.
CHECK_DEADLOCK FALSE
