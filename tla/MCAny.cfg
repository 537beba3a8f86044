SPECIFICATION Spec
CONSTANTS
    Kinds <- AnyKinds
    CgiOutputs <- AnyOutputs
    RedirTargets <- AnyTargets
    Polite = FALSE
    MaxUnits = 10
    MaxOut = 2
INVARIANTS
    ConnectionInv
    ReadOwesNothing
    WorkOnWholeRequest
    TmpBodyOwned
PROPERTIES
    NextRequestAtBoundary
    SuccessIsDelivered
    AnswerFitsRequest
\* A terminated connection takes no more steps.
CHECK_DEADLOCK FALSE
