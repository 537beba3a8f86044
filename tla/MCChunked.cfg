SPECIFICATION Spec
CONSTANTS
    Messages <- AnyMessages
    Followers <- Pipelined
    BodyMaxSize = 9
INVARIANTS
    AcceptedIsExact
    WellFormedAccepted
    CounterMatchesFile
\* The body ends.
CHECK_DEADLOCK FALSE
