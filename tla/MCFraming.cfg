SPECIFICATION Spec
CONSTANTS
    BufferSize = 5
    Methods = {"GET", "HEAD", "PUT"}
    Targets = {"static", "created", "empty", "folder", "moved", "refused", "bad"}
    RedirTargets = {"static", "moved", "refused", "bad"}
    Files <- MCFiles
    Outputs <- MCOutputs
    Expects = {FALSE}
    MaxAnswers = 2
    MaxCookies = 1
INVARIANTS
    PeerInStep
    BodiesIntact
\* A connection that is closed takes no more steps.
CHECK_DEADLOCK FALSE
