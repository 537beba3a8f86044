SPECIFICATION Spec
CONSTANTS
    Clients = {c1, c2}
    Pids = {1, 2, 3}
    Pieces = 2
    MaxFile = 2
INVARIANTS
    PidOwned
    OutOwned
    NothingLost
PROPERTY
    ScriptsAnswered
