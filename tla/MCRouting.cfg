SPECIFICATION Spec
CONSTANTS
    Hosts <- MCHosts
    Uris <- MCUris
    Targets <- MCTargets
INVARIANTS
    PathLeadsSame
    MatchIsGlob
    ClosestLocation
    AcceptedIsAllowed
    FolderGetsDefault
\* A checked request takes no more steps.
CHECK_DEADLOCK FALSE
