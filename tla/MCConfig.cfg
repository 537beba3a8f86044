SPECIFICATION Spec
CONSTANTS
    Base <- MCBase
    Expected <- MCExpected
    Edits <- MCEdits
    Number <- MCNumber
    Unbindable <- MCUnbindable
    Unlistenable <- MCUnlistenable
INVARIANTS
    TypeOK
    HostContainment
    BlockContainment
    LossReported
    NamesReachHost
PROPERTY
    ParseEnds
