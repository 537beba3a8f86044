SPECIFICATION Spec
CONSTANTS
    Base <- MCBase
    Expected <- MCExpected
    Edits <- MCEdits
    Number <- MCNumber
    Unbindable <- MCUnbindable
    Unlistenable <- MCUnlistenable
INVARIANT
    SyntaxErrorsContained
