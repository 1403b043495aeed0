SPECIFICATION FairSpec
CONSTANTS
    Shape <- MCShape
    Rule <- MCRule
    Handled <- MCHandled
    Collected <- MCCollected
    Char <- MCChar
    Nul <- MCNul
    Thread <- MCThread
    Script <- MCScript
INVARIANTS
    TypeOK
    NeverAborts
    StackIsOpenActivations
    UndoIsExact
    ContextHasOneHolder
    CachedContextIsClean
    ParsedWithinInput
PROPERTIES
    ImplementsRecognition
    ParsesEnd
