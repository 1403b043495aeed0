SPECIFICATION FairSpec
CONSTANTS
    Shape <- NullableShape
    Rule <- NullableRule
    Handled <- NullableHandled
    Collected <- NullableCollected
    Char <- NullableChar
    Nul <- MCNul
    Thread <- MCThread
    Script <- NullableScript
PROPERTIES
    ParsesEnd
