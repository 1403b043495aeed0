SPECIFICATION Spec
CONSTANTS
    Shape <- OctetShape
    Rule <- OctetRule
    Handled <- OctetHandled
    Collected <- OctetCollected
    Char <- OctetChar
    Nul <- MCNul
    Thread <- MCThread
    Script <- OctetScript
INVARIANTS
    ParsedWithinInput
