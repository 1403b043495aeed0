SPECIFICATION Spec
CONSTANTS
    Texts <- CommentTexts
    Inputs <- MCInputs
    Collector <- MCCollector
INVARIANTS
    ReadAsWritten
CHECK_DEADLOCK FALSE
