SPECIFICATION Spec
CONSTANTS
    Texts <- MCTexts
    Inputs <- MCInputs
    Collector <- MCCollector
INVARIANTS
    ReadAsWritten
    MatchIsInLanguage
    ObjectIsNested
CHECK_DEADLOCK FALSE
