SPECIFICATION Spec
CONSTANTS
    Grammars <- OneForward
    RuleOrder <- ForwardOrder
    Extension <- NoExtension
    Char <- MCChar
    Nul <- MCNul
INVARIANTS
    FirstBranchIsTheGoodOne
CHECK_DEADLOCK FALSE
