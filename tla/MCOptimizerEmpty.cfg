SPECIFICATION Spec
CONSTANTS
    Grammars <- OneEmpty
    RuleOrder <- MainOrder
    Extension <- NoExtension
    Char <- MCChar
    Nul <- MCNul
INVARIANTS
    FirstBranchIsTheGoodOne
CHECK_DEADLOCK FALSE
