SPECIFICATION Spec
CONSTANTS
    Grammars <- OneExtended
    RuleOrder <- MainOrder
    Extension <- BeginsLikeOne
    Char <- MCChar
    Nul <- MCNul
INVARIANTS
    FirstBranchIsTheGoodOne
CHECK_DEADLOCK FALSE
