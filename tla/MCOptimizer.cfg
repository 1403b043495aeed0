SPECIFICATION Spec
CONSTANTS
    Grammars <- Family
    RuleOrder <- FamilyOrder
    Extension <- FamilyExtension
    Char <- MCChar
    Nul <- MCNul
INVARIANTS
    FirstBranchIsTheGoodOne
CHECK_DEADLOCK FALSE
