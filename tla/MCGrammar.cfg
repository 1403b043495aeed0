SPECIFICATION CarefulSetupSpec
CONSTANTS
    n1 = n1
    n2 = n2
    n3 = n3
    g1 = g1
    g2 = g2
    Name <- MCName
    Grammar <- TwoGrammars
    Statement <- MCStatement
    Included <- OneIncludesTwo
    Temporary <- OnlyTwo
    Destroyed <- TwoGrammars
    Observed <- MCObserved
    MaxRules = 3
SYMMETRY Symmetric
INVARIANTS
    TypeOK
    CompleteMeansDefined
    ReferencesMeanTheRule
    RulesHaveTheirName
    HandlersAreFound
