SPECIFICATION SetupSpec
CONSTANTS
    n1 = n1
    n2 = n2
    n3 = n3
    g1 = g1
    g2 = g2
    Name <- MCName
    Grammar <- TwoGrammars
    Statement <- ForwardStatement
    Included <- OneIncludesTwo
    Temporary <- OnlyTwo
    Destroyed <- NoPair
    Observed <- NoRule
    MaxRules = 3
SYMMETRY Symmetric
INVARIANTS
    CompleteMeansDefined
