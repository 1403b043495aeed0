SPECIFICATION Spec
CONSTANTS
    Grammars <- MCGrammars
    Char <- MCChar
    Bytes <- MCBytes
    Magic <- MCMagic
INVARIANTS
    WholeFileIsTheGrammar
    AcceptedIsDefined
    OnlyLastRuleIsDamaged
