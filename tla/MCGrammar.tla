------------------------------ MODULE MCGrammar ------------------------------
(***************************************************************************)
(* Texts of up to MaxRules rules, in which each rule is any of a text, a   *)
(* reference, a sequence or an alternation of two references, or an        *)
(* extension, in any order; two grammars, one included in the other; and a *)
(* parser made at any time, which observes one or two of the rules.        *)
(***************************************************************************)
EXTENDS ParserSetup, TLC

CONSTANTS n1, n2, n3, g1, g2

MCName == {n1, n2, n3}
Symmetric == Permutations(MCName)

Rule(form, refs) == [name : MCName, extension : {FALSE}, form : {form}, refs : refs]
Extensions(form, refs) == [name : MCName, extension : {TRUE}, form : {form}, refs : refs]

One == {<<n>> : n \in MCName}
Two == {r \in MCName \X MCName : r[1] # r[2]}

Texts      == Rule("text", {<<>>})
Aliases    == Rule("reference", One)
Selectors  == Rule("selector", Two)
Sequences2 == Rule("sequence", Two)

(* Every form of rule, and extensions that are not the name of a rule.     *)
AnyOrder == Texts \cup Aliases \cup Selectors \cup Sequences2
            \cup Extensions("text", {<<>>}) \cup Extensions("sequence", Two)

(* Extensions by the name of a rule: "a =/ b".                             *)
NamedExtensions ==
    Texts \cup Selectors \cup {s \in Extensions("reference", One) : s.refs[1] # s.name}

OneIncludesTwo == {<<g1, g2>>}
OnlyTwo == {g2}
NoPair     == {}

MCStatement       == [g \in {g1, g2} |-> IF g = g1 THEN AnyOrder ELSE Texts \cup Selectors]
(* A grammar that awaits rules, and one of texts without a reference; a     *)
(* grammar without a text, and one of rules in any order.                  *)
AwaitingStatement == [g \in {g1, g2} |-> IF g = g1 THEN Selectors ELSE Texts]
ForwardStatement  == [g \in {g1, g2} |-> IF g = g1 THEN {} ELSE Selectors]
ExtendedStatement == [g \in {g1} |-> NamedExtensions]
OneGrammar        == {g1}
TwoGrammars       == {g1, g2}

MCObserved == {names \in SUBSET MCName : Cardinality(names) \in 1..2}
NoRule     == {}
===============================================================================
