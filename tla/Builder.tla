------------------------------- MODULE Builder -------------------------------
(***************************************************************************)
(* From the tree of a parsed ABNF text to recognizers: buildRecognizer()   *)
(* of each kind of node of grammarbuilder.h, and of the list of the rules. *)
(* The order in which rules are named and pointers set is the subject of   *)
(* module Grammar; here a reference leads to the rule of its name.         *)
(***************************************************************************)
EXTENDS Integers, Sequences, SequencesExt

CONSTANTS
    Tree,       \* Tree[x]: the node x
    RuleList,   \* the rules: name, whether it is an extension, alternation
    Lower,      \* Lower[c]: ::tolower()
    Char, Nul

NodeKind == {"alternation", "concatenation", "repetition", "rulename",
             "group", "option", "char-val", "num-val", "range", "prose-val"}

(* value is mMin, mMax and mCount of a repetition that has a repeat (-1 for*)
(* what is not written, but 0 for mMin), the name of a rulename, the       *)
(* characters of a char-val or a num-val, those between the bounds of a    *)
(* range.                                                                  *)
Abnf(node, value, parts) == [node |-> node, value |-> value, parts |-> parts]
NoCount == -1

Statement(name, extension, alternation) ==
    [name |-> name, extension |-> extension, alternation |-> alternation]

Statements(name, extension) ==
    SelectSeq(RuleList, LAMBDA s : s.name = name /\ s.extension = extension)

R == INSTANCE Recognizers
    WITH Shape <- <<>>, Rule <- {}, Handled <- {}, Collected <- <<>>

----------------------------------------------------------------------------
Definition(name) == Statements(name, FALSE)[1].alternation

(* Nodes whose recognizer is that of their part.                           *)
PassesOn(x) ==
    \/ Tree[x].node \in {"alternation", "concatenation"} /\ Len(Tree[x].parts) = 1
    \/ Tree[x].node = "repetition" /\ Tree[x].value = <<>>
    \/ Tree[x].node = "group"

(* The node that builds the recognizer of x.                               *)
LeadsTo ==
    LET leads[x \in DOMAIN Tree] == IF PassesOn(x) THEN leads[Tree[x].parts[1]] ELSE x
    IN  leads

IsReference(x) == Tree[LeadsTo[x]].node = "rulename"

(* "prose-val '%s' is not supported."                                      *)
IsFatalToRead == \E x \in DOMAIN Tree : Tree[x].node = "prose-val"

(* The rules that are alternations of their own, which can be extended.    *)
IsSelector(name) == Tree[LeadsTo[Definition(name)]].node = "alternation"

(* "ABNFElement is empty", "is being redefined", "was not defined with a   *)
(* Selector", "is not defined".                                            *)
IsFatalToBuild ==
    \/ \E x \in DOMAIN Tree : Tree[x].node = "char-val" /\ Tree[x].value = <<>>
    \/ \E i \in DOMAIN RuleList :
          LET s == RuleList[i]
              before == {j \in 1..i - 1 : RuleList[j].name = s.name /\ ~RuleList[j].extension}
          IN  IF s.extension THEN \A j \in before : ~IsSelector(s.name) ELSE before # {}

(* isComplete()                                                            *)
IsComplete ==
    \A x \in DOMAIN Tree :
        Tree[x].node = "rulename" => Statements(Tree[x].value[1], FALSE) # <<>>

(* Recognizers are called by the node that builds them.  "rule2 = rule1"   *)
(* builds a RecognizerAlias, called by the alternation of rule2.           *)
RuleRecognizer(name) ==
    LET x == Definition(name)
    IN  IF IsReference(x) THEN x ELSE LeadsTo[x]

(* What buildRecognizer() returns: for a reference, the rule.              *)
Returned(x) ==
    IF IsReference(x) THEN RuleRecognizer(Tree[LeadsTo[x]].value[1]) ELSE LeadsTo[x]

Parts(x) == [k \in DOMAIN Tree[x].parts |-> Returned(Tree[x].parts[k])]

(* extendRule(): the extensions of a rule are its last alternatives, in    *)
(* their order.                                                            *)
Extensions(x) ==
    LET of == SelectSeq(RuleList,
                LAMBDA s : s.extension /\ RuleRecognizer(s.name) = x)
    IN  [k \in DOMAIN of |-> Returned(of[k].alternation)]

(* Mutant: a count is a minimum.                                           *)
CountIsMinimum(value) ==
    IF value[3] # NoCount THEN <<value[3], value[2]>> ELSE <<value[1], value[2]>>

Bounds(value) ==
    IF value[3] # NoCount THEN <<value[3], value[3]>> ELSE <<value[1], value[2]>>

(* A char-val is a Literal, or a CharRecognizer, that ignores case; the    *)
(* characters of a num-val do not.                                         *)
IgnoringCase(c) == {d \in Char : Lower[d] = Lower[c]}

(* The recognizer that a node builds, of those that its parts return.      *)
Recognizer(n, parts, extensions) ==
    CASE n.node = "alternation"   -> R!Selector(parts \o extensions)
      [] n.node = "concatenation" -> R!Sequence(parts)
      [] n.node = "repetition"    -> R!Loop(parts[1], Bounds(n.value)[1], Bounds(n.value)[2])
      [] n.node = "option"        -> R!Loop(parts[1], 0, 1)
      [] n.node = "char-val"      -> R!Text([k \in DOMAIN n.value |-> IgnoringCase(n.value[k])])
      [] n.node = "num-val"       -> R!Text([k \in DOMAIN n.value |-> {n.value[k]}])
      [] n.node = "range"         -> R!Text(<<n.value[1]>>)

Aliases == {x \in {Definition(s.name) : s \in Range(RuleList)} : IsReference(x)}
Builders == {x \in Range(LeadsTo) : Tree[x].node # "rulename"}

(* The recognizers of the grammar.                                         *)
Built ==
    [x \in Aliases \cup Builders |->
        IF x \in Builders THEN Recognizer(Tree[x], Parts(x), Extensions(x))
        ELSE R!Delegate(Returned(x))]

==============================================================================
